-------------------------- MODULE InferenceSessions --------------------------
(***************************************************************************)
(* The robot session of one deployment (inference_sessions.py): start and  *)
(* stop requests, the lifetime watchdog, the supervisor of the loop and    *)
(* the shutdown, all coroutines of one event loop.  A step runs from one   *)
(* await to the next; the manager's lock never spans an await, so it is    *)
(* never found taken.  DeploymentService.stop is abstracted to what its    *)
(* callers see of it: refused while another stop is active, else a task of *)
(* its own that marks the row and tears down, surviving cancellation.  The *)
(* provider, the store and restarts are in Deployments, the arm in         *)
(* ArmControl, the loop's inside in RobotInference.                        *)
(***************************************************************************)

VARIABLES
    row,         \* Deployment.status, once deployed
    expired,     \* its lifetime is over
    svc,         \* the active DeploymentService.stop: its caller and progress
    status,      \* _LiveSession.status; "none": no session
    start,       \* the start request: opening the loop, or cleaning up
    cancel,      \* it has been cancelled and has not noticed yet
    loop,        \* the session's RobotInferenceLoop
    rec,         \* recording_status; "nameless": starting, but recording_id
                 \* is None because its row could not be made
    episode,     \* the episode of this session, with the recording manager
    verified,    \* teardown_verified
    stopper,     \* stop_task, as far as it has come
    trouble,     \* its local_error
    sup,         \* supervisor_task
    exp,         \* how far the two callers of _expire_deployment have come
    watchdog,    \* _watchdog_task; "doomed": cancelled inside an await
    sd, listed   \* the shutdown, and whether it listed this session

svars == <<row, svc>>
recording == <<rec, episode>>
session == <<status, recording, verified>>
motion == <<start, cancel, loop>>
ending == <<stopper, trouble, sup>>
keepers == <<exp, watchdog, sd, listed>>
vars == <<svars, expired, session, motion, ending, keepers>>

Free == [by |-> "nobody", at |-> "idle"]
Alive == {"opening", "inline", "shielded"}
Stopping == {"loop", "record", "provider"}
Expirers == {"watchdog", "shutdown"}

Init ==
    /\ row = "running" /\ expired = FALSE /\ svc = Free
    /\ status = "none" /\ verified = FALSE /\ rec = "off" /\ episode = "none"
    /\ start = "none" /\ cancel = FALSE /\ loop = "none"
    /\ stopper = "none" /\ trouble = FALSE /\ sup = "none"
    /\ exp = [x \in Expirers |-> "idle"] /\ watchdog = "alive"
    /\ sd = "up" /\ listed = FALSE

-----------------------------------------------------------------------------
(* DeploymentService.stop *)

Calls(by) == svc = Free /\ svc' = [by |-> by, at |-> "queued"]

Refused == svc # Free /\ UNCHANGED svc

(* Its own task looks at the row one turn of the event loop later.         *)
StopLoads ==
    /\ svc.at = "queued"
    /\ \/ row = "stopped" /\ svc' = [svc EXCEPT !.at = "done"] /\ UNCHANGED row
       \/ row # "stopped" /\ svc' = [svc EXCEPT !.at = "tearing"] /\ row' = "stopping"
    /\ UNCHANGED <<expired, session, motion, ending, keepers>>

TearsDown ==
    /\ svc.at = "tearing"
    /\ svc' = [svc EXCEPT !.at = "done"] /\ row' = "stopped"
    /\ UNCHANGED <<expired, session, motion, ending, keepers>>

(* Unverified: the row is marked, or the store failed that too.            *)
TearDownFails ==
    /\ svc.at = "tearing"
    /\ svc' = [svc EXCEPT !.at = "error"] /\ row' \in {"failed", "stopping"}
    /\ UNCHANGED <<expired, session, motion, ending, keepers>>

(* The caller goes on with the outcome, and the deployment is free again.  *)
Returns(by) == svc.by = by /\ svc.at \in {"done", "error"} /\ svc' = Free

-----------------------------------------------------------------------------
(* The recording of a session (recording.py) *)

(* start_inference_episode: the last thing before the loop runs.           *)
EpisodeStarts ==
    /\ rec' = IF rec = "off" THEN "off" ELSE "recording"
    /\ episode' = IF rec = "off" THEN "none" ELSE "open"

(* abort_inference_episode *)
EpisodeAborts == episode' = IF episode = "open" THEN "lost" ELSE episode

(* stop_inference_episode: a thread finalizes what was captured.  When it  *)
(* fails the files go, unless they hold a whole episode.                   *)
EpisodeStops == rec' = "finalizing" /\ episode' = "finalizing"
EpisodeSettles(ends) == episode = "finalizing" /\ episode' \in ends

(* The episode is added to the row, and then confirmed to the manager.     *)
EpisodePersists == rec' = "ready" /\ UNCHANGED trouble

(* It cannot be kept, or not be added: the row says failed.                *)
EpisodeFails == rec' = "failed" /\ trouble' = TRUE

-----------------------------------------------------------------------------
(* Starting *)

CleanupDone ==
    /\ start' = "done"
    /\ status' = "failed" /\ verified' = (row = "stopped")
    /\ rec' = IF rec \in {"off", "nameless"} THEN "off" ELSE "failed"

(* _cleanup_failed_start, up to its only await; a refused stop is ignored. *)
CleansUp(how) ==
    /\ EpisodeAborts
    /\ \/ Calls("start") /\ start' = how /\ UNCHANGED <<status, verified, rec>>
       \/ Refused /\ CleanupDone

(* The checks and the registration of a session; one that it replaces has  *)
(* failed before it had a loop, was not cancelled and has nothing verified.*)
Registers ==
    /\ sd = "up" /\ row = "running" /\ ~expired
    /\ status \notin {"starting", "running", "stopping"}
    /\ stopper' = "none" /\ trouble' = FALSE /\ sup' = "none" /\ episode' = "none"
    /\ UNCHANGED <<row, expired, cancel, verified, keepers>>

(* Up to the lease and the first question to the runtime without an await. *)
Start ==
    /\ Registers
    /\ status' = "starting" /\ rec' \in {"off", "starting"}
    /\ loop' = "opening" /\ start' = "opening"
    /\ UNCHANGED svc

(* The store fails (_persist_session_start) before there is a recording,   *)
(* the loop cannot be made, or the arm is not free.                        *)
StartRefused ==
    /\ Registers
    /\ loop' \in {"none", "off"}
    /\ \/ /\ Calls("start") /\ start' = "inline"
          /\ status' = "starting"
          /\ \/ rec' \in {"off", "starting"}
             \/ rec' = "nameless" /\ loop' = "none"
       \/ /\ Refused /\ start' = "done"
          /\ status' = "failed" /\ rec' \in {"off", "failed"}

(* Mutant: a cancelled start goes on once the runtime has answered. *)
OpensAnyway ==
    /\ start = "opening" /\ loop' = "running" /\ start' = "done"
    /\ status' = "running" /\ sup' = "watching"
    /\ EpisodeStarts
    /\ UNCHANGED <<svars, expired, verified, cancel, stopper, trouble, keepers>>

(* The runtime is verified, which takes longer than a turn of the event    *)
(* loop, and the recording opened: the loop runs.                          *)
Opens ==
    /\ start = "opening" /\ ~cancel /\ svc.at # "queued"
    /\ loop' = "running" /\ start' = "done"
    /\ status' = "running" /\ sup' = "watching"
    /\ EpisodeStarts
    /\ UNCHANGED <<svars, expired, verified, cancel, stopper, trouble, keepers>>

(* It is not, or the request was cancelled meanwhile: the lease goes back. *)
OpenFails ==
    /\ start = "opening"
    /\ loop' = "off"
    /\ CleansUp(IF cancel THEN "shielded" ELSE "inline")
    /\ UNCHANGED <<row, expired, cancel, ending, keepers>>

(* Only a cleanup on account of a cancellation is shielded from the next.  *)
CleanupEnds ==
    /\ Returns("start")
    /\ \/ ~(start = "inline" /\ cancel) /\ CleanupDone /\ UNCHANGED episode
       \/ start = "inline" /\ cancel /\ start' = "done" /\ UNCHANGED session
    /\ UNCHANGED <<row, expired, cancel, loop, ending, keepers>>

-----------------------------------------------------------------------------
(* The loop and its supervisor *)

LoopEnds ==
    /\ loop \in {"running", "stopping"}
    /\ loop' \in {"ended", "faulted"}
    /\ UNCHANGED <<svars, expired, session, start, cancel, ending, keepers>>

(* _ensure_stopped: a stop task, unless one is at work.                    *)
EnsureStopped ==
    \/ stopper \in Stopping /\ UNCHANGED <<status, stopper>>
    \/ stopper \notin Stopping /\ status' = "stopping" /\ stopper' = "loop"

Supervises ==
    /\ sup = "watching" /\ loop \in {"ended", "faulted"}
    /\ \/ status = "running" /\ EnsureStopped /\ sup' = "joining"
       \/ status # "running" /\ sup' = "done" /\ UNCHANGED <<status, stopper>>
    /\ UNCHANGED <<svars, expired, recording, verified, motion, trouble, keepers>>

SupervisorFails ==
    /\ sup = "told"
    /\ status' = "failed" /\ sup' = "done"
    /\ UNCHANGED <<svars, expired, recording, verified, motion, stopper, trouble, keepers>>

-----------------------------------------------------------------------------
(* The stop task *)

StopSignals ==
    /\ stopper = "loop" /\ loop = "running"
    /\ loop' = "stopping"
    /\ UNCHANGED <<svars, expired, session, start, cancel, ending, keepers>>

(* Who waits for the task learns how it ended.                             *)
Tells(failed) ==
    /\ sup' = IF sup # "joining" THEN sup ELSE IF failed THEN "told" ELSE "done"
    /\ exp' = [x \in Expirers |-> IF exp[x] = "join" THEN "idle" ELSE exp[x]]

(* The provider is stopped in any case; a stop already active fails it.    *)
StopsProvider ==
    \/ Calls("inner") /\ stopper' = "provider" /\ UNCHANGED <<status, verified, sup, exp>>
    \/ /\ Refused /\ stopper' = "done"
       /\ status' = "failed" /\ verified' = FALSE /\ Tells(TRUE)

(* Mutant: the loop is told, not waited for. *)
StopGoesOn ==
    /\ stopper = "loop"
    /\ trouble' = FALSE /\ StopsProvider
    /\ UNCHANGED <<row, recording, expired, motion, watchdog, sd, listed>>

(* The loop is joined (one that never started raises); an episode is       *)
(* finalized before the provider's turn comes.  Without a recording_id     *)
(* recording_status is left alone.                                         *)
StopJoinsLoop ==
    /\ stopper = "loop" /\ loop \notin {"opening", "running", "stopping"}
    /\ \/ /\ rec = "recording"
          /\ trouble' = (loop \in {"off", "faulted"})
          /\ EpisodeStops /\ stopper' = "record"
          /\ UNCHANGED <<svc, status, verified, sup, exp>>
       \/ /\ rec # "recording"
          /\ trouble' = (rec \in {"starting", "failed"} \/ loop \in {"off", "faulted"})
          /\ rec' = IF rec = "starting" THEN "failed" ELSE rec
          /\ StopsProvider /\ UNCHANGED episode
    /\ UNCHANGED <<row, expired, motion, watchdog, sd, listed>>

StopFinalizes ==
    /\ stopper = "record"
    /\ \/ EpisodeSettles({"kept"}) /\ EpisodePersists
       \/ EpisodeSettles({"kept", "lost"}) /\ EpisodeFails
    /\ StopsProvider
    /\ UNCHANGED <<row, expired, motion, watchdog, sd, listed>>

(* Mutant: only a local error makes the session a failed one. *)
StopEndsWell ==
    /\ Returns("inner")
    /\ stopper' = "done"
    /\ status' = IF trouble THEN "failed" ELSE "stopped"
    /\ verified' = (svc.at = "done")
    /\ Tells(svc.at = "error")
    /\ UNCHANGED <<row, expired, recording, motion, trouble, watchdog, sd, listed>>

StopEnds ==
    /\ Returns("inner")
    /\ stopper' = "done"
    /\ status' = IF trouble \/ svc.at = "error" THEN "failed" ELSE "stopped"
    /\ verified' = (svc.at = "done")
    /\ Tells(svc.at = "error")
    /\ UNCHANGED <<row, expired, recording, motion, trouble, watchdog, sd, listed>>

-----------------------------------------------------------------------------
(* Requests to stop *)

ClientStop ==
    /\ sd = "up" /\ status # "starting"
    /\ \/ status = "none" /\ Calls("client") /\ UNCHANGED <<status, stopper>>
       \/ status # "none" /\ EnsureStopped /\ UNCHANGED svc
    /\ UNCHANGED <<row, expired, recording, verified, motion, trouble, sup, keepers>>

ClientStopReturns ==
    /\ Returns("client")
    /\ UNCHANGED <<row, expired, session, motion, ending, keepers>>

-----------------------------------------------------------------------------
(* The lifetime *)

Expires ==
    /\ ~expired /\ expired' = TRUE
    /\ UNCHANGED <<svars, session, motion, ending, keepers>>

(* Mutant: a teardown that failed is not taken up again. *)
LooksForRunning ==
    /\ watchdog = "alive" /\ exp["watchdog"] = "idle"
    /\ row = "running" /\ expired
    /\ exp' = [exp EXCEPT !["watchdog"] = "listed"]
    /\ UNCHANGED <<svars, expired, session, motion, ending, watchdog, sd, listed>>

(* A pass lists the rows first and takes them up one after the other.      *)
WatchdogLooks ==
    /\ watchdog = "alive" /\ exp["watchdog"] = "idle"
    /\ row \in {"stopping", "failed"} \/ (row = "running" /\ expired)
    /\ exp' = [exp EXCEPT !["watchdog"] = "listed"]
    /\ UNCHANGED <<svars, expired, session, motion, ending, watchdog, sd, listed>>

(* _expire_deployment: cancel a start and leave it a moment, stop a        *)
(* session, or stop the deployment.                                        *)
Expire(x) ==
    /\ exp[x] = "listed"
    /\ \/ /\ start \in Alive
          /\ status' = "stopping" /\ cancel' = TRUE
          /\ exp' = [exp EXCEPT ![x] = "grace"]
          /\ UNCHANGED <<svc, stopper>>
       \/ /\ start \notin Alive /\ status \in {"running", "stopping", "failed"}
          /\ EnsureStopped
          /\ exp' = [exp EXCEPT ![x] = "join"]
          /\ UNCHANGED <<svc, cancel>>
       \/ /\ start \notin Alive /\ status \in {"none", "stopped"}
          /\ \/ Calls(x) /\ exp' = [exp EXCEPT ![x] = "provider"]
             \/ Refused /\ exp' = [exp EXCEPT ![x] = "idle"]
          /\ UNCHANGED <<status, cancel, stopper>>
    /\ UNCHANGED <<row, expired, recording, verified, start, loop, trouble, sup, watchdog, sd, listed>>

GraceEnds(x) ==
    /\ exp[x] = "grace" /\ watchdog # "doomed"
    /\ \/ /\ row = "stopped" /\ verified' = TRUE
          /\ exp' = [exp EXCEPT ![x] = "idle"] /\ UNCHANGED svc
       \/ /\ row # "stopped" /\ UNCHANGED verified
          /\ \/ Calls(x) /\ exp' = [exp EXCEPT ![x] = "provider"]
             \/ Refused /\ exp' = [exp EXCEPT ![x] = "idle"]
    /\ UNCHANGED <<row, expired, status, recording, motion, ending, watchdog, sd, listed>>

ExpireReturns(x) ==
    /\ exp[x] = "provider" /\ Returns(x)
    /\ exp' = [exp EXCEPT ![x] = "idle"]
    /\ verified' = (verified \/ (svc.at = "done" /\ status # "none"))
    /\ UNCHANGED <<row, expired, status, recording, motion, ending, watchdog, sd, listed>>

-----------------------------------------------------------------------------
(* The end of the process *)

(* The server has drained the requests.  A watchdog that is waiting in     *)
(* _ensure_stopped does not notice its cancellation (_settle_task).        *)
BeginShutdown ==
    /\ sd = "up" /\ start \notin Alive /\ svc.by # "client"
    /\ sd' = "joining"
    /\ listed' = (status \in {"starting", "running", "stopping"})
    /\ \/ /\ exp["watchdog"] \in {"idle", "listed"}
          /\ watchdog' = "gone" /\ exp' = [exp EXCEPT !["watchdog"] = "idle"]
       \/ /\ exp["watchdog"] \in {"grace", "provider"}
          /\ watchdog' = "doomed" /\ UNCHANGED exp
       \/ /\ exp["watchdog"] = "join"
          /\ UNCHANGED <<watchdog, exp>>
    /\ UNCHANGED <<svars, expired, session, motion, ending>>

WatchdogDies ==
    /\ watchdog = "doomed" /\ exp["watchdog"] \in {"idle", "grace"}
    /\ watchdog' = "gone" /\ exp' = [exp EXCEPT !["watchdog"] = "idle"]
    /\ UNCHANGED <<svars, expired, session, motion, ending, sd, listed>>

ShutdownExpires ==
    /\ sd = "joining" /\ watchdog = "gone"
    /\ sd' = "sweeping"
    /\ exp' = [exp EXCEPT !["shutdown"] = IF listed THEN "listed" ELSE "idle"]
    /\ UNCHANGED <<svars, expired, session, motion, ending, watchdog, listed>>

(* What the store still lists is stopped, except a failed row that turns   *)
(* out to have nothing running.                                            *)
ShutdownSweeps ==
    /\ sd = "sweeping" /\ exp["shutdown"] = "idle"
    /\ \/ /\ row # "stopped" /\ Calls("shutdown")
          /\ exp' = [exp EXCEPT !["shutdown"] = "provider"]
       \/ /\ row \in {"stopped", "failed"} \/ svc # Free
          /\ UNCHANGED <<svc, exp>>
    /\ sd' = "closing"
    /\ UNCHANGED <<row, expired, session, motion, ending, watchdog, listed>>

ShutdownEnds ==
    /\ sd = "closing" /\ exp["shutdown"] = "idle"
    /\ sd' = "down"
    /\ UNCHANGED <<svars, expired, session, motion, ending, exp, watchdog, listed>>

-----------------------------------------------------------------------------
Starting == Start \/ StartRefused \/ Opens \/ OpenFails \/ CleanupEnds

StopTask == StopSignals \/ StopJoinsLoop \/ StopFinalizes \/ StopEnds

Supervisor == Supervises \/ SupervisorFails

Keeper(x) == Expire(x) \/ GraceEnds(x) \/ ExpireReturns(x)

Shutdown == ShutdownExpires \/ ShutdownSweeps \/ ShutdownEnds

(* Nothing happens in a process that has ended.                            *)
Next ==
    /\ sd # "down"
    /\ \/ StopLoads \/ TearsDown \/ TearDownFails
       \/ Starting \/ LoopEnds \/ Supervisor \/ StopTask
       \/ ClientStop \/ ClientStopReturns
       \/ Expires \/ WatchdogLooks \/ \E x \in Expirers : Keeper(x)
       \/ BeginShutdown \/ WatchdogDies \/ Shutdown

Spec == Init /\ [][Next]_vars

Live(A) == sd # "down" /\ A

(* Tasks that can run do run; calls return, the runtime's and the loop's   *)
(* included, since the transports have timeouts; a teardown tried again    *)
(* and again succeeds.                                                     *)
FairSpec ==
    /\ Spec
    /\ WF_vars(Live(StopLoads)) /\ WF_vars(Live(TearsDown \/ TearDownFails))
    /\ SF_vars(Live(TearsDown))
    /\ WF_vars(Live(Opens \/ OpenFails)) /\ WF_vars(Live(CleanupEnds))
    /\ WF_vars(loop = "stopping" /\ Live(LoopEnds))
    /\ WF_vars(Live(Supervisor)) /\ WF_vars(Live(StopTask))
    /\ WF_vars(Live(ClientStopReturns)) /\ WF_vars(Live(WatchdogLooks))
    /\ \A x \in Expirers : WF_vars(Live(Keeper(x)))
    /\ WF_vars(Live(WatchdogDies)) /\ WF_vars(Live(Shutdown))

-----------------------------------------------------------------------------
Moving == loop \in {"running", "stopping"}

(* Whoever ends a session, its start, its stop task, the watchdog or the   *)
(* shutdown, has the arm's loop joined before the provider is torn down.   *)
OrderedTeardown == svc.at = "tearing" /\ svc.by # "client" => ~Moving

(* A session reported stopped left nothing behind: the deployment is       *)
(* stopped, the loop has ended without an error, the episode is kept or    *)
(* there never was one.  (A recording whose row could not be made goes on  *)
(* saying "starting" when the watchdog cut off the clean-up of the start.) *)
(* One reported failed has no loop that could still move the arm; neither  *)
(* has an episode open, nor says of a lost one that it is ready; and       *)
(* teardown_verified is never claimed of a deployment that still runs.     *)
ReportsAreTrue ==
    /\ status = "stopped" =>
        /\ row = "stopped" /\ loop \in {"none", "ended"}
        /\ \/ rec = "ready"
           \/ rec \in {"off", "nameless"} /\ episode = "none"
    /\ status = "failed" => loop \notin {"opening", "running", "stopping"}
    /\ status \in {"stopped", "failed"} => episode \in {"none", "kept", "lost"}
    /\ rec = "ready" => episode = "kept"
    /\ verified => row = "stopped"

(* The hard backstop: an expired deployment, or one whose loop has ended,  *)
(* is stopped, whatever its session is doing and however often providers   *)
(* and requests get in the way, while the process lasts.                   *)
Backstop ==
    (expired \/ loop \in {"ended", "faulted"}) ~> (row = "stopped" \/ sd # "up")
=============================================================================
