-------------------------- MODULE ManagedTraining --------------------------
(***************************************************************************)
(* Managed training jobs (managed_training.py): the manager's requests,    *)
(* one supervisor task per job, the reconciliation at startup and its      *)
(* retries, the shutdown, and crashes, over the job table and the Modal    *)
(* target (training_compute_modal.py).  A step runs from one await to the  *)
(* next; what a thread does meanwhile is a step of the provider.  Events,  *)
(* metrics and messages are left out; a failing provider or database, and  *)
(* a restart, is a trouble; there are at most MaxTroubles.                 *)
(***************************************************************************)
EXTENDS Naturals, FiniteSets

CONSTANTS
    MaxJobs,        \* jobs, numbered in the order they are created
    MaxTroubles     \* failures and restarts, one less after each job that is over

ASSUME TrainingAssumption ==
    MaxJobs \in Nat \ {0} /\ MaxTroubles \in Nat

Jobs == 1..MaxJobs

VARIABLES
    job,        \* ManagedTrainingJob: status, outcome, ids, started, output
    late,       \* the job's deadline is over
    app,        \* its Modal App, with the call in it
    flight,     \* requests of its launch may still reach the provider
    verdict,    \* how its call ended
    sup,        \* where its task in _tasks stands; "ended": to be rescheduled
    orphan,     \* _tasks holds an orphan cleanup under its key
    recon,      \* the reconciliation: before, in or after a pass
    known,      \* active_ids of the pass under way
    sd,         \* shutdown, as far as it has come
    troubles    \* so far

provider == <<app, flight, verdict>>
process == <<orphan, recon, known, sd>>
vars == <<job, late, provider, sup, process, troubles>>

Terminal == {"completed", "failed", "cancelled"}
Statuses == {"none", "created", "launching", "running", "finalizing", "cancelling"} \cup Terminal
Outcomes == {"pending", "succeeded", "failed", "cancelled"}

(* What an App can be: nothing, deployed without a call, with a call that  *)
(* waits, runs or has ended, told to stop, and stopped with no task left.  *)
Listed == {"bare", "queued", "busy", "over", "draining"}
Called == {"queued", "busy", "over"}

Stages == {"none", "launch", "prepare", "launching", "resume", "inspect",
           "discover", "discover2", "nap", "watch", "poll", "verify",
           "seek", "seek2", "halt", "check", "emergency", "ended"}

Active(j) == job[j].status \notin Terminal \cup {"none"}
Pending(j) == job[j].outcome = "pending"

Blank == [status |-> "none", outcome |-> "pending", ids |-> "none",
          started |-> FALSE, output |-> FALSE]

Init ==
    /\ job = [j \in Jobs |-> Blank]
    /\ late = [j \in Jobs |-> FALSE]
    /\ app = [j \in Jobs |-> "absent"]
    /\ flight = [j \in Jobs |-> FALSE]
    /\ verdict = [j \in Jobs |-> "none"]
    /\ sup = [j \in Jobs |-> "none"]
    /\ orphan = [j \in Jobs |-> FALSE]
    /\ recon = "boot" /\ known = {} /\ sd = "up"
    /\ troubles = 0

-----------------------------------------------------------------------------
Write(j, row) == job' = [job EXCEPT ![j] = row]

GoTo(j, stage) == sup' = [sup EXCEPT ![j] = stage]

(* The done callback, once a task is over, reschedules it unless shut down.*)
Ends(j) == GoTo(j, IF sd = "up" THEN "ended" ELSE "none")

Over == Cardinality({j \in Jobs : job[j].status \in Terminal})

Spend(n) ==
    /\ n = 0 \/ troubles + n + Over <= MaxTroubles
    /\ troubles' = troubles + n

Chosen(row, outcome) ==
    LET out == IF row.outcome = "pending" THEN outcome ELSE row.outcome
    IN  [row EXCEPT !.outcome = out,
                    !.status = IF out = "cancelled" THEN "cancelling" ELSE "finalizing"]

(* _claim_launch, _mark_provider_launch_started, _persist_handle and       *)
(* _persist_recovered_handle                                               *)
Claimed(row) == [row EXCEPT !.status = "launching"]

Started(row) == [row EXCEPT !.started = TRUE]

Handled(row) ==
    [row EXCEPT !.ids = "call",
                !.status = IF row.outcome = "pending" THEN "running" ELSE @]

Recovered(row) ==
    [row EXCEPT !.ids = IF @ = "none" THEN "app" ELSE @,
                !.status = IF @ \in {"created", "launching"} /\ row.outcome = "pending"
                             THEN "running" ELSE @]

(* _cleanup_until_stopped, given a handle or looking for one.              *)
Cleans(j, handle) ==
    GoTo(j, IF handle \/ job[j].ids # "none" THEN "halt" ELSE "seek")

(* An outcome is chosen and the App cleaned up.                            *)
Settles(j, outcome, handle) ==
    /\ Write(j, Chosen(job[j], outcome))
    /\ Cleans(j, handle)

(* _fail_and_cleanup after n faults; the database may fail it once more.   *)
Fails(j, handle, n) ==
    \/ Spend(n) /\ Settles(j, "failed", handle)
    \/ Spend(n + 1) /\ GoTo(j, "emergency") /\ UNCHANGED job

(* A read or a choice of the monitor fails: the task that launched the job *)
(* goes on to _fail_and_cleanup, a resumed one ends.                       *)
Breaks(j, handle) ==
    \/ Fails(j, handle, 1)
    \/ Spend(1) /\ Ends(j) /\ UNCHANGED job

(* _discover_state: two looks, for a listing may miss an App the first     *)
(* time; it has missed it when the second finds nothing.                   *)
LooksAgain(j, first, second) ==
    sup[j] = first /\ GoTo(j, second) /\ UNCHANGED <<job, troubles>>

IsMissing(j, second) == sup[j] = second /\ app[j] \notin Listed

-----------------------------------------------------------------------------
(* Requests; they are served once the first reconciliation is behind.      *)

Serving == sd = "up" /\ recon \notin {"boot", "first"}

(* _schedule: silent when any task stands under the key.                   *)
Schedules(j) ==
    IF sup[j] \in {"none", "ended"} /\ ~orphan[j] THEN GoTo(j, "resume") ELSE UNCHANGED sup

(* The same key again is answered from the row; a unique index on active   *)
(* rows decides between concurrent requests.                               *)
Create(j) ==
    /\ Serving /\ job[j].status = "none"
    /\ \A other \in Jobs : ~Active(other) /\ (other < j => job[other].status # "none")
    /\ Write(j, [Blank EXCEPT !.status = "created"])
    /\ GoTo(j, "launch")
    /\ UNCHANGED <<late, provider, process, troubles>>

Cancel(j) ==
    /\ Serving /\ Active(j)
    /\ IF Pending(j) THEN Write(j, Chosen(job[j], "cancelled")) ELSE UNCHANGED job
    /\ Schedules(j)
    /\ UNCHANGED <<late, provider, process, troubles>>

-----------------------------------------------------------------------------
(* Launching *)

(* _claim_launch; a row cancelled before that is resumed instead, and a    *)
(* shutdown cancels what has not been launched.                            *)
LaunchBegins(j) ==
    /\ sup[j] = "launch"
    /\ IF job[j].status # "created"
         THEN GoTo(j, "resume") /\ UNCHANGED <<job, troubles>>
         ELSE \/ /\ sd = "up" /\ Write(j, Claimed(job[j]))
                 /\ GoTo(j, "prepare") /\ UNCHANGED troubles
              \/ /\ sd # "up"
                 /\ \/ Settles(j, "cancelled", FALSE) /\ UNCHANGED troubles
                    \/ Spend(1) /\ Write(j, Claimed(job[j])) /\ Ends(j)
              \/ Fails(j, FALSE, 1)
    /\ UNCHANGED <<late, provider, process>>

(* The artifacts are prepared and recorded.  From there to the launch, its *)
(* mark in the row included, nothing awaits.                               *)
Prepares(j) ==
    /\ sup[j] = "prepare"
    /\ \/ /\ Pending(j) /\ sd = "up" /\ ~late[j]
          /\ Write(j, Started(job[j]))
          /\ GoTo(j, "launching")
          /\ flight' = [flight EXCEPT ![j] = TRUE]
          /\ UNCHANGED troubles
       \/ /\ ~Pending(j) /\ Cleans(j, FALSE)
          /\ UNCHANGED <<job, flight, troubles>>
       \/ /\ Pending(j) /\ sd # "up" /\ UNCHANGED flight
          /\ \/ Settles(j, "cancelled", FALSE) /\ UNCHANGED troubles
             \/ Spend(1) /\ Ends(j) /\ UNCHANGED job
       \/ Pending(j) /\ sd = "up" /\ late[j] /\ Fails(j, FALSE, 0) /\ UNCHANGED flight
       \/ Fails(j, FALSE, 1) /\ UNCHANGED flight
    /\ UNCHANGED <<late, app, verdict, process>>

(* The launch answers with its call, and row and handle are recorded.      *)
LaunchReturns(j) ==
    /\ sup[j] = "launching" /\ app[j] \in Called
    /\ flight' = [flight EXCEPT ![j] = FALSE]
    /\ \/ /\ Write(j, Handled(job[j]))
          /\ IF Pending(j) THEN GoTo(j, "watch") ELSE GoTo(j, "halt")
          /\ UNCHANGED troubles
       \/ Fails(j, TRUE, 1)
    /\ UNCHANGED <<late, app, verdict, process>>

(* The target stops what it began when a later request of a launch fails.  *)
LaunchUndoes(j) ==
    /\ sup[j] = "launching" /\ app[j] \in Listed \ {"draining"} /\ Spend(1)
    /\ \E to \in {"draining", "stopped"} : app' = [app EXCEPT ![j] = to]
    /\ verdict' = [verdict EXCEPT ![j] = IF @ = "none" THEN "cancelled" ELSE @]
    /\ UNCHANGED <<job, late, flight, sup, process>>

(* It fails; a request whose answer was lost may still arrive.             *)
LaunchFails(j) ==
    /\ sup[j] = "launching"
    /\ flight' \in {flight, [flight EXCEPT ![j] = FALSE]} /\ (late[j] => ~flight'[j])
    /\ Fails(j, FALSE, IF app[j] \in {"draining", "stopped"} THEN 0 ELSE 1)
    /\ UNCHANGED <<late, app, verdict, process>>

-----------------------------------------------------------------------------
(* Resuming: after a restart, a failure, or a cancellation *)

Resumes(j) ==
    /\ sup[j] = "resume"
    /\ \/ ~Active(j) /\ Ends(j) /\ UNCHANGED <<job, troubles>>
       \/ /\ Active(j) /\ Pending(j) /\ late[j]
          /\ Settles(j, "cancelled", FALSE) /\ UNCHANGED troubles
       \/ Active(j) /\ Spend(1) /\ Ends(j) /\ UNCHANGED job
       \/ /\ Active(j) /\ ~Pending(j) /\ Cleans(j, FALSE)
          /\ UNCHANGED <<job, troubles>>
       \/ /\ Active(j) /\ Pending(j) /\ ~late[j]
          /\ GoTo(j, IF job[j].ids # "none" THEN "inspect" ELSE "discover")
          /\ UNCHANGED <<job, troubles>>
    /\ UNCHANGED <<late, provider, process>>

(* The recorded call is there, or it is not the one recorded, or unknown.  *)
Inspects(j) ==
    /\ sup[j] = "inspect"
    /\ \/ Write(j, Recovered(job[j])) /\ GoTo(j, "watch") /\ UNCHANGED troubles
       \/ Fails(j, TRUE, 1)
       \/ Spend(1) /\ GoTo(j, "nap") /\ UNCHANGED job
    /\ UNCHANGED <<late, provider, process>>

(* What _resume_job makes of the App it found: Modal's listing never names *)
(* the call, so an App with a task is stopped, and one without is given    *)
(* until the deadline, for its launch may be in flight.                    *)
Adopts(j) ==
    \/ /\ job[j].started /\ app[j] # "busy" /\ ~late[j]
       /\ GoTo(j, "nap") /\ UNCHANGED <<job, troubles>>
    \/ (~job[j].started \/ app[j] \in {"busy", "draining"} \/ late[j]) /\ Fails(j, TRUE, 0)

Discovers(j) ==
    /\ sup[j] \in {"discover", "discover2"}
    /\ \/ app[j] \in Listed /\ Adopts(j)
       \/ LooksAgain(j, "discover", "discover2")
       \/ /\ IsMissing(j, "discover2")
          /\ IF job[j].started /\ ~late[j]
               THEN GoTo(j, "nap") /\ UNCHANGED <<job, troubles>>
               ELSE Fails(j, FALSE, 0)
       \/ Spend(1) /\ GoTo(j, "nap") /\ UNCHANGED job
    /\ UNCHANGED <<late, provider, process>>

(* The pause before the done callback reschedules.                         *)
Naps(j) ==
    /\ sup[j] = "nap" /\ Ends(j)
    /\ UNCHANGED <<job, late, provider, process, troubles>>

(* Mutant: a task that has ended is not replaced. *)
NotRescheduled(j) ==
    /\ sup[j] = "ended" /\ GoTo(j, "none")
    /\ UNCHANGED <<job, late, provider, process, troubles>>

(* _reschedule_if_active; a task of another kind may be under the key.     *)
Reschedules(j) ==
    /\ sup[j] = "ended"
    /\ GoTo(j, IF Active(j) /\ sd = "up" /\ ~orphan[j] THEN "resume" ELSE "none")
    /\ UNCHANGED <<job, late, provider, process, troubles>>

-----------------------------------------------------------------------------
(* Monitoring *)

(* The top of _monitor's loop.                                             *)
Watches(j) ==
    /\ sup[j] = "watch"
    /\ \/ sd # "up" /\ Ends(j) /\ UNCHANGED <<job, troubles>>
       \/ sd = "up" /\ ~Pending(j) /\ GoTo(j, "halt") /\ UNCHANGED <<job, troubles>>
       \/ /\ sd = "up" /\ Pending(j) /\ late[j]
          /\ Settles(j, "cancelled", TRUE) /\ UNCHANGED troubles
       \/ /\ sd = "up" /\ Pending(j) /\ ~late[j] /\ GoTo(j, "poll")
          /\ UNCHANGED <<job, troubles>>
       \/ sd = "up" /\ Breaks(j, TRUE)
    /\ UNCHANGED <<late, provider, process>>

(* Mutant: what the provider calls a success is one. *)
PollsOnly(j) ==
    /\ sup[j] = "poll" /\ app[j] \notin {"queued", "busy"}
    /\ Settles(j, verdict[j], TRUE)
    /\ UNCHANGED <<late, provider, process, troubles>>

(* A page of events is taken in; a call that has ended settles the job,    *)
(* but one that succeeded has its model verified first.                    *)
Polls(j) ==
    /\ sup[j] = "poll"
    /\ \/ GoTo(j, "watch") /\ UNCHANGED <<job, troubles>>
       \/ verdict[j] = "succeeded" /\ GoTo(j, "verify") /\ UNCHANGED <<job, troubles>>
       \/ /\ verdict[j] \in {"failed", "cancelled"}
          /\ \/ Settles(j, verdict[j], TRUE) /\ UNCHANGED troubles
             \/ Breaks(j, TRUE)
       \/ Fails(j, TRUE, 1)
    /\ UNCHANGED <<late, provider, process>>

(* _verify_and_persist_result, then the choice of the outcome.             *)
Verifies(j) ==
    /\ sup[j] = "verify"
    /\ LET kept == [job[j] EXCEPT !.output = TRUE] IN
       \/ Write(j, Chosen(kept, "succeeded")) /\ GoTo(j, "halt") /\ UNCHANGED troubles
       \/ Spend(1) /\ Write(j, Chosen(kept, "failed")) /\ GoTo(j, "halt")
       \/ Spend(1) /\ Write(j, kept) /\ Ends(j)
       \/ Spend(1) /\ GoTo(j, "watch") /\ UNCHANGED job
       \/ Fails(j, TRUE, 1)
    /\ UNCHANGED <<late, provider, process>>

-----------------------------------------------------------------------------
(* Cleaning up *)

(* _mark_terminal *)
Finishes(j) ==
    /\ Write(j, [job[j] EXCEPT !.status = CASE job[j].outcome = "failed" -> "failed"
                                            [] job[j].outcome = "cancelled" -> "cancelled"
                                            [] OTHER -> "completed"])
    /\ Ends(j)

(* Mutant: what a listing misses is gone, in flight or not. *)
SeeksBriefly(j) ==
    /\ sup[j] \in {"seek", "seek2"} /\ app[j] \notin Listed
    /\ Finishes(j)
    /\ UNCHANGED <<late, provider, process, troubles>>

(* The pause of the cleanup's loop; a shutdown leaves it.                  *)
Waits(j, stage) == IF sd = "up" THEN GoTo(j, stage) ELSE Ends(j)

(* Without a handle the App is looked for.  If nothing is found, a launch once begun has until the deadline to show.   *)
Seeks(j) ==
    /\ sup[j] \in {"seek", "seek2"}
    /\ \/ /\ app[j] \in Listed /\ GoTo(j, "halt")
          /\ Write(j, Recovered(job[j])) /\ UNCHANGED troubles
       \/ LooksAgain(j, "seek", "seek2")
       \/ /\ IsMissing(j, "seek2")
          /\ IF job[j].started /\ ~late[j] THEN Waits(j, "seek") /\ UNCHANGED job
                                           ELSE Finishes(j)
          /\ UNCHANGED troubles
       \/ Spend(1) /\ (GoTo(j, "seek") \/ Ends(j)) /\ UNCHANGED job
    /\ UNCHANGED <<late, provider, process>>

(* Cancel and stop; both may fail, and either may have worked all the same.*)
Halts(j) ==
    /\ sup[j] = "halt"
    /\ \/ /\ app[j] = "stopped" /\ GoTo(j, "check")
          /\ UNCHANGED <<app, verdict, troubles>>
       \/ \E to \in {"draining", "stopped"} :
              /\ app[j] # "stopped" /\ app' = [app EXCEPT ![j] = to]
              /\ verdict' = [verdict EXCEPT ![j] = IF @ = "none" THEN "cancelled" ELSE @]
              /\ GoTo(j, "check") /\ UNCHANGED troubles
       \/ Spend(1) /\ (GoTo(j, "check") \/ Ends(j)) /\ UNCHANGED <<app, verdict>>
    /\ UNCHANGED <<job, late, flight, process>>

(* Only an App inspected as stopped, no task left, ends the job.           *)
Checks(j) ==
    /\ sup[j] = "check"
    /\ \/ app[j] = "stopped" /\ Finishes(j) /\ UNCHANGED troubles
       \/ app[j] # "stopped" /\ Waits(j, "halt") /\ UNCHANGED <<job, troubles>>
       \/ Spend(1) /\ (Waits(j, "halt") \/ Ends(j)) /\ UNCHANGED job
    /\ UNCHANGED <<late, provider, process>>

(* The outcome could not be recorded: one exact stop, unrecorded.          *)
Emergency(j) ==
    /\ sup[j] = "emergency" /\ Ends(j)
    /\ \/ UNCHANGED <<app, verdict>>
       \/ \E to \in {"draining", "stopped"} :
              /\ app[j] \in Listed /\ app' = [app EXCEPT ![j] = to]
              /\ verdict' = [verdict EXCEPT ![j] = IF @ = "none" THEN "cancelled" ELSE @]
    /\ UNCHANGED <<job, late, flight, process, troubles>>

-----------------------------------------------------------------------------
(* Reconciliation *)

ActiveJobs == {j \in Jobs : Active(j)}

(* The active rows are read, and the provider is asked what it runs.       *)
PassBegins ==
    /\ recon \in {"boot", "retry"} /\ sd = "up"
    /\ \/ /\ recon' = IF recon = "boot" THEN "first" ELSE "pass"
          /\ known' = ActiveJobs /\ UNCHANGED troubles
       \/ Spend(1) /\ recon' = "retry" /\ UNCHANGED known
    /\ UNCHANGED <<job, late, provider, sup, orphan, sd>>

(* Of the Apps listed, those of no row the pass knows are orphans.         *)
Strangers ==
    {j \in Jobs \ known : app[j] \in Listed}

Idle(j) == sup[j] \in {"none", "ended"} /\ ~orphan[j]

PassEnds ==
    /\ recon \in {"first", "pass"} /\ sd = "up"
    /\ \/ /\ recon' = "done" /\ UNCHANGED troubles
          /\ orphan' = [j \in Jobs |-> orphan[j] \/ (j \in Strangers /\ Idle(j))]
       \/ Spend(1) /\ recon' = "retry" /\ UNCHANGED orphan
    /\ sup' = [j \in Jobs |-> IF j \in known /\ Idle(j) THEN "resume" ELSE sup[j]]
    /\ known' = {}
    /\ UNCHANGED <<job, late, provider, sd>>

(* _cleanup_orphan: stop and inspect, again and again.                     *)
OrphanStep(j) ==
    /\ orphan[j]
    /\ \/ \E to \in {"draining", "stopped"} :
              /\ app[j] # "stopped" /\ app' = [app EXCEPT ![j] = to]
              /\ verdict' = [verdict EXCEPT ![j] = IF @ = "none" THEN "cancelled" ELSE @]
              /\ UNCHANGED orphan
       \/ /\ app[j] = "stopped" \/ sd # "up"
          /\ orphan' = [orphan EXCEPT ![j] = FALSE] /\ UNCHANGED <<app, verdict>>
    /\ UNCHANGED <<job, late, flight, sup, recon, known, sd, troubles>>

-----------------------------------------------------------------------------
(* Shutdown, and the next process *)

(* The tasks are waited for, not cancelled.                                *)
BeginShutdown ==
    /\ sd = "up" /\ recon \notin {"boot", "first"}
    /\ sd' = "closing" /\ recon' = "done" /\ known' = {}
    /\ UNCHANGED <<job, late, provider, sup, orphan, troubles>>

Quiet == \A j \in Jobs : sup[j] = "none" /\ ~orphan[j]

(* Mutant: whatever is active is cleaned up before the process goes. *)
ShutdownTakesAll ==
    /\ sd = "closing" /\ Quiet /\ sd' = "sweeping"
    /\ sup' = [j \in Jobs |-> IF Active(j) THEN "halt" ELSE sup[j]]
    /\ UNCHANGED <<job, late, provider, orphan, recon, known, troubles>>

(* Jobs whose outcome is chosen get one more pass of their cleanup.        *)
ShutdownSweeps ==
    /\ sd = "closing" /\ Quiet /\ sd' = "sweeping"
    /\ \/ /\ sup' = [j \in Jobs |-> IF Active(j) /\ ~Pending(j) THEN "resume" ELSE sup[j]]
          /\ UNCHANGED troubles
       \/ Spend(1) /\ UNCHANGED sup
    /\ UNCHANGED <<job, late, provider, orphan, recon, known>>

ShutdownEnds ==
    /\ sd = "sweeping" /\ Quiet /\ sd' = "down"
    /\ UNCHANGED <<job, late, provider, sup, orphan, recon, known, troubles>>

(* A crash at any point, or the start that follows a shutdown.  Requests   *)
(* still on their way to the provider are lost or land before the deadline.*)
Restart ==
    /\ Spend(1)
    /\ sup' = [j \in Jobs |-> "none"] /\ orphan' = [j \in Jobs |-> FALSE]
    /\ recon' = "boot" /\ known' = {} /\ sd' = "up"
    /\ flight' = [j \in Jobs |-> flight[j] /\ ~late[j]]
    /\ UNCHANGED <<job, late, app, verdict>>

-----------------------------------------------------------------------------
(* The provider and the clock *)

(* The next request of a launch arrives: the deployment, then the call.    *)
Lands(j) ==
    /\ flight[j] /\ app[j] \in {"absent", "bare"}
    /\ app' = [app EXCEPT ![j] = IF @ = "absent" THEN "bare" ELSE "queued"]
    /\ flight' = [flight EXCEPT ![j] = (sup[j] = "launching")]
    /\ UNCHANGED <<job, late, verdict, sup, process, troubles>>

(* What was on its way when its process ended or gave up has been lost.    *)
IsLost(j) ==
    /\ flight[j] /\ sup[j] # "launching"
    /\ flight' = [flight EXCEPT ![j] = FALSE]
    /\ UNCHANGED <<job, late, app, verdict, sup, process, troubles>>

CallRuns(j) ==
    /\ app[j] = "queued" /\ app' = [app EXCEPT ![j] = "busy"]
    /\ UNCHANGED <<job, late, flight, verdict, sup, process, troubles>>

CallEnds(j) ==
    /\ app[j] = "busy" /\ app' = [app EXCEPT ![j] = "over"]
    /\ \E how \in {"succeeded", "failed", "cancelled"} :
           verdict' = [verdict EXCEPT ![j] = how]
    /\ UNCHANGED <<job, late, flight, sup, process, troubles>>

Drains(j) ==
    /\ app[j] = "draining" /\ app' = [app EXCEPT ![j] = "stopped"]
    /\ UNCHANGED <<job, late, flight, verdict, sup, process, troubles>>

(* Timeouts are a minute at least; a lost launch has landed by then.       *)
Deadline(j) ==
    /\ Active(j) /\ ~late[j] /\ (flight[j] => sup[j] = "launching")
    /\ late' = [late EXCEPT ![j] = TRUE]
    /\ UNCHANGED <<job, provider, sup, process, troubles>>

-----------------------------------------------------------------------------
Supervises(j) ==
    \/ LaunchBegins(j) \/ Prepares(j) \/ LaunchReturns(j) \/ LaunchFails(j)
    \/ Resumes(j) \/ Inspects(j) \/ Discovers(j) \/ Naps(j) \/ Reschedules(j)
    \/ Watches(j) \/ Polls(j) \/ Verifies(j)
    \/ Seeks(j) \/ Halts(j) \/ Checks(j) \/ Emergency(j)

Reconciles == PassBegins \/ PassEnds

ShutsDown == ShutdownSweeps \/ ShutdownEnds

Next ==
    \/ \E j \in Jobs :
          \/ Create(j) \/ Cancel(j) \/ Supervises(j) \/ OrphanStep(j)
          \/ LaunchUndoes(j) \/ Lands(j) \/ IsLost(j)
          \/ CallRuns(j) \/ CallEnds(j) \/ Drains(j) \/ Deadline(j)
    \/ Reconciles \/ BeginShutdown \/ ShutsDown \/ Restart

Spec == Init /\ [][Next]_vars

(* Tasks run, the provider does what it accepted, and deadlines come.      *)
Fairness ==
    /\ \A j \in Jobs :
          /\ WF_vars(Supervises(j)) /\ WF_vars(OrphanStep(j))
          /\ WF_vars(Lands(j) \/ IsLost(j)) /\ WF_vars(Drains(j))
          /\ WF_vars(Deadline(j))
    /\ WF_vars(Reconciles) /\ WF_vars(ShutsDown)

FairSpec == Spec /\ Fairness

-----------------------------------------------------------------------------
Phase(j) == CASE job[j].status = "none" -> "none"
              [] job[j].status \in Terminal -> "closed"
              [] OTHER -> IF Pending(j) THEN "open" ELSE "settled"

Compute(j) == CASE app[j] = "absent" -> "none"
                [] app[j] = "stopped" -> "gone"
                [] OTHER -> "live"

Job == INSTANCE TrainingJob WITH
    phase <- [j \in Jobs |-> Phase(j)],
    result <- [j \in Jobs |-> job[j].outcome],
    compute <- [j \in Jobs |-> Compute(j)]

(* Through crashes, lost answers, cancellations and retries a job is what  *)
(* TrainingJob says: terminal only after its App has stopped and while no  *)
(* launch of it can still arrive, its outcome chosen once, one job open.   *)
ImplementsJob == Job!Spec

(* A success always has its output revision verified and recorded, though  *)
(* the two are written by different transactions; and no path, resumption  *)
(* and adoption included, calls a job running whose call it cannot name.   *)
RowIsTrue ==
    \A j \in Jobs :
        /\ job[j].outcome = "succeeded" => job[j].output
        /\ job[j].status = "running" => job[j].ids = "call"

Healthy(j) ==
    /\ job[j].status = "running" /\ Pending(j) /\ ~late[j]
    /\ app[j] \in {"queued", "busy"} /\ sup[j] # "emergency" /\ ~orphan[j]

(* A shutdown neither stops nor settles a job that runs: only its own end, *)
(* its deadline or a failure does.                                         *)
ShutdownKeepsJobs ==
    [][\A j \in Jobs :
         Healthy(j) /\ sd # "up" /\ UNCHANGED troubles
             => app'[j] \in Called /\ job'[j].outcome = "pending"]_vars

(* An active job comes to its end, by its deadline at the latest and       *)
(* whatever failed, unless its process goes first: it keeps a supervisor.  *)
(* The job that a late listing makes an orphan cleanup is excepted.        *)
JobEnds ==
    [](\A j \in Jobs : orphan[j] => ~Active(j))
        => \A j \in Jobs : Active(j) ~> (~Active(j) \/ sd # "up")
=============================================================================
