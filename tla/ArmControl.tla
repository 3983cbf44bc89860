----------------------------- MODULE ArmControl -----------------------------
(***************************************************************************)
(* The control modes that share the rig: teleoperation of leader/follower  *)
(* pairs (RecordingManager, recording.py), policy inference loops          *)
(* (RobotInferenceLoop, robot_inference.py, whose data path is the module  *)
(* RobotInference), manual jogs (api/arms.py) and hardware setup           *)
(* (yam_setup.py).  A step is the code between two awaits, or, for the     *)
(* threads that serve jogs and setup, one locked section.                  *)
(*                                                                         *)
(* RecordingManager._lock never appears: no section under it contains an   *)
(* await, so it is never found locked.  A cancelled task does nothing more,*)
(* but whoever cancelled it waits for it and others run meanwhile.         *)
(***************************************************************************)
EXTENDS RigLease

CONSTANTS
    Recordings,        \* teleoperated recordings
    Loops,             \* inference loops, each used once
    Leader, Follower,  \* the pair of each recording
    LoopArm,           \* the arm of each loop
    Nonces,            \* token nonces a recording can tell apart
    SetupScopes        \* resource sets of the setup operations

ASSUME PairsAssumption ==
    /\ Leader \in [Recordings -> Arms] /\ Follower \in [Recordings -> Arms]
    /\ LoopArm \in [Loops -> Arms]
    /\ \A r \in Recordings : Leader[r] # Follower[r]
(* Identifiers are of different kinds: "jog:<arm>", a recording's and a     *)
(* session's UUID.                                                         *)
ASSUME ModesAssumption ==
    /\ Recordings \cap Loops = {} /\ Recordings \cap Arms = {} /\ Loops \cap Arms = {}
    /\ "setup" \notin Recordings \cup Loops
ASSUME ScopesAssumption ==
    /\ Wildcard \notin Arms
    /\ SetupScopes \subseteq SUBSET (Arms \cup {Wildcard})
    /\ {} \notin SetupScopes

VARIABLES
    teleop,        \* the teleoperation task of each recording
    sync,          \* its pair synchronization: "on" once it has converged
    rigToken,      \* _RecordingRuntime.rig_token, {} for None
    pending,       \* releases of a recording that wait for a cancelled task
    idling,        \* recordings whose disable_sync waits for the sync task
    uncertain,     \* tokens a failed release has left with their owner
    shuttingDown,  \* RecordingManager._shutting_down
    loop,          \* where each inference loop stands
    jog,           \* arms a manual jog holds
    setup          \* resources of the setup operation under way, {} for none

teleopVars == <<teleop, sync, rigToken, pending, idling, uncertain, shuttingDown>>
vars == <<rigVars, teleopVars, loop, jog, setup>>

Modes == Recordings \cup Loops \cup Arms \cup {"setup"}

(* "detached": cancelled-to-be, no longer referenced by the runtime, alive *)
TeleopPc == {"off", "run", "detached"}
SyncPc == {"off", "run", "on"}
LoopPc == {"new", "preparing", "aborting", "running", "settling", "done", "blocked"}
Closer == {"stop", "compensate", "shutdown", "failure"}

Pair(r) == {Leader[r], Follower[r]}
TeleopToken(r, n) == LeaseToken("teleop", r, n, Pair(r))
TeleopTokens == {TeleopToken(r, n) : r \in Recordings, n \in Nonces}
LoopToken(i) == LeaseToken("inference", i, i, {LoopArm[i]})
JogToken(a) == LeaseToken("manual", a, a, {a})
SetupToken(S) == LeaseToken("setup", "setup", "setup", S)

Followers == {Follower[r] : r \in Recordings} \cup {LoopArm[i] : i \in Loops}

Init ==
    /\ leases = {}
    /\ stream = [a \in Arms |-> {}]
    /\ latched = {}
    /\ teleop = [r \in Recordings |-> "off"]
    /\ sync = [r \in Recordings |-> "off"]
    /\ rigToken = [r \in Recordings |-> {}]
    /\ pending = [r \in Recordings |-> {}]
    /\ idling = {}
    /\ uncertain = {}
    /\ shuttingDown = FALSE
    /\ loop = [i \in Loops |-> "new"]
    /\ jog = {}
    /\ setup = {}

-----------------------------------------------------------------------------
(* Teleoperation *)

(* A nonce is fresh if nobody can still present it. *)
Referenced(t) ==
    \/ t \in leases \cup uncertain
    \/ \E r \in Recordings : t \in rigToken[r] \/ \E p \in pending[r] : p.token = t

(* start_teleop.  It is observation only: no stream is opened.  A request  *)
(* does not overtake the cancellation of the task it replaces.             *)
StartTeleop(r) ==
    /\ ~shuttingDown
    /\ teleop[r] = "off"
    /\ Pair(r) \cap latched = {}
    /\ \E n \in Nonces :
        /\ ~Referenced(TeleopToken(r, n))
        /\ Acquire(TeleopToken(r, n))
        /\ rigToken' = [rigToken EXCEPT ![r] = {TeleopToken(r, n)}]
    /\ teleop' = [teleop EXCEPT ![r] = "run"]
    /\ sync' = [sync EXCEPT ![r] = "off"]
    /\ UNCHANGED <<stream, latched, pending, idling, uncertain, shuttingDown, loop, jog, setup>>

HoldsPair(r) == \E t \in rigToken[r] : Owns(t, Pair(r))

EnableSync(r) ==
    /\ teleop[r] = "run" /\ sync[r] = "off"
    /\ HoldsPair(r)
    /\ sync' = [sync EXCEPT ![r] = "run"]
    /\ UNCHANGED <<rigVars, teleop, rigToken, pending, idling, uncertain, shuttingDown, loop, jog, setup>>

(* One bounded correction of _sync_pair; after the last the pair is synced.*)
SyncStep(r) ==
    /\ teleop[r] = "run" /\ sync[r] = "run"
    /\ HoldsPair(r)
    /\ Streams(Follower[r], r)
    /\ \E s \in {"run", "on"} : sync' = [sync EXCEPT ![r] = s]
    /\ UNCHANGED <<leases, teleop, rigToken, pending, idling, uncertain, shuttingDown, loop, jog, setup>>

(* Mutant: the loop follows the leader whatever the sync state. *)
TeleopStepAlways(r) ==
    /\ teleop[r] # "off"
    /\ Streams(Follower[r], r)
    /\ UNCHANGED <<leases, teleopVars, loop, jog, setup>>

(* _teleop_loop streams, without looking at the lease, while synced.       *)
TeleopStep(r) ==
    /\ teleop[r] # "off" /\ sync[r] = "on"
    /\ Streams(Follower[r], r)
    /\ UNCHANGED <<leases, teleopVars, loop, jog, setup>>

(* _release_pair_motion and what every caller does with its result: only a *)
(* release of the active token makes the runtime forget it.                *)
ReleasePair(r, t) ==
    \/ /\ ReleaseMotion({Follower[r]}, t)
       /\ rigToken' = [rigToken EXCEPT ![r] = IF t \in leases THEN {} ELSE @]
       /\ uncertain' = uncertain \ {t}
    \/ /\ KeepMotion({Follower[r]})
       /\ uncertain' = uncertain \cup ({t} \cap leases)
       /\ UNCHANGED rigToken

Close(r, by) ==
    pending' = [pending EXCEPT ![r] = @ \cup {[by |-> by, token |-> t] : t \in rigToken[r]}]

(* Mutant: the handler that cancels the sync task never gets to release. *)
TeleopFailsQuietly(r) ==
    /\ teleop[r] # "off"
    /\ teleop' = [teleop EXCEPT ![r] = "off"]
    /\ sync' = [sync EXCEPT ![r] = "off"]
    /\ UNCHANGED <<rigVars, rigToken, pending, idling, uncertain, shuttingDown, loop, jog, setup>>

(* A failure inside _teleop_loop, even of a task that is about to be       *)
(* cancelled: it detaches itself, and waits only for a running sync task.  *)
TeleopFails(r) ==
    /\ teleop[r] # "off"
    /\ teleop' = [teleop EXCEPT ![r] = "off"]
    /\ sync' = [sync EXCEPT ![r] = "off"]
    /\ \/ /\ sync[r] = "run" \/ rigToken[r] = {}
          /\ Close(r, "failure")
          /\ UNCHANGED <<rigVars, rigToken, uncertain>>
       \/ /\ sync[r] # "run"
          /\ \E t \in rigToken[r] : ReleasePair(r, t)
          /\ UNCHANGED pending
    /\ UNCHANGED <<idling, shuttingDown, loop, jog, setup>>

(* A failure inside _sync_pair: it cancels the teleoperation task and      *)
(* waits for it.                                                           *)
SyncFails(r) ==
    /\ sync[r] = "run"
    /\ teleop' = [teleop EXCEPT ![r] = "off"]
    /\ sync' = [sync EXCEPT ![r] = "off"]
    /\ Close(r, "failure")
    /\ UNCHANGED <<rigVars, rigToken, idling, uncertain, shuttingDown, loop, jog, setup>>

(* safe_idle of the follower, confirmed or not, by a caller without lease. *)
TriesIdle(a) == SafeIdle({a}) \/ Unconfirmed({a})

DisableSync(r) ==
    /\ teleop[r] = "run"
    /\ sync' = [sync EXCEPT ![r] = "off"]
    /\ \/ /\ sync[r] = "run"
          /\ idling' = idling \cup {r}
          /\ UNCHANGED rigVars
       \/ /\ sync[r] # "run"
          /\ TriesIdle(Follower[r])
          /\ UNCHANGED <<leases, idling>>
    /\ UNCHANGED <<teleop, rigToken, pending, uncertain, shuttingDown, loop, jog, setup>>

DisableSyncEnds(r) ==
    /\ r \in idling
    /\ idling' = idling \ {r}
    /\ TriesIdle(Follower[r])
    /\ UNCHANGED <<leases, teleop, sync, rigToken, pending, uncertain, shuttingDown, loop, jog, setup>>

(* A sync task is cancelled first and waited for; only then is the         *)
(* teleoperation task cancelled.                                           *)
Detached(r) ==
    CASE teleop[r] = "run" /\ sync[r] = "run" -> "detached"
      [] teleop[r] = "run" /\ sync[r] # "run" -> "off"
      [] OTHER -> teleop[r]

StopTeleop(r) ==
    /\ teleop[r] = "run" /\ rigToken[r] # {}
    /\ teleop' = [teleop EXCEPT ![r] = Detached(r)]
    /\ sync' = [sync EXCEPT ![r] = "off"]
    /\ Close(r, "stop")
    /\ UNCHANGED <<rigVars, rigToken, idling, uncertain, shuttingDown, loop, jog, setup>>

(* compensate_persistence_failure: whatever the state, and at once when    *)
(* there is no task to wait for.                                           *)
Compensate(r) ==
    /\ rigToken[r] # {}
    /\ teleop' = [teleop EXCEPT ![r] = Detached(r)]
    /\ sync' = [sync EXCEPT ![r] = "off"]
    /\ \/ /\ teleop[r] = "run"
          /\ Close(r, "compensate")
          /\ UNCHANGED <<rigVars, rigToken, uncertain>>
       \/ /\ teleop[r] # "run"
          /\ \E t \in rigToken[r] : ReleasePair(r, t)
          /\ UNCHANGED pending
    /\ UNCHANGED <<idling, shuttingDown, loop, jog, setup>>

(* The tasks of all recordings are cancelled one after the other.          *)
Shutdown ==
    /\ ~shuttingDown
    /\ shuttingDown' = TRUE
    /\ teleop' = [r \in Recordings |-> IF teleop[r] = "run" THEN "detached" ELSE teleop[r]]
    /\ sync' = [r \in Recordings |-> "off"]
    /\ pending' = [r \in Recordings |->
                     pending[r] \cup {[by |-> "shutdown", token |-> t] : t \in rigToken[r]}]
    /\ UNCHANGED <<rigVars, rigToken, idling, uncertain, loop, jog, setup>>

(* The cancelled tasks are gone and the token captured before the wait is  *)
(* released, which somebody else may have done meanwhile.                  *)
CloseEnds(r) ==
    /\ \E p \in pending[r] :
        /\ pending' = [pending EXCEPT ![r] = @ \ {p}]
        /\ teleop' = [teleop EXCEPT ![r] = IF @ = "detached" /\ p.by # "failure"
                                           THEN "off" ELSE @]
        /\ ReleasePair(r, p.token)
    /\ UNCHANGED <<sync, idling, shuttingDown, loop, jog, setup>>

-----------------------------------------------------------------------------
(* Inference loops *)

LoopGoes(i, from, to) == loop[i] = from /\ loop' = [loop EXCEPT ![i] = to]

LoopStart(i) ==
    /\ LoopGoes(i, "new", "preparing")
    /\ LoopArm[i] \notin latched
    /\ Acquire(LoopToken(i))
    /\ UNCHANGED <<stream, latched, teleopVars, jog, setup>>

(* describe, health and the start hook, any of which may fail; then the    *)
(* transport is closed and the lease, no command sent, simply released.    *)
LoopReady(i) ==
    /\ LoopGoes(i, "preparing", "running") \/ LoopGoes(i, "preparing", "aborting")
    /\ UNCHANGED <<rigVars, teleopVars, jog, setup>>

LoopAborts(i) ==
    /\ LoopGoes(i, "aborting", "done")
    /\ Release(LoopToken(i))
    /\ UNCHANGED <<stream, latched, teleopVars, jog, setup>>

LoopApplies(i) ==
    /\ loop[i] = "running"
    /\ Streams(LoopArm[i], i)
    /\ UNCHANGED <<leases, teleopVars, loop, jog, setup>>

(* The stop event, an error, the step limit or a cancellation: the request *)
(* in flight settles and the transport closes before the release.          *)
LoopStops(i) ==
    /\ LoopGoes(i, "running", "settling")
    /\ UNCHANGED <<rigVars, teleopVars, jog, setup>>

LoopReleases(i) ==
    /\ \/ LoopGoes(i, "settling", "done") /\ ReleaseMotion({LoopArm[i]}, LoopToken(i))
       \/ LoopGoes(i, "settling", "blocked") /\ KeepMotion({LoopArm[i]})
    /\ UNCHANGED <<teleopVars, jog, setup>>

-----------------------------------------------------------------------------
(* Jogs and setup, each in a thread of its own *)

JogStart(a) ==
    /\ a \notin jog
    /\ Acquire(JogToken(a))
    /\ jog' = jog \cup {a}
    /\ UNCHANGED <<stream, latched, teleopVars, loop, setup>>

(* driver.jog has made one bounded move, or refused: it opens no stream.   *)
JogEnds(a) ==
    /\ a \in jog
    /\ jog' = jog \ {a}
    /\ Release(JogToken(a))
    /\ UNCHANGED <<stream, latched, teleopVars, loop, setup>>

SetupStart(S) ==
    /\ setup = {}
    /\ Acquire(SetupToken(S))
    /\ setup' = S
    /\ UNCHANGED <<stream, latched, teleopVars, loop, jog>>

(* Connecting or resetting arms clears their latch, a failure sets it.     *)
SetupEnds ==
    /\ setup # {}
    /\ \E S \in SUBSET Controls(SetupToken(setup)) :
        latched' = (latched \ Controls(SetupToken(setup))) \cup S
    /\ Revoke(Controls(SetupToken(setup)))
    /\ Release(SetupToken(setup))
    /\ setup' = {}
    /\ UNCHANGED <<teleopVars, loop, jog>>

(* The driver's idle timer closes a stream that was not refreshed in time. *)
IdleTimer(a) ==
    /\ stream[a] # {}
    /\ SafeIdle({a}) \/ LatchFault({a})
    /\ UNCHANGED <<leases, teleopVars, loop, jog, setup>>

(* The driver latches an arm on its own: a lost worker, a command stream   *)
(* gone stale, a rejected command.                                         *)
DriverFaults(a) ==
    /\ a \notin latched
    /\ LatchFault({a})
    /\ UNCHANGED <<leases, teleopVars, loop, jog, setup>>

-----------------------------------------------------------------------------
TeleopNext(r) ==
    \/ StartTeleop(r) \/ EnableSync(r) \/ SyncStep(r) \/ TeleopStep(r)
    \/ TeleopFails(r) \/ SyncFails(r) \/ DisableSync(r) \/ DisableSyncEnds(r)
    \/ StopTeleop(r) \/ Compensate(r) \/ CloseEnds(r)

LoopNext(i) ==
    \/ LoopStart(i) \/ LoopReady(i) \/ LoopAborts(i)
    \/ LoopApplies(i) \/ LoopStops(i) \/ LoopReleases(i)

Next ==
    \/ \E r \in Recordings : TeleopNext(r)
    \/ Shutdown
    \/ \E i \in Loops : LoopNext(i)
    \/ \E a \in Followers : JogStart(a) \/ JogEnds(a) \/ IdleTimer(a) \/ DriverFaults(a)
    \/ \E S \in SetupScopes : SetupStart(S)
    \/ SetupEnds

Spec == Init /\ [][Next]_vars

(* Coroutines that wait for a cancelled task, a transport call (each has a *)
(* timeout of its own) or a driver call are resumed, threads finish their  *)
(* requests.  Nobody has to start, stop or fail.                           *)
Fairness ==
    /\ \A r \in Recordings : WF_vars(CloseEnds(r)) /\ WF_vars(DisableSyncEnds(r))
    /\ \A i \in Loops : WF_vars(LoopReady(i)) /\ WF_vars(LoopAborts(i)) /\ WF_vars(LoopReleases(i))
    /\ \A a \in Followers : WF_vars(JogEnds(a))
    /\ WF_vars(SetupEnds)

FairSpec == Spec /\ Fairness

-----------------------------------------------------------------------------
TypeOK ==
    /\ leases \subseteq TeleopTokens \cup {LoopToken(i) : i \in Loops}
                        \cup {JogToken(a) : a \in Arms} \cup {SetupToken(S) : S \in SetupScopes}
    /\ stream \in [Arms -> SUBSET (Recordings \cup Loops)]
    /\ latched \subseteq Arms
    /\ teleop \in [Recordings -> TeleopPc]
    /\ sync \in [Recordings -> SyncPc]
    /\ rigToken \in [Recordings -> SUBSET TeleopTokens]
    /\ pending \in [Recordings -> SUBSET [by : Closer, token : TeleopTokens]]
    /\ idling \subseteq Recordings
    /\ uncertain \subseteq TeleopTokens
    /\ shuttingDown \in BOOLEAN
    /\ loop \in [Loops -> LoopPc]
    /\ jog \subseteq Arms
    /\ setup \in SetupScopes \cup {{}}

(* No two active tokens ever control the same arm, whatever mix of pairs,  *)
(* single arms and the wildcard they were acquired for.                    *)
OneOwnerPerArm ==
    \A t, u \in leases : t # u => Controls(t) \cap Controls(u) = {}

(* Whoever an arm follows still holds the lease on it: no task, handler or *)
(* late release leaves a position stream running past the lease.           *)
StreamIsOwned ==
    \A a \in Arms : \A who \in stream[a] : \E t \in leases : t.id = who /\ a \in Controls(t)

(* A jog moves, and setup works on, only arms that follow no stream.       *)
HandsOffStreams ==
    \A a \in Arms :
        a \in jog \/ (setup # {} /\ a \in Controls(SetupToken(setup))) => stream[a] = {}

(* A teleoperation lease is never lost: its runtime still knows the token, *)
(* and its task runs, or a release is under way, or one has failed and the *)
(* pair stays blocked until somebody tries again.                          *)
NoLeaseForgotten ==
    \A r \in Recordings : \A t \in leases :
        t.id = r =>
            /\ rigToken[r] = {t}
            /\ \/ teleop[r] = "run" \/ t \in uncertain
               \/ \E p \in pending[r] : p.token = t

(* Arm by arm, this is the promised ownership.                             *)
Ownership == INSTANCE ArmOwnership WITH
                owner <- [a \in Arms |-> {t.id : t \in {u \in leases : a \in Controls(u)}}],
                follows <- stream

ImplementsOwnership == Ownership!Spec

(* Once nothing runs under a lease it comes back, or is known to be kept.  *)
LeaseComesBack ==
    /\ \A r \in Recordings :
        (teleop[r] # "run" /\ rigToken[r] # {}) ~> (rigToken[r] \subseteq uncertain \/ teleop[r] = "run")
    /\ \A i \in Loops :
        (loop[i] \in {"aborting", "settling"}) ~> (LoopToken(i) \notin leases \/ loop[i] = "blocked")
=============================================================================
