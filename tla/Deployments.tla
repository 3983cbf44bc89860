---------------------------- MODULE Deployments ----------------------------
(***************************************************************************)
(* The durable deployment lifecycle of DeploymentService (deployments.py): *)
(* one PostgreSQL row per deployment, one provider app it may own, the     *)
(* coroutine that deploys it and the coroutines that stop it.  A step is   *)
(* the code between two awaits; whatever the database or the provider does *)
(* wrong costs one unit of the fault budget.  The sweeps that              *)
(* InferenceSessionManager runs at startup, from its watchdog and at       *)
(* shutdown are the ones that request stops nobody clicked.                *)
(***************************************************************************)
EXTENDS Naturals

CONSTANTS
    Deployments,   \* deployment ids
    MaxFaults,     \* bound on storage, provider and timeout faults
    MaxRestarts    \* bound on process restarts

ASSUME BoundsAssumption == MaxFaults \in Nat /\ MaxRestarts \in Nat

VARIABLES
    row,        \* Deployment.status, which InferenceEndpoint.status always equals
    ended,      \* Deployment.stopped_at is set
    appId,      \* endpoint.provider_app_id has been persisted
    app,        \* the provider's own view of the app
    op,         \* where the _deploy coroutine stands
    held,       \* _deploy holds a provider handle in a local variable
    stopPc,     \* where each _stop coroutine stands
    rowLock,    \* the _stop whose open transaction holds the row FOR UPDATE
    frozen,     \* the event loop itself is waiting for a row lock
    old,        \* the row was created before this process started
    closing,    \* lifespan shutdown has begun
    faults,
    restarts

processVars == <<old, closing, frozen, restarts>>
vars == <<row, ended, appId, app, op, held, stopPc, rowLock, faults, processVars>>

(* "stop" is the slot _active_stops reserves for stop(); "undo" is the     *)
(* _stop that a cancelled deploy request runs on its own account.          *)
Slots == {"stop", "undo"}

RowStatus == {"absent", "created", "deploying", "running", "stopping", "stopped", "failed"}
AppState == {"absent", "running", "draining", "stopped"}
OpPc == {"none", "creating", "persist", "health", "inspect", "confirm",
         "recover", "compensate", "retract", "markFailed"}
StopPc == {"idle", "load", "sweepLoad", "resolve", "absence", "absent",
           "halt", "verify", "finish", "fail", "ok", "error"}

(* Rows the sweeps and the watchdog select. *)
CleanupStatuses == {"deploying", "running", "stopping", "failed"}

Gone(d) == app[d] \in {"absent", "stopped"}

(* Whether list_owned shows the app: the stub lists a stopped one, Modal    *)
(* does not.                                                               *)
Sightings(d) ==
    IF app[d] = "absent" THEN {FALSE} ELSE IF Gone(d) THEN BOOLEAN ELSE {TRUE}

Fault == faults < MaxFaults /\ faults' = faults + 1
Fine == faults' = faults

(* A row lock is taken by a synchronous SELECT ... FOR UPDATE and lives     *)
(* until that session commits, rolls back or closes.                       *)
Lockable(d, who) == rowLock[d] \in {"free", who}
Keeps(d, who) == rowLock' = [rowLock EXCEPT ![d] = who]
Releases(d, who) == rowLock' = [rowLock EXCEPT ![d] = IF @ = who THEN "free" ELSE @]

(* One commit of the row, with the identity of its app when the            *)
(* transaction has it: it is written, or it fails and has been written or  *)
(* not; so it has when the read that follows a commit fails.  Only         *)
(* "stopped" and "running" write stopped_at, with a time and with none.    *)
Commits(d, status) ==
    /\ row' = [row EXCEPT ![d] = status]
    /\ ended' = [ended EXCEPT ![d] = status = "stopped" \/ (@ /\ status # "running")]
Identifies(d, known) == appId' = [appId EXCEPT ![d] = @ \/ known]
CommitFails(d, status, known) ==
    /\ Fault
    /\ \/ UNCHANGED <<row, ended, appId>>
       \/ Commits(d, status) /\ Identifies(d, known)

Init ==
    /\ row = [d \in Deployments |-> "absent"]
    /\ ended = [d \in Deployments |-> FALSE]
    /\ appId = [d \in Deployments |-> FALSE]
    /\ app = [d \in Deployments |-> "absent"]
    /\ op = [d \in Deployments |-> "none"]
    /\ held = [d \in Deployments |-> FALSE]
    /\ stopPc = [d \in Deployments |-> [s \in Slots |-> "idle"]]
    /\ rowLock = [d \in Deployments |-> "free"]
    /\ frozen = FALSE
    /\ old = [d \in Deployments |-> FALSE]
    /\ closing = FALSE
    /\ faults = 0
    /\ restarts = 0

-----------------------------------------------------------------------------
(* _deploy *)

(* Both rows are inserted and the status moves on to "deploying" with no   *)
(* await between the two commits; when one of them fails the request ends, *)
(* with the row where the last commit that was applied has left it.        *)
DeployBegin(d) ==
    /\ ~closing
    /\ row[d] = "absent"
    /\ \/ /\ Fine /\ Commits(d, "deploying")
          /\ op' = [op EXCEPT ![d] = "creating"]
       \/ /\ Fault /\ \E status \in {"created", "deploying"} : Commits(d, status)
          /\ UNCHANGED op
    /\ UNCHANGED <<appId, app, held, stopPc, rowLock, processVars>>

(* target.deploy in its thread: it returns a handle, fails before the app  *)
(* exists, or fails after creating it and trying to take it down again.    *)
TargetDeploy(d) ==
    /\ op[d] = "creating"
    /\ \/ /\ Fine
          /\ app' = [app EXCEPT ![d] = "running"]
          /\ op' = [op EXCEPT ![d] = "persist"]
          /\ held' = [held EXCEPT ![d] = TRUE]
       \/ /\ Fault
          /\ \E a \in AppState : app' = [app EXCEPT ![d] = a]
          /\ op' = [op EXCEPT ![d] = "recover"]
          /\ UNCHANGED held
    /\ UNCHANGED <<row, ended, appId, stopPc, rowLock, processVars>>

(* _persist_handle.  A failed commit is rolled back and compensated; after *)
(* a failed read the session of the request can do nothing any more but    *)
(* the app is taken back all the same ("retract").                         *)
PersistHandle(d) ==
    /\ op[d] = "persist"
    /\ Lockable(d, "deploy")
    /\ \/ /\ row[d] = "deploying" /\ Fine
          /\ Identifies(d, TRUE)
          /\ op' = [op EXCEPT ![d] = "health"]
       \/ /\ row[d] # "deploying" /\ Fine
          /\ op' = [op EXCEPT ![d] = "compensate"]
          /\ UNCHANGED appId
       \/ /\ Fault
          /\ \/ op' = [op EXCEPT ![d] = "compensate"] /\ appId' \in {appId, [appId EXCEPT ![d] = TRUE]}
             \/ op' = [op EXCEPT ![d] = "retract"] /\ UNCHANGED appId
    /\ UNCHANGED <<row, ended, app, held, stopPc, rowLock, processVars>>

(* What answers a health check or an inspection: a running app.            *)
Answers(d) == app[d] = "running"

(* The nonce health check, then one inspection.                            *)
Probe(d, here, next) ==
    /\ op[d] = here
    /\ \/ /\ Answers(d)
          /\ Fine
          /\ op' = [op EXCEPT ![d] = next]
       \/ /\ \/ ~Answers(d) /\ Fine
             \/ Answers(d) /\ Fault
          /\ op' = [op EXCEPT ![d] = "compensate"]
    /\ UNCHANGED <<row, ended, appId, app, held, stopPc, rowLock, processVars>>

HealthCheck(d) == Probe(d, "health", "inspect")
InspectRunning(d) == Probe(d, "inspect", "confirm")

(* The request may have been cancelled meanwhile: deploy() lets _deploy    *)
(* finish and then stops what it made.                                     *)
MaybeUndo(d) == stopPc' \in {stopPc, [stopPc EXCEPT ![d]["undo"] = "load"]}

(* _set_running, and the read of what the request returns.  When the       *)
(* commit fails the row may say "running" all the same, and it does when   *)
(* only the read fails: from there on a Stop or the watchdog may move it   *)
(* while _deploy takes the app back.                                       *)
SetRunning(d) ==
    /\ op[d] = "confirm"
    /\ Lockable(d, "deploy")
    /\ \/ /\ row[d] \in {"deploying", "running"} /\ Fine
          /\ Commits(d, "running") /\ Identifies(d, TRUE)
          /\ op' = [op EXCEPT ![d] = "none"]
          /\ held' = [held EXCEPT ![d] = FALSE]
          /\ MaybeUndo(d)
       \/ /\ row[d] \notin {"deploying", "running"} /\ Fine
          /\ op' = [op EXCEPT ![d] = "compensate"]
          /\ UNCHANGED <<row, ended, appId, held, stopPc>>
       \/ /\ row[d] \in {"deploying", "running"} /\ CommitFails(d, "running", TRUE)
          /\ op' \in {[op EXCEPT ![d] = "compensate"], [op EXCEPT ![d] = "retract"]}
          /\ UNCHANGED <<held, stopPc>>
    /\ UNCHANGED <<app, rowLock, processVars>>

(* _recover_created_handle: one look at list_owned, which may also fail.   *)
RecoverHandle(d) ==
    /\ op[d] = "recover"
    /\ \E seen \in {TRUE, FALSE} :
        /\ \/ seen \in Sightings(d) /\ Fine
           \/ ~seen /\ Fault
        /\ held' = [held EXCEPT ![d] = seen]
        /\ op' = [op EXCEPT ![d] = IF seen THEN "compensate" ELSE "markFailed"]
    /\ UNCHANGED <<row, ended, appId, app, stopPc, rowLock, processVars>>

(* What target.stop does to the app: nothing to one already gone.          *)
Stopping(d) ==
    IF app[d] = "running" THEN {[app EXCEPT ![d] = a] : a \in {"draining", "stopped"}}
                          ELSE {app}

(* _compensating_stop: its result is not used.  With a session that can no *)
(* longer read, the _mark_failed that follows fails and the request ends.  *)
CompensatingStop(d) ==
    /\ op[d] \in {"compensate", "retract"}
    /\ \/ Fine /\ app' \in Stopping(d)
       \/ Fault /\ app' \in Stopping(d) \cup {app}
    /\ op' = [op EXCEPT ![d] = IF @ = "retract" THEN "none" ELSE "markFailed"]
    /\ held' = [held EXCEPT ![d] = @ /\ op[d] = "compensate"]
    /\ UNCHANGED <<row, ended, appId, stopPc, rowLock, processVars>>

DeployMarkFailed(d) ==
    /\ op[d] = "markFailed"
    /\ Lockable(d, "deploy")
    /\ \/ row[d] = "stopped" /\ Fine /\ UNCHANGED <<row, ended, appId>>
       \/ row[d] # "stopped" /\ Fine /\ Commits(d, "failed") /\ Identifies(d, held[d])
       \/ row[d] # "stopped" /\ CommitFails(d, "failed", held[d])
    /\ op' = [op EXCEPT ![d] = "none"]
    /\ held' = [held EXCEPT ![d] = FALSE]
    /\ UNCHANGED <<app, stopPc, rowLock, processVars>>

-----------------------------------------------------------------------------
(* stop() and _stop *)

RequestStop(d, load) ==
    /\ stopPc[d]["stop"] = "idle"
    /\ stopPc' = [stopPc EXCEPT ![d]["stop"] = load]
    /\ UNCHANGED <<row, ended, appId, app, op, held, faults, rowLock, processVars>>

(* An operator's Stop, in any state; the service decides what it means.    *)
ClientStop(d) == ~closing /\ row[d] # "absent" /\ RequestStop(d, "load")

(* Mutant: rows left at "stopping" are not retried. *)
WatchdogStopForgetful(d) ==
    ~closing /\ row[d] \in {"running", "failed"} /\ ~ended[d] /\ RequestStop(d, "load")

(* The watchdog retries unfinished cleanups and ends a running deployment  *)
(* whose lifetime is over.  Neither it nor a sweep selects a row that has  *)
(* a stopped_at.                                                           *)
WatchdogStop(d) ==
    /\ ~closing
    /\ row[d] \in {"running", "stopping", "failed"} /\ ~ended[d]
    /\ RequestStop(d, "load")

(* _cleanup_persisted_deployment: a sweep may take over interrupted deploys.*)
SweepStops(d) == RequestStop(d, "sweepLoad")

(* The startup sweep, first run or retried by the watchdog: rows older     *)
(* than the cutoff, interrupted deploys included.                          *)
StartupSweep(d) ==
    /\ ~closing
    /\ old[d] /\ ~ended[d] /\ row[d] \in CleanupStatuses
    /\ SweepStops(d)

(* stop_failed_if_active: a failed row whose app is gone is left alone.    *)
StopFailedIfActive(d) == row[d] = "failed" /\ ~Gone(d) /\ RequestStop(d, "load")

(* The shutdown sweep.                                                     *)
ShutdownSweep(d) ==
    /\ closing /\ ~ended[d]
    /\ \/ row[d] \in CleanupStatuses \ {"failed"} /\ SweepStops(d)
       \/ StopFailedIfActive(d)

At(d, s, pc) == stopPc[d][s] = pc
GoTo(d, s, pc) == stopPc' = [stopPc EXCEPT ![d][s] = pc]

(* Mutant: a Stop takes over a deploy under way. *)
RefusesCreated(d, s) == row[d] = "created"

(* Stop refuses what is still being created; only a sweep may take over a  *)
(* deploy that was interrupted.                                            *)
Refuses(d, s) == row[d] = "created" \/ (row[d] = "deploying" /\ At(d, s, "load"))

(* Only the branch that writes "stopping" commits: the others keep the row *)
(* locked.                                                                 *)
StopLoad(d, s) ==
    /\ At(d, s, "load") \/ At(d, s, "sweepLoad")
    /\ Lockable(d, s)
    /\ \/ /\ \/ row[d] = "stopped" /\ GoTo(d, s, "ok")
             \/ Refuses(d, s) /\ GoTo(d, s, "error")
             \/ row[d] = "stopping" /\ GoTo(d, s, "resolve")
          /\ Keeps(d, s) /\ Fine /\ UNCHANGED <<row, ended>>
       \/ /\ row[d] \notin {"stopped", "stopping"} /\ ~Refuses(d, s)
          /\ \/ Fine /\ Commits(d, "stopping") /\ GoTo(d, s, "resolve")
             \/ CommitFails(d, "stopping", FALSE) /\ GoTo(d, s, "error")
          /\ UNCHANGED rowLock
       \/ Fault /\ GoTo(d, s, "error") /\ UNCHANGED <<row, ended, rowLock>>
    /\ UNCHANGED <<appId, app, op, held, processVars>>

(* _resolve_handle: the persisted identity, or else the provider's list,   *)
(* which may fail or leave out, for once, an app that exists.              *)
StopResolve(d, s) ==
    /\ At(d, s, "resolve")
    /\ \/ (appId[d] \/ TRUE \in Sightings(d)) /\ Fine /\ GoTo(d, s, "halt")
       \/ ~appId[d] /\ FALSE \in Sightings(d) /\ Fine /\ GoTo(d, s, "absence")
       \/ ~appId[d] /\ Fault /\ (GoTo(d, s, "absence") \/ GoTo(d, s, "fail"))
    /\ UNCHANGED <<row, ended, appId, app, op, held, rowLock, processVars>>

(* _confirm_owned_absence: a second look at the list, after a pause.       *)
ConfirmAbsence(d, s) ==
    /\ At(d, s, "absence")
    /\ \/ TRUE \in Sightings(d) /\ Fine /\ GoTo(d, s, "halt")
       \/ FALSE \in Sightings(d) /\ Fine /\ GoTo(d, s, "absent")
       \/ Fault /\ GoTo(d, s, "fail")
    /\ UNCHANGED <<row, ended, appId, app, op, held, rowLock, processVars>>

TargetStop(d, s) ==
    /\ At(d, s, "halt")
    /\ \/ Fine /\ app' \in Stopping(d) /\ GoTo(d, s, "verify")
       \/ Fault /\ app' \in Stopping(d) \cup {app} /\ GoTo(d, s, "fail")
    /\ UNCHANGED <<row, ended, appId, op, held, rowLock, processVars>>

(* Mutant: the provider accepted the stop, so it is stopped. *)
VerifyStoppedTrusting(d, s) ==
    /\ At(d, s, "verify")
    /\ Fine /\ GoTo(d, s, "finish")
    /\ UNCHANGED <<row, ended, appId, app, op, held, rowLock, processVars>>

(* The inspection loop of _stop_and_verify; a draining app may outlast it. *)
VerifyStopped(d, s) ==
    /\ At(d, s, "verify")
    /\ \/ Gone(d) /\ Fine /\ GoTo(d, s, "finish")
       \/ Fault /\ GoTo(d, s, "fail")
    /\ UNCHANGED <<row, ended, appId, app, op, held, rowLock, processVars>>

(* _set_stopped, with the handle ("finish") or without one ("absent").     *)
SetStopped(d, s) ==
    /\ At(d, s, "absent") \/ At(d, s, "finish")
    /\ Lockable(d, s)
    /\ Releases(d, s)
    /\ \/ Fine /\ Commits(d, "stopped") /\ Identifies(d, At(d, s, "finish")) /\ GoTo(d, s, "ok")
       \/ CommitFails(d, "stopped", At(d, s, "finish")) /\ GoTo(d, s, "error")
    /\ UNCHANGED <<app, op, held, processVars>>

(* _mark_failed at the end of a _stop, whose session still shows the       *)
(* "stopping" it read or wrote before: nothing refreshes it, locked or     *)
(* not, so what another _stop has written meanwhile does not hold it back, *)
(* but for the stopped_at, which stays.                                    *)
StopMarkFailed(d, s) ==
    /\ At(d, s, "fail")
    /\ Lockable(d, s)
    /\ Releases(d, s)
    /\ \/ Fine /\ Commits(d, "failed") /\ UNCHANGED appId
       \/ CommitFails(d, "failed", FALSE)
    /\ GoTo(d, s, "error")
    /\ UNCHANGED <<app, op, held, processVars>>

(* The caller takes the result, closes its session and frees the slot.     *)
StopReturn(d, s) ==
    /\ At(d, s, "ok") \/ At(d, s, "error")
    /\ GoTo(d, s, "idle")
    /\ Releases(d, s)
    /\ UNCHANGED <<row, ended, appId, app, op, held, faults, processVars>>

(* A sweep, the watchdog or Stop meets a row of a target kind this process *)
(* has no adapter for: _mark_cleanup_target_unavailable only flags it.     *)
MarkTargetUnavailable(d) ==
    /\ old[d]
    /\ row[d] \notin {"absent", "stopped"}
    /\ stopPc[d]["stop"] = "idle"
    /\ Fault /\ Commits(d, "failed")
    /\ UNCHANGED <<appId, app, op, held, stopPc, rowLock, processVars>>

-----------------------------------------------------------------------------
(* The provider and the process *)

(* A drained app stops; a running one may end by itself (its own timeout). *)
ProviderDrains(d) ==
    /\ app[d] = "draining"
    /\ app' = [app EXCEPT ![d] = "stopped"]
    /\ UNCHANGED <<row, ended, appId, op, held, stopPc, rowLock, faults, processVars>>

ProviderExpires(d) ==
    /\ app[d] = "running"
    /\ app' = [app EXCEPT ![d] = "stopped"]
    /\ UNCHANGED <<row, ended, appId, op, held, stopPc, rowLock, faults, processVars>>

(* The server finishes its open requests before the lifespan shuts down.   *)
BeginShutdown ==
    /\ ~closing
    /\ restarts < MaxRestarts
    /\ \A d \in Deployments : op[d] = "none" /\ stopPc[d] = [s \in Slots |-> "idle"]
    /\ closing' = TRUE
    /\ UNCHANGED <<row, ended, appId, app, op, held, stopPc, rowLock, old, frozen, faults, restarts>>

(* The process dies at any point, shut down or not, and a new one starts.  *)
Restart ==
    /\ restarts < MaxRestarts
    /\ restarts' = restarts + 1
    /\ op' = [d \in Deployments |-> "none"]
    /\ held' = [d \in Deployments |-> FALSE]
    /\ stopPc' = [d \in Deployments |-> [s \in Slots |-> "idle"]]
    /\ old' = [d \in Deployments |-> row[d] # "absent"]
    /\ rowLock' = [d \in Deployments |-> "free"]
    /\ closing' = FALSE
    /\ frozen' = FALSE
    /\ UNCHANGED <<row, ended, appId, app, faults>>

(* A coroutine about to lock a row that another one has locked waits for   *)
(* it inside the database driver, on the event loop's own thread: nothing  *)
(* in this process runs any more, the holder of the lock included.         *)
AwaitsRowLock(d) ==
    \/ op[d] \in {"persist", "confirm", "markFailed"} /\ ~Lockable(d, "deploy")
    \/ \E s \in Slots :
        /\ stopPc[d][s] \in {"load", "sweepLoad", "absent", "finish", "fail"}
        /\ ~Lockable(d, s)

Freeze ==
    /\ \E d \in Deployments : AwaitsRowLock(d)
    /\ frozen' = TRUE
    /\ UNCHANGED <<row, ended, appId, app, op, held, stopPc, rowLock, old, closing, faults, restarts>>

-----------------------------------------------------------------------------
DeployStep(d) ==
    \/ TargetDeploy(d) \/ PersistHandle(d) \/ HealthCheck(d) \/ InspectRunning(d)
    \/ SetRunning(d) \/ RecoverHandle(d) \/ CompensatingStop(d) \/ DeployMarkFailed(d)

StopStep(d, s) ==
    \/ StopLoad(d, s) \/ StopResolve(d, s) \/ ConfirmAbsence(d, s) \/ TargetStop(d, s)
    \/ VerifyStopped(d, s) \/ SetStopped(d, s) \/ StopMarkFailed(d, s) \/ StopReturn(d, s)

Request(d) ==
    ClientStop(d) \/ WatchdogStop(d) \/ StartupSweep(d) \/ ShutdownSweep(d)

(* What the process does, which is nothing once its event loop is frozen.  *)
Works(d) ==
    /\ ~frozen
    /\ \/ DeployBegin(d) \/ DeployStep(d) \/ Request(d) \/ MarkTargetUnavailable(d)
       \/ \E s \in Slots : StopStep(d, s)

Next ==
    \/ \E d \in Deployments : Works(d) \/ ProviderDrains(d) \/ ProviderExpires(d)
    \/ ~frozen /\ (BeginShutdown \/ Freeze)
    \/ Restart

Spec == Init /\ [][Next]_vars

(* The event loop runs every started coroutine, the watchdog comes round   *)
(* for ever, every deployment's lifetime ends, and the provider drains     *)
(* what it was told to stop.  Clients, restarts and the provider's own     *)
(* expiry owe nothing.  A sweep that finds the slot taken by a client's    *)
(* Stop is retried by the next pass: strong fairness rules out a client    *)
(* that is inside a Stop at every single pass.                             *)
Fairness ==
    \A d \in Deployments :
        /\ WF_vars(~frozen /\ DeployStep(d))
        /\ \A s \in Slots : WF_vars(~frozen /\ StopStep(d, s))
        /\ WF_vars(~frozen /\ WatchdogStop(d))
        /\ SF_vars(~frozen /\ StartupSweep(d))
        /\ WF_vars(ProviderDrains(d))

FairSpec == Spec /\ Fairness

-----------------------------------------------------------------------------
TypeOK ==
    /\ row \in [Deployments -> RowStatus]
    /\ ended \in [Deployments -> BOOLEAN]
    /\ appId \in [Deployments -> BOOLEAN]
    /\ app \in [Deployments -> AppState]
    /\ op \in [Deployments -> OpPc]
    /\ held \in [Deployments -> BOOLEAN]
    /\ stopPc \in [Deployments -> [Slots -> StopPc]]
    /\ rowLock \in [Deployments -> Slots \cup {"free"}]
    /\ frozen \in BOOLEAN
    /\ old \in [Deployments -> BOOLEAN]
    /\ closing \in BOOLEAN
    /\ faults \in Nat
    /\ restarts \in Nat

(* A row says "stopped" only when the provider runs nothing for it: the    *)
(* verification of _stop, the double look of _confirm_owned_absence and    *)
(* the refusal to stop an interrupted deploy outside a sweep add up to it. *)
StoppedIsTornDown == \A d \in Deployments : row[d] = "stopped" => Gone(d)

(* Until _deploy has tried to commit "running" nobody else moves its row:  *)
(* no Stop and no sweep reaches a deployment this process is still         *)
(* creating.  Later a Stop may, while _deploy takes the app back; but what *)
(* it owns is never taken for one of an earlier process.                   *)
DeployOwnsItsRow ==
    \A d \in Deployments : op[d] # "none" =>
        /\ ~old[d] /\ row[d] \notin {"absent", "created"}
        /\ op[d] \in {"creating", "persist", "health", "inspect", "confirm", "recover"} =>
               row[d] = "deploying"

(* A running app is never forgotten: it is in the hands of a coroutine, or *)
(* its row is one that Stop or a sweep will still pick up.                 *)
NoOrphanApp == \A d \in Deployments : ~Gone(d) => row[d] \in CleanupStatuses /\ ~ended[d]

(* What a cleanup has begun to take down is not taken for running again,   *)
(* and once it is down the provider never runs anything for it again,      *)
(* whichever of a deploy's compensation, two stops and the sweeps is late. *)
(* ("stopped" itself is not final: a _stop that fails late writes "failed" *)
(* over the "stopped" of another, StopMarkFailed.)                         *)
StaysDown ==
    LET Ending == {"stopping", "stopped", "failed"} IN
    [][\A d \in Deployments :
        row[d] \in Ending => row'[d] \in Ending /\ (Gone(d) => Gone(d)')]_vars

(* The promise of DeploymentLife, read off the row and the provider.       *)
Claim == [absent |-> "none", created |-> "opening", deploying |-> "opening",
          running |-> "serving", stopping |-> "closing", stopped |-> "closed",
          failed |-> "broken"]

Life == INSTANCE DeploymentLife WITH
            life <- [d \in Deployments |-> Claim[row[d]]],
            up <- [d \in Deployments |-> ~Gone(d)]

(* Every step of the service, the sweeps and the provider is a step of the *)
(* promised lifecycle or changes nothing it speaks of.                     *)
ImplementsLife == Life!Spec

(* A deployment that runs, whose cleanup began, or that a previous process *)
(* left behind, interrupted deploys included, ends in a verified teardown  *)
(* on record, whatever failed on the way: the watchdog is the backstop.    *)
(* (The status may say "failed" again afterwards, StopMarkFailed.)         *)
CleanupConverges ==
    \A d \in Deployments :
        (row[d] \in {"running", "stopping", "failed"} \/ (old[d] /\ row[d] \in CleanupStatuses))
            ~> (ended[d] \/ closing \/ frozen)
=============================================================================
