------------------------- MODULE DeploymentsProofs -------------------------
(***************************************************************************)
(* The safety of the deployment lifecycle, for any set of deployments and  *)
(* any fault and restart budget.  Who may move a row is what everything    *)
(* rests on: until _deploy has tried to commit "running" stops can only be *)
(* refused, and no sweep takes over what it compensates (Creating); a      *)
(* _stop past its load finds nothing that may still come up (Tearing); and *)
(* the two program points that lead to "stopped" know the app is gone      *)
(* (Known).                                                                *)
(***************************************************************************)
EXTENDS Deployments, TLAPS

Opening == {"creating", "persist", "health", "inspect", "confirm", "recover"}
Teardown == {"resolve", "absence", "absent", "halt", "verify", "finish", "fail"}

Creating ==
    \A d \in Deployments : op[d] # "none" =>
        /\ row[d] \notin {"absent", "created"} /\ ~old[d] /\ ~closing
        /\ stopPc[d]["undo"] = "idle" /\ stopPc[d]["stop"] # "sweepLoad"
        /\ op[d] \in Opening => row[d] = "deploying"

Tearing ==
    \A d \in Deployments : \A s \in Slots :
        /\ stopPc[d][s] # "idle" => row[d] # "absent"
        /\ stopPc[d][s] \in Teardown => row[d] \in {"stopping", "failed", "stopped"}

Known ==
    \A d \in Deployments :
        /\ row[d] \in {"absent", "created", "stopped"} => Gone(d)
        /\ \A s \in Slots : stopPc[d][s] \in {"absent", "finish"} => Gone(d)
        /\ old[d] => row[d] # "absent"

Safe == Creating /\ Tearing /\ Known

IInv == TypeOK /\ Safe

(* The initial state satisfies the invariant. *)
LEMMA InitIInv == Init => IInv
<1> SUFFICES ASSUME Init PROVE IInv
  OBVIOUS
<1>1. TypeOK
  BY DEF Init, TypeOK, RowStatus, AppState, OpPc, StopPc, Slots
<1>2. Creating /\ Tearing
  BY DEF Init, Creating, Tearing, Slots, Teardown
<1>3. Known
  BY DEF Init, Known, Gone
<1> QED
  BY <1>1, <1>2, <1>3 DEF IInv, Safe

(* GoTo moves one slot of one deployment. *)
LEMMA GoToMoves ==
    ASSUME TypeOK, NEW d \in Deployments, NEW s \in Slots, NEW pc \in StopPc, GoTo(d, s, pc)
    PROVE  /\ stopPc' \in [Deployments -> [Slots -> StopPc]]
           /\ \A e \in Deployments, t \in Slots :
                stopPc'[e][t] = IF e = d /\ t = s THEN pc ELSE stopPc[e][t]
<1>1. stopPc' = [stopPc EXCEPT ![d] = [stopPc[d] EXCEPT ![s] = pc]]
  BY DEF GoTo, TypeOK
<1>2. stopPc[d] \in [Slots -> StopPc]
  BY DEF TypeOK
<1>3. [stopPc[d] EXCEPT ![s] = pc] \in [Slots -> StopPc]
  BY <1>2
<1> QED
  BY <1>1, <1>2, <1>3 DEF TypeOK


(* A commit leaves the rows well typed. *)
LEMMA CommitMoves ==
    ASSUME TypeOK, NEW d \in Deployments, NEW status \in RowStatus, Commits(d, status)
    PROVE  /\ row' \in [Deployments -> RowStatus]
           /\ ended' \in [Deployments -> BOOLEAN]
<1>1. row' \in [Deployments -> RowStatus]
  BY DEF TypeOK, Commits
<1>2. ended' = [ended EXCEPT ![d] = status = "stopped" \/ (ended[d] /\ status # "running")]
  BY DEF Commits
<1>3. (status = "stopped" \/ (ended[d] /\ status # "running")) \in BOOLEAN
  BY DEF TypeOK
<1> QED BY <1>1, <1>2, <1>3, Zenon DEF TypeOK

(* So it does what is known of the app. *)
LEMMA IdentityMoves ==
    ASSUME TypeOK, NEW d \in Deployments, NEW known \in BOOLEAN, Identifies(d, known)
    PROVE  appId' \in [Deployments -> BOOLEAN]
<1>1. appId' = [appId EXCEPT ![d] = appId[d] \/ known]
  BY DEF Identifies
<1>2. (appId[d] \/ known) \in BOOLEAN
  BY DEF TypeOK
<1> QED BY <1>1, <1>2, Zenon DEF TypeOK

(* The fault counter stays a natural number. *)
LEMMA FaultMoves ==
    ASSUME TypeOK, Fault \/ Fine
    PROVE  faults' \in Nat
  BY DEF TypeOK, Fault, Fine

(* And so does a commit that fails, applied or not. *)
LEMMA FailureMoves ==
    ASSUME TypeOK, NEW d \in Deployments, NEW status \in RowStatus, NEW known \in BOOLEAN,
           CommitFails(d, status, known)
    PROVE  /\ row' \in [Deployments -> RowStatus]
           /\ ended' \in [Deployments -> BOOLEAN]
           /\ appId' \in [Deployments -> BOOLEAN]
           /\ faults' \in Nat
<1>1. CASE UNCHANGED <<row, ended, appId>>
  BY <1>1, FaultMoves DEF CommitFails, TypeOK
<1>2. CASE Commits(d, status) /\ Identifies(d, known)
  BY <1>2, CommitMoves, IdentityMoves, FaultMoves DEF CommitFails
<1> QED BY <1>1, <1>2 DEF CommitFails

(* A row lock names a slot or is free. *)
LEMMA LockMoves ==
    ASSUME TypeOK, NEW d \in Deployments, NEW s \in Slots, Keeps(d, s) \/ Releases(d, s)
    PROVE  rowLock' \in [Deployments -> Slots \cup {"free"}]
<1>1. CASE Keeps(d, s)
  BY <1>1 DEF TypeOK, Keeps
<1>2. CASE Releases(d, s)
  BY <1>2 DEF TypeOK, Releases
<1> QED
  BY <1>1, <1>2

(* Every result of target.stop is a provider state. *)
LEMMA StoppingMoves ==
    ASSUME TypeOK, NEW d \in Deployments
    PROVE  Stopping(d) \subseteq [Deployments -> AppState]
  BY DEF TypeOK, Stopping, AppState


(* Every action keeps every variable in its type. *)
LEMMA TypeStep == TypeOK /\ [Next]_vars => TypeOK'
<1> SUFFICES ASSUME TypeOK, [Next]_vars PROVE TypeOK'
  OBVIOUS
<1> USE DEF TypeOK, processVars
<1>1. ASSUME NEW d \in Deployments, DeployBegin(d) PROVE TypeOK'
  BY <1>1, CommitMoves, FaultMoves DEF DeployBegin, RowStatus, OpPc
<1>2. ASSUME NEW d \in Deployments, DeployStep(d) PROVE TypeOK'
  <2>1. CASE TargetDeploy(d)
    <3>1. app' \in [Deployments -> AppState] /\ op' \in [Deployments -> OpPc]
      BY <2>1 DEF TargetDeploy, AppState, OpPc
    <3>2. held' \in [Deployments -> BOOLEAN]
      BY <2>1 DEF TargetDeploy
    <3> QED
      BY <2>1, <3>1, <3>2, FaultMoves DEF TargetDeploy
  <2>2. CASE PersistHandle(d)
    <3>1. op' \in [Deployments -> OpPc]
      BY <2>2 DEF PersistHandle, OpPc
    <3>2. \/ Identifies(d, TRUE)
          \/ appId' = appId
          \/ appId' = [appId EXCEPT ![d] = TRUE]
      BY <2>2, Zenon DEF PersistHandle
    <3>3. appId' \in [Deployments -> BOOLEAN]
      BY <3>2, IdentityMoves, Zenon
    <3> QED
      BY <2>2, <3>1, <3>3, FaultMoves DEF PersistHandle
  <2>3. CASE HealthCheck(d) \/ InspectRunning(d)
    BY <2>3, FaultMoves DEF HealthCheck, InspectRunning, Probe, Answers, OpPc
  <2>4. CASE SetRunning(d)
    <3>1. held' \in [Deployments -> BOOLEAN] /\ op' \in [Deployments -> OpPc]
      BY <2>4 DEF SetRunning, OpPc
    <3>2. \/ UNCHANGED <<row, ended, appId>> /\ Fine
          \/ Commits(d, "running") /\ Identifies(d, TRUE) /\ Fine
          \/ CommitFails(d, "running", TRUE)
      BY <2>4, Zenon DEF SetRunning
    <3>3. row' \in [Deployments -> RowStatus] /\ ended' \in [Deployments -> BOOLEAN] /\ appId' \in [Deployments -> BOOLEAN] /\ faults' \in Nat
      BY <3>2, CommitMoves, IdentityMoves, FaultMoves, FailureMoves DEF RowStatus
    <3>4. stopPc' \in [Deployments -> [Slots -> StopPc]]
      <4>1. stopPc' = stopPc \/ GoTo(d, "undo", "load")
        BY <2>4, Zenon DEF SetRunning, MaybeUndo, GoTo
      <4>2. "undo" \in Slots /\ "load" \in StopPc
        BY DEF Slots, StopPc
      <4> QED BY <4>1, <4>2, GoToMoves
    <3> QED
      BY <2>4, <3>1, <3>3, <3>4 DEF SetRunning
  <2>5. CASE RecoverHandle(d)
    BY <2>5, FaultMoves DEF RecoverHandle, OpPc
  <2>6. CASE CompensatingStop(d)
    <3>1. op' \in [Deployments -> OpPc] /\ held' \in [Deployments -> BOOLEAN]
      BY <2>6 DEF CompensatingStop, OpPc
    <3> QED
      BY <2>6, <3>1, FaultMoves, StoppingMoves DEF CompensatingStop
  <2>7. CASE DeployMarkFailed(d)
    <3>1. held' \in [Deployments -> BOOLEAN] /\ op' \in [Deployments -> OpPc] /\ held[d] \in BOOLEAN
      BY <2>7 DEF DeployMarkFailed, OpPc
    <3>2. \/ UNCHANGED <<row, ended, appId>> /\ Fine
          \/ Commits(d, "failed") /\ Identifies(d, held[d]) /\ Fine
          \/ CommitFails(d, "failed", held[d])
      BY <2>7, Zenon DEF DeployMarkFailed
    <3>3. row' \in [Deployments -> RowStatus] /\ ended' \in [Deployments -> BOOLEAN] /\ appId' \in [Deployments -> BOOLEAN] /\ faults' \in Nat
      BY <3>1, <3>2, CommitMoves, IdentityMoves, FaultMoves, FailureMoves DEF RowStatus
    <3> QED
      BY <2>7, <3>1, <3>3 DEF DeployMarkFailed
  <2> QED
    BY <1>2, <2>1, <2>2, <2>3, <2>4, <2>5, <2>6, <2>7 DEF DeployStep
<1>3. ASSUME NEW d \in Deployments, Request(d) PROVE TypeOK'
  <2>1. RequestStop(d, "load") \/ RequestStop(d, "sweepLoad")
    BY <1>3, Zenon DEF Request, ClientStop, WatchdogStop, StartupSweep, ShutdownSweep, SweepStops, StopFailedIfActive
  <2>2. stopPc' \in [Deployments -> [Slots -> StopPc]]
    <3>1. "stop" \in Slots /\ "load" \in StopPc /\ "sweepLoad" \in StopPc
      BY DEF Slots, StopPc
    <3>2. GoTo(d, "stop", "load") \/ GoTo(d, "stop", "sweepLoad")
      BY <2>1, Zenon DEF RequestStop, GoTo
    <3> QED
      BY <3>1, <3>2, GoToMoves
  <2> QED
    BY <2>1, <2>2, Zenon DEF RequestStop
<1>4. ASSUME NEW d \in Deployments, NEW s \in Slots, StopStep(d, s) PROVE TypeOK'
  <2>1. CASE StopLoad(d, s)
    <3>1. \/ UNCHANGED <<row, ended>> /\ Fine
          \/ Commits(d, "stopping") /\ Fine
          \/ CommitFails(d, "stopping", FALSE)
          \/ UNCHANGED <<row, ended>> /\ Fault
      BY <2>1, Zenon DEF StopLoad
    <3>2. row' \in [Deployments -> RowStatus] /\ ended' \in [Deployments -> BOOLEAN] /\ faults' \in Nat
      BY <3>1, CommitMoves, FaultMoves, FailureMoves DEF RowStatus
    <3>3. PICK pc \in {"ok", "error", "resolve"} : GoTo(d, s, pc)
      BY <2>1, Zenon DEF StopLoad
    <3>4. stopPc' \in [Deployments -> [Slots -> StopPc]]
      BY <3>3, GoToMoves DEF StopPc
    <3>5. rowLock' \in [Deployments -> Slots \cup {"free"}]
      BY <2>1, LockMoves DEF StopLoad
    <3> QED
      BY <2>1, <3>2, <3>4, <3>5 DEF StopLoad
  <2>2. CASE StopResolve(d, s)
    BY <2>2, GoToMoves, FaultMoves DEF StopResolve, StopPc
  <2>3. CASE ConfirmAbsence(d, s)
    BY <2>3, GoToMoves, FaultMoves DEF ConfirmAbsence, StopPc
  <2>4. CASE TargetStop(d, s)
    BY <2>4, GoToMoves, FaultMoves, StoppingMoves DEF TargetStop, StopPc
  <2>5. CASE VerifyStopped(d, s)
    BY <2>5, GoToMoves, FaultMoves DEF VerifyStopped, StopPc
  <2>6. CASE SetStopped(d, s)
    <3>1. PICK pc \in {"ok", "error"} : GoTo(d, s, pc)
      BY <2>6, Zenon DEF SetStopped
    <3>2. stopPc' \in [Deployments -> [Slots -> StopPc]]
      BY <3>1, GoToMoves DEF StopPc
    <3>3. \/ Commits(d, "stopped") /\ Identifies(d, At(d, s, "finish")) /\ Fine
          \/ CommitFails(d, "stopped", At(d, s, "finish"))
      BY <2>6, Zenon DEF SetStopped
    <3>4. At(d, s, "finish") \in BOOLEAN
      BY DEF At
    <3>5. row' \in [Deployments -> RowStatus] /\ ended' \in [Deployments -> BOOLEAN] /\ appId' \in [Deployments -> BOOLEAN] /\ faults' \in Nat
      BY <3>3, <3>4, CommitMoves, IdentityMoves, FaultMoves, FailureMoves DEF RowStatus
    <3> QED
      BY <2>6, <3>2, <3>5, LockMoves DEF SetStopped
  <2>7. CASE StopMarkFailed(d, s)
    <3>1. \/ Commits(d, "failed") /\ UNCHANGED appId /\ Fine
          \/ CommitFails(d, "failed", FALSE)
      BY <2>7, Zenon DEF StopMarkFailed
    <3>2. row' \in [Deployments -> RowStatus] /\ ended' \in [Deployments -> BOOLEAN] /\ appId' \in [Deployments -> BOOLEAN] /\ faults' \in Nat
      BY <3>1, CommitMoves, FaultMoves, FailureMoves DEF RowStatus
    <3>3. stopPc' \in [Deployments -> [Slots -> StopPc]]
      BY <2>7, GoToMoves DEF StopMarkFailed, StopPc
    <3> QED
      BY <2>7, <3>2, <3>3, LockMoves DEF StopMarkFailed
  <2>8. CASE StopReturn(d, s)
    BY <2>8, GoToMoves, LockMoves DEF StopReturn, StopPc
  <2> QED
    BY <1>4, <2>1, <2>2, <2>3, <2>4, <2>5, <2>6, <2>7, <2>8 DEF StopStep
<1>5. ASSUME NEW d \in Deployments, MarkTargetUnavailable(d) PROVE TypeOK'
  BY <1>5, CommitMoves, FaultMoves DEF MarkTargetUnavailable, RowStatus
<1>6. ASSUME NEW d \in Deployments, ProviderDrains(d) \/ ProviderExpires(d) PROVE TypeOK'
  BY <1>6 DEF ProviderDrains, ProviderExpires, AppState
<1>7. CASE BeginShutdown
  BY <1>7 DEF BeginShutdown
<1>8. CASE Freeze
  BY <1>8 DEF Freeze
<1>9. CASE Restart
  <2>1. stopPc' \in [Deployments -> [Slots -> StopPc]]
    BY <1>9 DEF Restart, StopPc
  <2>2. rowLock' \in [Deployments -> Slots \cup {"free"}] /\ op' \in [Deployments -> OpPc]
    BY <1>9 DEF Restart, OpPc
  <2>3. held' \in [Deployments -> BOOLEAN] /\ old' \in [Deployments -> BOOLEAN]
    BY <1>9 DEF Restart
  <2>4. closing' \in BOOLEAN /\ frozen' \in BOOLEAN
    BY <1>9 DEF Restart
  <2>6. restarts' \in Nat
    BY <1>9 DEF Restart
  <2>5. UNCHANGED <<row, ended, appId, app, faults>>
    BY <1>9 DEF Restart
  <2> QED
    BY <2>1, <2>2, <2>3, <2>4, <2>5, <2>6
<1>10. CASE UNCHANGED vars
  BY <1>10 DEF vars
<1> QED
  BY <1>1, <1>2, <1>3, <1>4, <1>5, <1>6, <1>7, <1>8, <1>9, <1>10 DEF Next, Works

(* Every variable keeps its type, through every fault, sweep and restart.  *)
THEOREM TypeCorrect == Spec => []TypeOK
<1>1. Init => TypeOK
  BY InitIInv DEF IInv
<1> QED
  BY <1>1, TypeStep, PTL DEF Spec

(* A _stop that moves on and leaves the row alone keeps the invariant when *)
(* it enters no teardown from outside one, knows the app is gone where it  *)
(* must, and the app does not come back.                                   *)
LEMMA StopWalks ==
    ASSUME TypeOK, Safe, NEW d \in Deployments, NEW s \in Slots, NEW pc \in StopPc,
           GoTo(d, s, pc), UNCHANGED <<row, op, old, closing>>,
           stopPc[d][s] # "idle", pc # "sweepLoad",
           pc \in Teardown => stopPc[d][s] \in Teardown,
           pc \in {"absent", "finish"} => Gone(d),
           \A e \in Deployments : Gone(e) => Gone(e)'
    PROVE  Safe'
<1>1. \A e \in Deployments, t \in Slots :
         stopPc'[e][t] = IF e = d /\ t = s THEN pc ELSE stopPc[e][t]
  BY GoToMoves
<1>2. Creating'
  BY <1>1 DEF Safe, Creating, Slots
<1>3. Tearing'
  BY <1>1 DEF Safe, Tearing
<1>4. Known'
  BY <1>1 DEF Safe, Known
<1> QED
  BY <1>2, <1>3, <1>4 DEF Safe

(* Every action preserves the invariant. *)
LEMMA SafeStep == IInv /\ [Next]_vars => IInv'
<1> SUFFICES ASSUME TypeOK, Safe, Creating, Tearing, Known, [Next]_vars
             PROVE  Safe'
  BY TypeStep DEF IInv, Safe
<1> USE DEF TypeOK
<1>1. ASSUME NEW d \in Deployments, DeployBegin(d) PROVE Safe'
  <2>1. Creating'
    <3>1. stopPc[d]["undo"] = "idle" /\ stopPc[d]["stop"] = "idle" /\ ~old[d] /\ ~closing
      BY <1>1 DEF Tearing, Known, DeployBegin, Slots
    <3>2. op[d] = "none"
      BY <1>1 DEF Creating, DeployBegin
    <3>3. \/ op' = op /\ \E status \in RowStatus : row' = [row EXCEPT ![d] = status]
          \/ op' = [op EXCEPT ![d] = "creating"] /\ row' = [row EXCEPT ![d] = "deploying"]
      BY <1>1 DEF DeployBegin, Commits, RowStatus
    <3>4. UNCHANGED <<stopPc, old, closing>>
      BY <1>1 DEF DeployBegin, processVars
    <3>5. ASSUME NEW e \in Deployments, e # d, op'[e] # "none"
          PROVE  op[e] = op'[e] /\ row'[e] = row[e]
      BY <3>3, <3>5
    <3>6. op'[d] # "none" => row'[d] = "deploying"
      BY <3>2, <3>3
    <3>7. ASSUME NEW e \in Deployments, op'[e] # "none"
          PROVE  /\ row'[e] \notin {"absent", "created"} /\ ~old'[e] /\ ~closing'
                 /\ stopPc'[e]["undo"] = "idle" /\ stopPc'[e]["stop"] # "sweepLoad"
                 /\ op'[e] \in Opening => row'[e] = "deploying"
      <4>1. CASE e = d
        BY <3>1, <3>4, <3>6, <3>7, <4>1
      <4>2. CASE e # d
        BY <3>4, <3>5, <3>7, <4>2 DEF Creating
      <4> QED BY <4>1, <4>2
    <3> QED
      BY <3>7 DEF Creating
  <2>2. Tearing'
    BY <1>1 DEF Creating, Tearing, Opening, Teardown, DeployBegin, Commits, CommitFails, Identifies, processVars, Slots
  <2>3. Known'
    BY <1>1 DEF Creating, Tearing, Known, Gone, Opening, Teardown, DeployBegin, Commits, CommitFails, Identifies, processVars, Slots
  <2> QED
    BY <2>1, <2>2, <2>3 DEF Safe
<1>2. ASSUME NEW d \in Deployments, DeployStep(d) PROVE Safe'
  <2>1. CASE TargetDeploy(d)
    <3>1. Creating'
      BY <2>1 DEF Creating, Opening, TargetDeploy, processVars, Slots
    <3>2. Tearing'
      BY <2>1 DEF Creating, Tearing, Opening, Teardown, TargetDeploy, processVars, Slots
    <3>3. Known'
      BY <2>1 DEF Creating, Tearing, Known, Gone, Opening, Teardown, TargetDeploy, processVars, Slots
    <3> QED
      BY <3>1, <3>2, <3>3 DEF Safe
  <2>2. CASE PersistHandle(d)
    <3>1. Creating'
      BY <2>2 DEF Creating, Opening, PersistHandle, Commits, CommitFails, Identifies, processVars, Slots
    <3>2. Tearing'
      BY <2>2 DEF Creating, Tearing, Opening, Teardown, PersistHandle, Commits, CommitFails, Identifies, processVars, Slots
    <3>3. Known'
      BY <2>2 DEF Creating, Tearing, Known, Gone, Opening, Teardown, PersistHandle, Commits, CommitFails, Identifies, processVars, Slots
    <3> QED
      BY <3>1, <3>2, <3>3 DEF Safe
  <2>3. CASE HealthCheck(d) \/ InspectRunning(d)
    <3>1. Creating'
      BY <2>3 DEF Creating, Opening, HealthCheck, InspectRunning, Probe, Answers, processVars, Slots
    <3>2. Tearing'
      BY <2>3 DEF Creating, Tearing, Opening, Teardown, HealthCheck, InspectRunning, Probe, Answers, processVars, Slots
    <3>3. Known'
      BY <2>3 DEF Creating, Tearing, Known, Gone, Opening, Teardown, HealthCheck, InspectRunning, Probe, Answers, processVars, Slots
    <3> QED
      BY <3>1, <3>2, <3>3 DEF Safe
  <2>4. CASE SetRunning(d)
    <3>1. Creating'
      BY <2>4 DEF Creating, Opening, SetRunning, MaybeUndo, Commits, CommitFails, Identifies, processVars, Slots
    <3>2. Tearing'
      BY <2>4 DEF Creating, Tearing, Opening, Teardown, SetRunning, MaybeUndo, Commits, CommitFails, Identifies, processVars, Slots
    <3>3. Known'
      BY <2>4, SMTT(60) DEF Creating, Tearing, Known, Gone, Opening, Teardown, SetRunning, MaybeUndo, Commits, CommitFails, Identifies, processVars, Slots
    <3> QED
      BY <3>1, <3>2, <3>3 DEF Safe
  <2>5. CASE RecoverHandle(d)
    <3>1. Creating'
      BY <2>5 DEF Creating, Opening, RecoverHandle, processVars, Slots
    <3>2. Tearing'
      BY <2>5 DEF Creating, Tearing, Opening, Teardown, RecoverHandle, processVars, Slots
    <3>3. Known'
      BY <2>5 DEF Creating, Tearing, Known, Gone, Opening, Teardown, RecoverHandle, processVars, Slots
    <3> QED
      BY <3>1, <3>2, <3>3 DEF Safe
  <2>6. CASE CompensatingStop(d)
    <3>1. Creating'
      BY <2>6 DEF Creating, Opening, CompensatingStop, Stopping, processVars, Slots
    <3>2. Tearing'
      BY <2>6 DEF Creating, Tearing, Opening, Teardown, CompensatingStop, Stopping, processVars, Slots
    <3>3. Known'
      BY <2>6 DEF Creating, Tearing, Known, Gone, Opening, Teardown, CompensatingStop, Stopping, processVars, Slots
    <3> QED
      BY <3>1, <3>2, <3>3 DEF Safe
  <2>7. CASE DeployMarkFailed(d)
    <3>1. Creating'
      BY <2>7 DEF Creating, Opening, DeployMarkFailed, Commits, CommitFails, Identifies, processVars, Slots
    <3>2. Tearing'
      BY <2>7 DEF Creating, Tearing, Opening, Teardown, DeployMarkFailed, Commits, CommitFails, Identifies, processVars, Slots
    <3>3. Known'
      BY <2>7 DEF Creating, Tearing, Known, Gone, Opening, Teardown, DeployMarkFailed, Commits, CommitFails, Identifies, processVars, Slots
    <3> QED
      BY <3>1, <3>2, <3>3 DEF Safe
  <2> QED
    BY <1>2, <2>1, <2>2, <2>3, <2>4, <2>5, <2>6, <2>7 DEF DeployStep
<1>3. ASSUME NEW d \in Deployments, Request(d) PROVE Safe'
  <2>1. PICK load \in {"load", "sweepLoad"} :
           RequestStop(d, load) /\ (load = "sweepLoad" => closing \/ old[d])
    BY <1>3 DEF Request, ClientStop, WatchdogStop, StartupSweep, ShutdownSweep, SweepStops, StopFailedIfActive
  <2>2. row[d] # "absent"
    BY <1>3 DEF Request, ClientStop, WatchdogStop, StartupSweep, ShutdownSweep, StopFailedIfActive, CleanupStatuses
  <2>3. UNCHANGED <<row, app, op, old, closing>>
    BY <2>1 DEF RequestStop, processVars
  <2>4. \A e \in Deployments : \A s \in Slots :
           stopPc'[e][s] = IF e = d /\ s = "stop" THEN load ELSE stopPc[e][s]
    BY <2>1 DEF RequestStop, Slots, TypeOK
  <2>5. Creating'
    BY <2>1, <2>3, <2>4 DEF Creating, Slots
  <2>6. Tearing'
    BY <2>2, <2>3, <2>4 DEF Tearing, Teardown
  <2>7. Known'
    BY <2>3, <2>4 DEF Known, Gone
  <2> QED
    BY <2>5, <2>6, <2>7 DEF Safe
<1>4. ASSUME NEW d \in Deployments, NEW s \in Slots, StopStep(d, s) PROVE Safe'
  <2>1. CASE StopLoad(d, s)
    <3>1. Creating'
      BY <2>1, GoToMoves DEF Creating, Opening, StopLoad, Refuses, At, StopPc, Commits, CommitFails, Identifies, processVars, Slots
    <3>2. Tearing'
      BY <2>1, GoToMoves DEF Creating, Tearing, Opening, Teardown, StopLoad, Refuses, At, StopPc, Commits, CommitFails, Identifies, processVars, Slots
    <3>3. Known'
      BY <2>1, GoToMoves DEF Creating, Tearing, Known, Gone, Opening, Teardown, StopLoad, Refuses, At, StopPc, Commits, CommitFails, Identifies, processVars, Slots
    <3> QED
      BY <3>1, <3>2, <3>3 DEF Safe
  <2>2. CASE StopResolve(d, s)
    <3>1. PICK pc \in {"halt", "absence", "fail"} : GoTo(d, s, pc)
      BY <2>2 DEF StopResolve
    <3> QED
      BY <2>2, <3>1, StopWalks DEF StopResolve, At, Safe, Tearing, Teardown, StopPc, Gone, processVars
  <2>3. CASE ConfirmAbsence(d, s)
    <3>1. PICK pc \in {"halt", "absent", "fail"} : GoTo(d, s, pc) /\ (pc = "absent" => Gone(d))
      BY <2>3 DEF ConfirmAbsence, Sightings, Gone
    <3> QED
      BY <2>3, <3>1, StopWalks DEF ConfirmAbsence, At, Safe, Tearing, Teardown, StopPc, Gone, processVars
  <2>4. CASE TargetStop(d, s)
    <3>1. PICK pc \in {"verify", "fail"} : GoTo(d, s, pc)
      BY <2>4 DEF TargetStop
    <3>2. \A e \in Deployments : Gone(e) => Gone(e)'
      BY <2>4 DEF TargetStop, Stopping, Gone
    <3> QED
      BY <2>4, <3>1, <3>2, StopWalks DEF TargetStop, At, Safe, Tearing, Teardown, StopPc, processVars
  <2>5. CASE VerifyStopped(d, s)
    <3>1. PICK pc \in {"finish", "fail"} : GoTo(d, s, pc) /\ (pc = "finish" => Gone(d))
      BY <2>5 DEF VerifyStopped
    <3> QED
      BY <2>5, <3>1, StopWalks DEF VerifyStopped, At, Safe, Tearing, Teardown, StopPc, Gone, processVars
  <2>6. CASE SetStopped(d, s)
    <3>1. Creating'
      <4>1. row' = row \/ row' = [row EXCEPT ![d] = "stopped"]
        BY <2>6 DEF SetStopped, Commits, CommitFails
      <4>2. PICK pc \in {"ok", "error"} : GoTo(d, s, pc)
        BY <2>6, Zenon DEF SetStopped
      <4>3. \A e \in Deployments, u \in Slots :
               stopPc'[e][u] = IF e = d /\ u = s THEN pc ELSE stopPc[e][u]
        BY <4>2, GoToMoves DEF StopPc
      <4>4. row[d] # "deploying" /\ stopPc[d][s] # "idle"
        BY <2>6 DEF SetStopped, At, Tearing, Teardown
      <4>5. UNCHANGED <<op, old, closing>>
        BY <2>6 DEF SetStopped, processVars
      <4> QED
        BY <4>1, <4>3, <4>4, <4>5 DEF Creating, Slots
    <3>2. Tearing'
      BY <2>6, GoToMoves DEF Creating, Tearing, Opening, Teardown, SetStopped, At, StopPc, Commits, CommitFails, Identifies, processVars, Slots
    <3>3. Known'
      BY <2>6, GoToMoves DEF Creating, Tearing, Known, Gone, Opening, Teardown, SetStopped, At, StopPc, Commits, CommitFails, Identifies, processVars, Slots
    <3> QED
      BY <3>1, <3>2, <3>3 DEF Safe
  <2>7. CASE StopMarkFailed(d, s)
    <3>1. Creating'
      BY <2>7, GoToMoves DEF Creating, Tearing, Teardown, Opening, StopMarkFailed, At, StopPc, Commits, CommitFails, Identifies, processVars, Slots
    <3>2. Tearing'
      <4>1. row' = row \/ row' = [row EXCEPT ![d] = "failed"]
        BY <2>7 DEF StopMarkFailed, Commits, CommitFails, Identifies
      <4>2. GoTo(d, s, "error") /\ UNCHANGED op
        BY <2>7 DEF StopMarkFailed
      <4>3. \A e \in Deployments, u \in Slots :
               stopPc'[e][u] = IF e = d /\ u = s THEN "error" ELSE stopPc[e][u]
        BY <4>2, GoToMoves DEF StopPc
      <4>4. stopPc[d][s] # "idle"
        BY <2>7 DEF StopMarkFailed, At
      <4> QED
        BY <4>1, <4>2, <4>3, <4>4 DEF Tearing, Teardown
    <3>3. Known'
      BY <2>7, GoToMoves, SMTT(60) DEF Creating, Tearing, Known, Gone, Opening, Teardown, StopMarkFailed, At, StopPc, Commits, CommitFails, Identifies, processVars, Slots
    <3> QED
      BY <3>1, <3>2, <3>3 DEF Safe
  <2>8. CASE StopReturn(d, s)
    <3> QED
      BY <2>8, StopWalks DEF StopReturn, At, Teardown, StopPc, Gone, processVars
  <2> QED
    BY <1>4, <2>1, <2>2, <2>3, <2>4, <2>5, <2>6, <2>7, <2>8 DEF StopStep
<1>5. ASSUME NEW d \in Deployments, MarkTargetUnavailable(d) PROVE Safe'
  <2>1. Creating'
    BY <1>5 DEF Creating, Opening, MarkTargetUnavailable, Commits, processVars, Slots
  <2>2. Tearing'
    BY <1>5 DEF Creating, Tearing, Opening, Teardown, MarkTargetUnavailable, Commits, processVars, Slots
  <2>3. Known'
    BY <1>5 DEF Creating, Tearing, Known, Gone, Opening, Teardown, MarkTargetUnavailable, Commits, processVars, Slots
  <2> QED
    BY <2>1, <2>2, <2>3 DEF Safe
<1>6. ASSUME NEW d \in Deployments, ProviderDrains(d) \/ ProviderExpires(d) PROVE Safe'
  <2>1. Creating'
    BY <1>6 DEF Creating, Opening, ProviderDrains, ProviderExpires, processVars, Slots
  <2>2. Tearing'
    BY <1>6 DEF Creating, Tearing, Opening, Teardown, ProviderDrains, ProviderExpires, processVars, Slots
  <2>3. Known'
    BY <1>6 DEF Creating, Tearing, Known, Gone, Opening, Teardown, ProviderDrains, ProviderExpires, processVars, Slots
  <2> QED
    BY <2>1, <2>2, <2>3 DEF Safe
<1>7. CASE BeginShutdown
  <2>1. Creating'
    BY <1>7 DEF Creating, Opening, BeginShutdown, processVars, Slots
  <2>2. Tearing'
    BY <1>7 DEF Creating, Tearing, Opening, Teardown, BeginShutdown, processVars, Slots
  <2>3. Known'
    BY <1>7 DEF Creating, Tearing, Known, Gone, Opening, Teardown, BeginShutdown, processVars, Slots
  <2> QED
    BY <2>1, <2>2, <2>3 DEF Safe
<1>8. CASE Freeze
  <2>1. Creating'
    BY <1>8 DEF Creating, Opening, Freeze
  <2>2. Tearing'
    BY <1>8 DEF Creating, Tearing, Opening, Teardown, Freeze
  <2>3. Known'
    BY <1>8 DEF Creating, Tearing, Known, Gone, Opening, Teardown, Freeze
  <2> QED
    BY <2>1, <2>2, <2>3 DEF Safe
<1>9. CASE Restart
  <2>1. Creating'
    BY <1>9 DEF Creating, Opening, Restart, processVars, Slots
  <2>2. Tearing'
    BY <1>9 DEF Creating, Tearing, Opening, Teardown, Restart, processVars, Slots
  <2>3. Known'
    BY <1>9 DEF Creating, Tearing, Known, Gone, Opening, Teardown, Restart, processVars, Slots
  <2> QED
    BY <2>1, <2>2, <2>3 DEF Safe
<1>10. CASE UNCHANGED vars
  <2>1. Creating'
    BY <1>10 DEF Creating, Opening, vars, processVars
  <2>2. Tearing'
    BY <1>10 DEF Creating, Tearing, Opening, Teardown, vars, processVars
  <2>3. Known'
    BY <1>10 DEF Creating, Tearing, Known, Gone, Opening, Teardown, vars, processVars
  <2> QED
    BY <2>1, <2>2, <2>3 DEF Safe
<1> QED
  BY <1>1, <1>2, <1>3, <1>4, <1>5, <1>6, <1>7, <1>8, <1>9, <1>10 DEF Next, Works

(* The invariant holds in every reachable state. *)
THEOREM Inductive == Spec => []IInv
  BY InitIInv, SafeStep, PTL DEF Spec

(* A row says "stopped" only when the provider runs nothing for it, however *)
(* stops, sweeps, failures and restarts interleave (_stop, _set_stopped).  *)
THEOREM TornDown == Spec => []StoppedIsTornDown
<1>1. IInv => StoppedIsTornDown
  BY DEF IInv, Safe, Known, StoppedIsTornDown
<1> QED
  BY <1>1, Inductive, PTL

(* No Stop and no sweep moves the row of a deployment still being created,  *)
(* until _set_running has been tried (_deploy, stop, the sweeps).          *)
THEOREM RowOwnership == Spec => []DeployOwnsItsRow
<1>1. IInv => DeployOwnsItsRow
  BY DEF IInv, Safe, Creating, Opening, DeployOwnsItsRow
<1> QED
  BY <1>1, Inductive, PTL

-----------------------------------------------------------------------------
(* The refinement of DeploymentLife. *)

(* What one step of the service may do to the rows and to the provider.    *)
RowMoves(d, from, to) ==
    /\ row[d] \in from
    /\ row' = [row EXCEPT ![d] = to]
    /\ app' = app

AppMoves(d, from, to) ==
    /\ row' = row
    /\ app[d] \in from
    /\ app' = [app EXCEPT ![d] = to]

Effect ==
    \/ UNCHANGED <<row, app>>
    \/ \E d \in Deployments :
        \/ RowMoves(d, {"absent"}, "created") \/ RowMoves(d, {"absent"}, "deploying")
        \/ RowMoves(d, {"deploying"}, "running")
        \/ RowMoves(d, {"deploying", "running", "failed"}, "stopping")
        \/ RowMoves(d, RowStatus \ {"absent"}, "failed")
        \/ Gone(d) /\ RowMoves(d, {"stopping", "failed", "stopped"}, "stopped")
        \/ row[d] = "deploying" /\ \E to \in AppState : AppMoves(d, AppState, to)
        \/ AppMoves(d, {"running", "draining"}, "draining")
        \/ AppMoves(d, {"running", "draining"}, "stopped")

(* Every step does to rows and apps no more than Effect says. *)
LEMMA StepEffect == IInv /\ [Next]_vars => Effect
<1> SUFFICES ASSUME IInv, [Next]_vars PROVE Effect
  OBVIOUS
<1> USE DEF IInv, Effect, RowMoves, AppMoves, TypeOK, Commits, CommitFails, Identifies
<1>1. ASSUME NEW d \in Deployments, DeployBegin(d) PROVE Effect
  BY <1>1 DEF DeployBegin
<1>2. ASSUME NEW d \in Deployments, DeployStep(d) PROVE Effect
  <2>1. CASE TargetDeploy(d)
    <3>1. row[d] = "deploying" /\ app[d] \in AppState /\ row' = row
      BY <2>1 DEF TargetDeploy, Safe, Creating, Opening
    <3>2. \E to \in AppState : app' = [app EXCEPT ![d] = to]
      BY <2>1 DEF TargetDeploy, AppState
    <3> QED
      BY <3>1, <3>2
  <2>2. CASE PersistHandle(d)
    BY <2>2 DEF PersistHandle
  <2>3. CASE HealthCheck(d) \/ InspectRunning(d)
    BY <2>3 DEF HealthCheck, InspectRunning, Probe, Answers
  <2>4. CASE SetRunning(d)
    BY <2>4 DEF SetRunning, MaybeUndo, Safe, Creating
  <2>5. CASE RecoverHandle(d)
    BY <2>5 DEF RecoverHandle
  <2>6. CASE CompensatingStop(d)
    BY <2>6 DEF CompensatingStop, Stopping
  <2>7. CASE DeployMarkFailed(d)
    BY <2>7 DEF DeployMarkFailed, Safe, Creating
  <2> QED
    BY <1>2, <2>1, <2>2, <2>3, <2>4, <2>5, <2>6, <2>7 DEF DeployStep
<1>3. ASSUME NEW d \in Deployments, Request(d) PROVE Effect
  BY <1>3 DEF Request, ClientStop, WatchdogStop, StartupSweep, ShutdownSweep, SweepStops, StopFailedIfActive, RequestStop
<1>4. ASSUME NEW d \in Deployments, NEW s \in Slots, StopStep(d, s) PROVE Effect
  <2>1. CASE StopLoad(d, s)
    <3>1. \/ row' = row
          \/ /\ row[d] \in {"absent", "deploying", "running", "failed"}
             /\ row' = [row EXCEPT ![d] = "stopping"]
      BY <2>1 DEF StopLoad, Refuses, RowStatus
    <3>2. row[d] # "absent" /\ app' = app
      BY <2>1 DEF StopLoad, Refuses, Safe, Tearing, At
    <3> QED
      BY <3>1, <3>2
  <2>2. CASE StopResolve(d, s)
    BY <2>2 DEF StopResolve
  <2>3. CASE ConfirmAbsence(d, s)
    BY <2>3 DEF ConfirmAbsence
  <2>4. CASE TargetStop(d, s)
    BY <2>4 DEF TargetStop, Stopping
  <2>5. CASE VerifyStopped(d, s)
    BY <2>5 DEF VerifyStopped
  <2>6. CASE SetStopped(d, s)
    <3>1. Gone(d) /\ row[d] \in {"stopping", "failed", "stopped"}
      BY <2>6 DEF SetStopped, At, Safe, Tearing, Known, Teardown
    <3> QED
      BY <2>6, <3>1 DEF SetStopped
  <2>7. CASE StopMarkFailed(d, s)
    <3>1. row[d] \in {"stopping", "failed", "stopped"}
      BY <2>7 DEF StopMarkFailed, At, Safe, Tearing, Teardown
    <3> QED
      BY <2>7, <3>1 DEF StopMarkFailed
  <2>8. CASE StopReturn(d, s)
    BY <2>8 DEF StopReturn
  <2> QED
    BY <1>4, <2>1, <2>2, <2>3, <2>4, <2>5, <2>6, <2>7, <2>8 DEF StopStep
<1>5. ASSUME NEW d \in Deployments, MarkTargetUnavailable(d) PROVE Effect
  BY <1>5 DEF MarkTargetUnavailable, RowStatus
<1>6. ASSUME NEW d \in Deployments, ProviderDrains(d) \/ ProviderExpires(d) PROVE Effect
  BY <1>6 DEF ProviderDrains, ProviderExpires
<1>7. CASE BeginShutdown \/ Freeze \/ Restart \/ UNCHANGED vars
  BY <1>7 DEF BeginShutdown, Freeze, Restart, vars
<1> QED
  BY <1>1, <1>2, <1>3, <1>4, <1>5, <1>6, <1>7 DEF Next, Works

(* What a cleanup has begun to take down is never taken for running again, *)
(* and what is down stays down (_set_stopped, _mark_failed, _set_running). *)
THEOREM Finality == Spec => StaysDown
<1> DEFINE Ending == {"stopping", "stopped", "failed"}
           Stays == \A d \in Deployments :
                        row[d] \in Ending => row'[d] \in Ending /\ (Gone(d) => Gone(d)')
<1>1. IInv /\ Effect => Stays
  BY DEF IInv, TypeOK, Effect, RowMoves, AppMoves, Gone
<1>2. IInv /\ [Next]_vars => [Stays]_vars
  BY <1>1, StepEffect
<1> QED
  BY <1>2, Inductive, PTL DEF Spec, StaysDown

(* Who has a stopped_at is down, whatever its status has become since.     *)
EndedSound ==
    \A d \in Deployments : ended[d] => Gone(d) /\ row[d] \in {"stopping", "stopped", "failed"}

(* stopped_at is written with a status only.                               *)
LEMMA StampStep ==
    [Next]_vars => \/ UNCHANGED ended
                   \/ \E d \in Deployments, status \in RowStatus : Commits(d, status)
<1> SUFFICES ASSUME [Next]_vars
             PROVE  \/ UNCHANGED ended
                    \/ \E d \in Deployments, status \in RowStatus : Commits(d, status)
  OBVIOUS
<1>1. ASSUME NEW d \in Deployments, Works(d)
      PROVE  UNCHANGED ended \/ \E status \in RowStatus : Commits(d, status)
  <2>1. CASE DeployBegin(d)
    BY <2>1 DEF DeployBegin, RowStatus
  <2>2. CASE DeployStep(d)
    <3>1. CASE SetRunning(d) \/ DeployMarkFailed(d)
      BY <3>1 DEF SetRunning, DeployMarkFailed, CommitFails, RowStatus
    <3>2. CASE ~(SetRunning(d) \/ DeployMarkFailed(d))
      BY <2>2, <3>2 DEF DeployStep, TargetDeploy, PersistHandle, HealthCheck, InspectRunning, Probe,
         RecoverHandle, CompensatingStop
    <3> QED BY <3>1, <3>2
  <2>3. CASE Request(d)
    BY <2>3 DEF Request, ClientStop, WatchdogStop, StartupSweep, ShutdownSweep, SweepStops,
       StopFailedIfActive, RequestStop
  <2>4. CASE MarkTargetUnavailable(d)
    BY <2>4 DEF MarkTargetUnavailable, RowStatus
  <2>5. ASSUME NEW s \in Slots, StopStep(d, s)
        PROVE  UNCHANGED ended \/ \E status \in RowStatus : Commits(d, status)
    <3>1. CASE StopLoad(d, s) \/ SetStopped(d, s) \/ StopMarkFailed(d, s)
      BY <3>1 DEF StopLoad, SetStopped, StopMarkFailed, CommitFails, RowStatus
    <3>2. CASE ~(StopLoad(d, s) \/ SetStopped(d, s) \/ StopMarkFailed(d, s))
      BY <2>5, <3>2 DEF StopStep, StopResolve, ConfirmAbsence, TargetStop, VerifyStopped, StopReturn
    <3> QED BY <3>1, <3>2
  <2> QED BY <1>1, <2>1, <2>2, <2>3, <2>4, <2>5 DEF Works
<1>2. CASE \E d \in Deployments : ProviderDrains(d) \/ ProviderExpires(d)
  BY <1>2 DEF ProviderDrains, ProviderExpires
<1>3. CASE BeginShutdown \/ Freeze \/ Restart \/ UNCHANGED vars
  BY <1>3 DEF BeginShutdown, Freeze, Restart, vars
<1> QED BY <1>1, <1>2, <1>3 DEF Next

(* An app the provider runs always has a row that a cleanup still selects. *)
THEOREM NothingForgotten == Spec => []NoOrphanApp
<1> DEFINE Ending == {"stopping", "stopped", "failed"}
           Stays == \A d \in Deployments :
                        row[d] \in Ending => row'[d] \in Ending /\ (Gone(d) => Gone(d)')
<1>1. Init => EndedSound
  BY DEF Init, EndedSound
<1>2. IInv /\ IInv' /\ EndedSound /\ [Next]_vars => EndedSound'
  <2> SUFFICES ASSUME IInv, IInv', EndedSound, [Next]_vars PROVE EndedSound'
    OBVIOUS
  <2>1. Stays
    BY StepEffect DEF IInv, TypeOK, Effect, RowMoves, AppMoves, Gone
  <2>2. CASE UNCHANGED ended
    BY <2>1, <2>2 DEF EndedSound
  <2>3. ASSUME NEW d \in Deployments, NEW status \in RowStatus, Commits(d, status)
        PROVE  EndedSound'
    <3>1. \A e \in Deployments : ended'[e] => ended[e] \/ (e = d /\ status = "stopped")
      BY <2>3 DEF Commits, IInv, TypeOK
    <3>2. status = "stopped" => row'[d] = "stopped" /\ Gone(d)'
      BY <2>3 DEF Commits, IInv, TypeOK, Safe, Known
    <3> QED BY <2>1, <3>1, <3>2 DEF EndedSound
  <2> QED BY <2>2, <2>3, StampStep
<1>3. IInv /\ EndedSound => NoOrphanApp
  BY DEF IInv, Safe, Known, TypeOK, EndedSound, NoOrphanApp, CleanupStatuses, RowStatus
<1> QED BY <1>1, <1>2, <1>3, Inductive, PTL DEF Spec

LifeOf == [d \in Deployments |-> Claim[row[d]]]
UpOf == [d \in Deployments |-> ~Gone(d)]

(* A row's move is a move of the promised lifecycle at that deployment,    *)
(* and nothing anywhere else.                                              *)
LEMMA RowRefines ==
    ASSUME TypeOK, NEW d \in Deployments, NEW from \in SUBSET RowStatus, NEW to \in RowStatus,
           RowMoves(d, from, to)
    PROVE  /\ LifeOf' = [LifeOf EXCEPT ![d] = Claim[to]]
           /\ LifeOf[d] = Claim[row[d]]
           /\ UpOf' = UpOf
<1>1. row' = [row EXCEPT ![d] = to] /\ app' = app
  BY DEF RowMoves
<1>2. UpOf' = UpOf
  BY <1>1 DEF UpOf, Gone
<1>3. LifeOf' = [LifeOf EXCEPT ![d] = Claim[to]]
  BY <1>1 DEF LifeOf, TypeOK
<1> QED
  BY <1>2, <1>3 DEF LifeOf

(* A move of the provider leaves every claim alone and moves one app. *)
LEMMA AppRefines ==
    ASSUME TypeOK, NEW d \in Deployments, NEW from \in SUBSET AppState, NEW to \in AppState,
           AppMoves(d, from, to)
    PROVE  /\ LifeOf' = LifeOf
           /\ UpOf' = [UpOf EXCEPT ![d] = to \notin {"absent", "stopped"}]
           /\ UpOf[d] = (app[d] \notin {"absent", "stopped"})
<1>1. app' = [app EXCEPT ![d] = to] /\ row' = row
  BY DEF AppMoves
<1>2. LifeOf' = LifeOf
  BY <1>1 DEF LifeOf
<1>3. UpOf' = [UpOf EXCEPT ![d] = to \notin {"absent", "stopped"}]
  BY <1>1 DEF UpOf, Gone, TypeOK
<1> QED
  BY <1>2, <1>3 DEF UpOf, Gone

(* So a row's move from one set of claims is a Claims step. *)
LEMMA ClaimsRefine ==
    ASSUME TypeOK, NEW d \in Deployments, NEW from \in SUBSET RowStatus, NEW to \in RowStatus,
           RowMoves(d, from, to), NEW before, Claim[row[d]] \in before
    PROVE  Life!Claims(d, before, Claim[to])
  BY RowRefines DEF Life!Claims, LifeOf, UpOf

(* Each such effect is a step of the promised lifecycle or stutters. *)
LEMMA EffectRefines == IInv /\ Effect => [Life!Next]_(Life!lifeVars)
<1> SUFFICES ASSUME IInv, Effect PROVE Life!Next \/ UNCHANGED <<LifeOf, UpOf>>
  BY DEF Life!lifeVars, LifeOf, UpOf
<1> USE DEF IInv
<1>1. CASE UNCHANGED <<row, app>>
  BY <1>1 DEF LifeOf, UpOf, Gone
<1>2. ASSUME NEW d \in Deployments,
             RowMoves(d, {"absent"}, "created") \/ RowMoves(d, {"absent"}, "deploying")
      PROVE  Life!Open(d)
  BY <1>2, ClaimsRefine DEF RowMoves, RowStatus, Claim, Life!Open
<1>3. ASSUME NEW d \in Deployments, RowMoves(d, {"deploying"}, "running")
      PROVE  Life!Serve(d)
  <2>1. Claim[row[d]] \in {"opening"}
    BY <1>3 DEF RowMoves, Claim
  <2>2. Life!Claims(d, {"opening"}, Claim["running"])
    BY <1>3, <2>1, ClaimsRefine DEF RowStatus
  <2> QED
    BY <2>2 DEF Claim, Life!Serve
<1>4. ASSUME NEW d \in Deployments, RowMoves(d, {"deploying", "running", "failed"}, "stopping")
      PROVE  Life!Close(d)
  <2>1. Claim[row[d]] \in {"opening", "serving", "broken"}
    BY <1>4 DEF RowMoves, Claim
  <2>2. Life!Claims(d, {"opening", "serving", "broken"}, Claim["stopping"])
    BY <1>4, <2>1, ClaimsRefine DEF RowStatus
  <2> QED
    BY <2>2 DEF Claim, Life!Close
<1>5. ASSUME NEW d \in Deployments,
             RowMoves(d, RowStatus \ {"absent"}, "failed")
      PROVE  Life!Break(d) \/ UNCHANGED <<LifeOf, UpOf>>
  <2>1. CASE row[d] = "failed"
    BY <1>5, <2>1 DEF RowMoves, TypeOK, LifeOf, UpOf, Gone
  <2>2. CASE row[d] # "failed"
    <3>1. Claim[row[d]] \in {"opening", "serving", "closing", "closed"}
      BY <1>5, <2>2 DEF RowMoves, Claim, RowStatus
    <3>2. Life!Claims(d, {"opening", "serving", "closing", "closed"}, Claim["failed"])
      BY <1>5, <3>1, ClaimsRefine DEF RowStatus
    <3> QED
      BY <3>2 DEF Claim, Life!Break
  <2> QED
    BY <2>1, <2>2
<1>6. ASSUME NEW d \in Deployments, Gone(d),
             RowMoves(d, {"stopping", "failed", "stopped"}, "stopped")
      PROVE  Life!Closed(d) \/ UNCHANGED <<LifeOf, UpOf>>
  <2>1. CASE row[d] = "stopped"
    BY <1>6, <2>1 DEF RowMoves, TypeOK, LifeOf, UpOf, Gone
  <2>2. CASE row[d] # "stopped"
    <3>1. Claim[row[d]] \in {"closing", "broken"}
      BY <1>6, <2>2 DEF RowMoves, Claim
    <3>2. Life!Claims(d, {"closing", "broken"}, Claim["stopped"])
      BY <1>6, <3>1, ClaimsRefine DEF RowStatus
    <3> QED
      BY <1>6, <3>2 DEF Claim, Life!Closed
  <2> QED
    BY <2>1, <2>2
<1>7. ASSUME NEW d \in Deployments, row[d] = "deploying",
             NEW to \in AppState, AppMoves(d, AppState, to)
      PROVE  Life!ComeUp(d) \/ Life!GoDown(d) \/ UNCHANGED <<LifeOf, UpOf>>
  <2>1. PICK now \in BOOLEAN : LifeOf' = LifeOf /\ UpOf' = [UpOf EXCEPT ![d] = now]
    BY <1>7, AppRefines
  <2>2. LifeOf[d] = "opening"
    BY <1>7 DEF LifeOf, Claim
  <2>3. CASE UpOf[d] = now
    BY <2>1, <2>3 DEF UpOf
  <2>4. CASE now /\ ~UpOf[d]
    BY <2>1, <2>2, <2>4 DEF UpOf, LifeOf, Life!ComeUp
  <2>5. CASE ~now /\ UpOf[d]
    BY <2>1, <2>5 DEF UpOf, LifeOf, Life!GoDown
  <2>6. UpOf[d] \in BOOLEAN
    BY DEF UpOf, Gone
  <2> QED
    BY <2>3, <2>4, <2>5, <2>6
<1>8. ASSUME NEW d \in Deployments, AppMoves(d, {"running", "draining"}, "draining")
      PROVE  UNCHANGED <<LifeOf, UpOf>>
  <2>1. LifeOf' = LifeOf /\ UpOf' = [UpOf EXCEPT ![d] = TRUE] /\ UpOf[d] = TRUE
    BY <1>8, AppRefines DEF AppState, AppMoves
  <2> QED
    BY <2>1 DEF UpOf
<1>9. ASSUME NEW d \in Deployments, AppMoves(d, {"running", "draining"}, "stopped")
      PROVE  Life!GoDown(d)
  <2>1. LifeOf' = LifeOf /\ UpOf' = [UpOf EXCEPT ![d] = FALSE] /\ UpOf[d] = TRUE
    BY <1>9, AppRefines DEF AppState, AppMoves
  <2> QED
    BY <2>1 DEF UpOf, LifeOf, Life!GoDown
<1> QED
  BY <1>1, <1>2, <1>3, <1>4, <1>5, <1>6, <1>7, <1>8, <1>9 DEF Effect, Life!Next

(* The service implements the lifecycle it promises.                       *)
THEOREM Refinement == Spec => ImplementsLife
<1>1. Init => Life!Init
  <2> SUFFICES ASSUME Init PROVE Life!Init
    OBVIOUS
  <2>1. \A d \in Deployments : Claim[row[d]] = "none" /\ Gone(d)
    BY DEF Init, Claim, Gone
  <2> QED
    BY <2>1 DEF Life!Init
<1>2. IInv /\ [Next]_vars => [Life!Next]_(Life!lifeVars)
  BY StepEffect, EffectRefines
<1> QED
  BY <1>1, <1>2, Inductive, PTL DEF Spec, ImplementsLife, Life!Spec

=============================================================================
