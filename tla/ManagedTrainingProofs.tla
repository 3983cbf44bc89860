------------------------- MODULE ManagedTrainingProofs -------------------------
(***************************************************************************)
(* For any number of jobs, and any number of failures and restarts: a      *)
(* row's success is verified and its running call is named, the manager    *)
(* implements TrainingJob, and a shutdown leaves a healthy job alone.      *)
(*                                                                         *)
(* For a training of any length, any schedule of metrics and checkpoints,  *)
(* any limits on queue, log and page, and any reports of an external       *)
(* trainer (TrainingEvents): no loss between the training and the run goes *)
(* untold, the output is whole, and what a trainer was told is kept.       *)
(***************************************************************************)
EXTENDS ManagedTraining, TrainingEvents, FiniteSetTheorems, NaturalsInduction,
        WellFoundedInduction, SequenceTheorems, TLAPS

Rows == [status : Statuses, outcome : Outcomes, ids : {"none", "app", "call"},
         started : BOOLEAN, output : BOOLEAN]
AppStates == {"absent", "stopped"} \cup Listed
Verdicts == {"none", "succeeded", "failed", "cancelled"}

JobOK == job \in [Jobs -> Rows]
LateOK == late \in [Jobs -> BOOLEAN]
AppOK == app \in [Jobs -> AppStates]
FlightOK == flight \in [Jobs -> BOOLEAN]
VerdictOK == verdict \in [Jobs -> Verdicts]
SupOK == sup \in [Jobs -> Stages]
OrphanOK == orphan \in [Jobs -> BOOLEAN]
ProcessOK == /\ recon \in {"boot", "first", "retry", "pass", "done"}
             /\ sd \in {"up", "closing", "sweeping", "down"}
             /\ known \subseteq Jobs /\ troubles \in Nat

Typed == /\ JobOK /\ LateOK /\ AppOK /\ FlightOK /\ VerdictOK /\ SupOK /\ OrphanOK
         /\ ProcessOK

(* A row that was never written, one that says success, one that names its *)
(* App or its call.                                                        *)
RowSound(j) ==
    /\ job[j].status = "none" => Pending(j) /\ ~job[j].started
    /\ job[j].outcome = "succeeded" => job[j].output
    /\ job[j].status = "running" => job[j].ids = "call"
    /\ job[j].ids = "app" => ~Pending(j)

(* Where a supervisor stands, what it knows of the row and of the App.     *)
SupSound(j) ==
    /\ sup[j] \notin {"none", "ended", "resume"} => Active(j)
    /\ sup[j] \in {"seek", "seek2", "halt", "check"} => ~Pending(j)
    /\ sup[j] \in {"prepare", "launching"} /\ Pending(j) => job[j].status = "launching"
    /\ sup[j] = "inspect" => job[j].ids # "none"
    /\ sup[j] \in {"discover", "discover2"} /\ Pending(j) => job[j].ids = "none"
    /\ sup[j] = "verify" => verdict[j] # "none"

(* Whoever has a handle of the App has it from an App that was there; a    *)
(* launch under way belongs to an open job that marked it, and after the   *)
(* deadline to its supervisor.                                             *)
Handle(j) == \/ job[j].ids # "none" \/ orphan[j]
             \/ sup[j] \in {"halt", "check", "watch", "poll", "verify"}

AppSound(j) ==
    /\ Handle(j) => app[j] # "absent"
    /\ flight[j] => job[j].started
    /\ flight[j] /\ late[j] => sup[j] = "launching"
    /\ flight[j] /\ app[j] = "absent" => Active(j)
    /\ verdict[j] # "none" => app[j] \in {"over", "draining", "stopped"}

Sound(j) == RowSound(j) /\ SupSound(j) /\ AppSound(j)

IInv == Typed /\ \A j \in Jobs : Sound(j)

-----------------------------------------------------------------------------
(* A step of one job, and what a step may do to it *)

Local(j) ==
    \A k \in Jobs \ {j} :
        /\ job'[k] = job[k] /\ late'[k] = late[k] /\ app'[k] = app[k]
        /\ flight'[k] = flight[k] /\ verdict'[k] = verdict[k]
        /\ sup'[k] = sup[k] /\ orphan'[k] = orphan[k]

SamePromise(j) == /\ Phase(j)' = Phase(j) /\ job'[j].outcome = job[j].outcome
                  /\ Compute(j)' = Compute(j)
Accepts(j) == /\ Phase(j) = "none" /\ Phase(j)' = "open"
              /\ \A k \in Jobs \ {j} : Phase(k) \in {"none", "closed"}
              /\ job'[j].outcome = job[j].outcome /\ Compute(j)' = Compute(j)
Settled(j) == /\ Phase(j) = "open" /\ Phase(j)' = "settled"
              /\ job'[j].outcome \in {"succeeded", "failed", "cancelled"}
              /\ Compute(j)' = Compute(j)
Starts(j) == /\ Phase(j) \in {"open", "settled"} /\ Phase(j)' = Phase(j)
             /\ Compute(j) = "none" /\ Compute(j)' = "live"
             /\ job'[j].outcome = job[j].outcome
Stops(j) == /\ Phase(j)' = Phase(j) /\ job'[j].outcome = job[j].outcome
            /\ Compute(j) = "live" /\ Compute(j)' = "gone"
Closes(j) == /\ Phase(j) = "settled" /\ Phase(j)' = "closed" /\ Compute(j) # "live"
             /\ job'[j].outcome = job[j].outcome /\ Compute(j)' = Compute(j)

Promised(j) == \/ SamePromise(j) \/ Accepts(j) \/ Settled(j)
               \/ Starts(j) \/ Stops(j) \/ Closes(j)

JobStep == [Job!Next]_(Job!vars)

Kept(j) == Healthy(j) /\ sd # "up" /\ UNCHANGED troubles
               => app'[j] \in Called /\ job'[j].outcome = "pending"

Good == IInv' /\ JobStep /\ \A j \in Jobs : Kept(j)

PhaseOf == [j \in Jobs |-> Phase(j)]
ResultOf == [j \in Jobs |-> job[j].outcome]
ComputeOf == [j \in Jobs |-> Compute(j)]

LEMMA SameTypes ==
    ASSUME Typed
    PROVE  /\ UNCHANGED job => JobOK'
           /\ UNCHANGED late => LateOK'
           /\ UNCHANGED app => AppOK'
           /\ UNCHANGED flight => FlightOK'
           /\ UNCHANGED verdict => VerdictOK'
           /\ UNCHANGED sup => SupOK'
           /\ UNCHANGED orphan => OrphanOK'
           /\ UNCHANGED process /\ troubles' \in Nat => ProcessOK'
  BY DEF Typed, JobOK, LateOK, AppOK, FlightOK, VerdictOK, SupOK, OrphanOK, ProcessOK, process

LEMMA PromisedStep ==
    ASSUME NEW j \in Jobs, Local(j), Promised(j)
    PROVE  JobStep
  <1>1. /\ PhaseOf' = [PhaseOf EXCEPT ![j] = Phase(j)']
        /\ ResultOf' = [ResultOf EXCEPT ![j] = job'[j].outcome]
        /\ ComputeOf' = [ComputeOf EXCEPT ![j] = Compute(j)']
    <2>1. \A k \in Jobs \ {j} : /\ Phase(k)' = Phase(k) /\ job'[k].outcome = job[k].outcome
                                /\ Compute(k)' = Compute(k)
      BY DEF Local, Phase, Compute, Pending
    <2> QED BY <2>1 DEF PhaseOf, ResultOf, ComputeOf
  <1>2. \A k \in Jobs : /\ PhaseOf[k] = Phase(k) /\ ResultOf[k] = job[k].outcome
                        /\ ComputeOf[k] = Compute(k)
    BY DEF PhaseOf, ResultOf, ComputeOf
  <1>3. /\ (Phase(j)' = Phase(j) => PhaseOf' = PhaseOf)
        /\ (job'[j].outcome = job[j].outcome => ResultOf' = ResultOf)
        /\ (Compute(j)' = Compute(j) => ComputeOf' = ComputeOf)
    BY <1>1, <1>2 DEF PhaseOf, ResultOf, ComputeOf
  <1>4. SUFFICES Job!Next \/ UNCHANGED <<PhaseOf, ResultOf, ComputeOf>>
    BY DEF JobStep, Job!vars, PhaseOf, ResultOf, ComputeOf
  <1>5. CASE SamePromise(j)
    BY <1>3, <1>5 DEF SamePromise
  <1>6. CASE Accepts(j)
    <2>1. Job!Accept(j)
      BY <1>1, <1>2, <1>3, <1>6 DEF Accepts, Job!Accept, PhaseOf, ResultOf, ComputeOf
    <2> QED BY <2>1 DEF Job!Next
  <1>7. CASE Settled(j)
    <2>1. Job!Settle(j)
      BY <1>1, <1>2, <1>3, <1>7 DEF Settled, Job!Settle, PhaseOf, ResultOf, ComputeOf
    <2> QED BY <2>1 DEF Job!Next
  <1>8. CASE Starts(j)
    <2>1. Job!Start(j)
      BY <1>1, <1>2, <1>3, <1>8 DEF Starts, Job!Start, PhaseOf, ResultOf, ComputeOf
    <2> QED BY <2>1 DEF Job!Next
  <1>9. CASE Stops(j)
    <2>1. Job!End(j)
      BY <1>1, <1>2, <1>3, <1>9 DEF Stops, Job!End, PhaseOf, ResultOf, ComputeOf
    <2> QED BY <2>1 DEF Job!Next
  <1>10. CASE Closes(j)
    <2>1. Job!Close(j)
      BY <1>1, <1>2, <1>3, <1>10 DEF Closes, Job!Close, PhaseOf, ResultOf, ComputeOf
    <2> QED BY <2>1 DEF Job!Next
  <1> QED BY <1>5, <1>6, <1>7, <1>8, <1>9, <1>10 DEF Promised

LEMMA Moves ==
    ASSUME IInv, NEW j \in Jobs, Local(j), Typed', Sound(j)', Promised(j), Kept(j)
    PROVE  Good
  <1>1. ASSUME NEW k \in Jobs, k # j PROVE Sound(k)' /\ Kept(k)
    BY <1>1 DEF Local, IInv, Sound, RowSound, SupSound, AppSound, Handle, Pending, Active,
       Kept, Healthy, Called
  <1>2. IInv'
    BY <1>1 DEF IInv
  <1> QED BY <1>1, <1>2, PromisedStep DEF Good

(* A step of the manager that touches no row and no App.                   *)
LEMMA Manages ==
    ASSUME IInv, UNCHANGED <<job, late, app, verdict>>, Typed',
           \A j \in Jobs : SupSound(j)' /\ AppSound(j)'
    PROVE  Good
  <1>1. \A j \in Jobs : RowSound(j)'
    BY DEF IInv, Sound, RowSound, Pending
  <1>2. JobStep
    BY DEF JobStep, Job!vars, Phase, Compute, Pending
  <1>3. \A j \in Jobs : Kept(j)
    BY DEF Kept, Healthy, Called, Pending
  <1> QED BY <1>1, <1>2, <1>3 DEF Good, IInv, Sound

-----------------------------------------------------------------------------
(* What a supervisor writes, and where it goes *)

(* No launch is begun, and one given up is not left behind past the        *)
(* deadline.                                                               *)
FlightFalls(j) == /\ flight' \in {flight, [flight EXCEPT ![j] = FALSE]}
                  /\ flight'[j] /\ late[j] => sup'[j] = "launching"

LEMMA FlightStays ==
    ASSUME IInv, NEW j \in Jobs, sup[j] # "launching", UNCHANGED flight
    PROVE  FlightFalls(j)
  BY DEF IInv, Sound, AppSound, FlightFalls

(* The row of an active job is written, its supervisor goes on.            *)
LEMMA Rewrites ==
    ASSUME IInv, NEW j \in Jobs, Active(j), NEW row \in Rows, NEW stage \in Stages,
           job' = [job EXCEPT ![j] = row], sup' = [sup EXCEPT ![j] = stage],
           UNCHANGED <<late, app, verdict, process>>, FlightFalls(j), troubles' \in Nat,
           row.status \notin Terminal \cup {"none"},
           row.outcome = job[j].outcome \/ Pending(j),
           row.started = job[j].started,
           RowSound(j)', SupSound(j)', Handle(j)' => app[j] # "absent",
           row.outcome = job[j].outcome \/ sd = "up" \/ ~Healthy(j) \/ troubles' # troubles
    PROVE  Good
  <1>1. UNCHANGED <<late, app, verdict, orphan, recon, known, sd>>
    BY DEF process
  <1>2. /\ JobOK' /\ SupOK' /\ FlightOK'
        /\ job'[j] = row /\ sup'[j] = stage /\ (flight'[j] => flight[j])
    BY DEF IInv, Typed, JobOK, SupOK, FlightOK, FlightFalls
  <1>3. Typed'
    BY <1>1, <1>2, SameTypes DEF IInv, Typed
  <1>4. Local(j)
    BY <1>1 DEF Local, IInv, Typed, JobOK, SupOK, FlightOK, FlightFalls
  <1>5. Active(j)' /\ Pending(j) \in BOOLEAN /\ job[j] \in Rows
    BY <1>2 DEF Active, Pending, IInv, Typed, JobOK
  <1>6. AppSound(j)'
    BY <1>1, <1>2, <1>5 DEF AppSound, IInv, Sound, FlightFalls
  <1>7. Promised(j)
    <2>1. Compute(j)' = Compute(j)
      BY <1>1 DEF Compute
    <2>2. CASE row.outcome = job[j].outcome
      BY <1>2, <2>1, <2>2 DEF Promised, SamePromise, Phase, Active, Pending
    <2>3. CASE Pending(j) /\ row.outcome # "pending"
      <3>1. row.outcome \in {"succeeded", "failed", "cancelled"}
        BY <2>3 DEF Rows, Outcomes
      <3> QED BY <1>2, <2>1, <2>3, <3>1 DEF Promised, Settled, Phase, Active, Pending
    <2> QED BY <2>2, <2>3 DEF Pending
  <1>8. Kept(j)
    BY <1>1, <1>2 DEF Kept, Healthy, Called, Pending
  <1> QED BY <1>3, <1>4, <1>6, <1>7, <1>8, Moves DEF Sound

LEMMA Chooses ==
    ASSUME NEW row \in Rows, NEW outcome \in {"succeeded", "failed", "cancelled"}
    PROVE  /\ Chosen(row, outcome) \in Rows
           /\ Chosen(row, outcome).status \in {"cancelling", "finalizing"}
           /\ Chosen(row, outcome).outcome # "pending"
           /\ Chosen(row, outcome).outcome
                = IF row.outcome = "pending" THEN outcome ELSE row.outcome
           /\ Chosen(row, outcome).ids = row.ids /\ Chosen(row, outcome).started = row.started
           /\ Chosen(row, outcome).output = row.output
  BY DEF Chosen, Rows, Statuses, Terminal, Outcomes

LEMMA SettlesMoves ==
    ASSUME IInv, NEW j \in Jobs, Active(j), NEW handle \in BOOLEAN,
           NEW outcome \in {"failed", "cancelled"}, Settles(j, outcome, handle),
           handle => app[j] # "absent",
           UNCHANGED <<late, app, verdict, process>>, FlightFalls(j), troubles' \in Nat,
           sd = "up" \/ ~Healthy(j) \/ troubles' # troubles
    PROVE  Good
  <1> DEFINE row == Chosen(job[j], outcome)
             stage == IF handle \/ job[j].ids # "none" THEN "halt" ELSE "seek"
  <1>1. job' = [job EXCEPT ![j] = row] /\ sup' = [sup EXCEPT ![j] = stage] /\ stage \in Stages
    BY DEF Settles, Write, Cleans, GoTo, Stages
  <1>2. /\ row \in Rows /\ row.status \in {"cancelling", "finalizing"} /\ row.outcome # "pending"
        /\ row.outcome = (IF Pending(j) THEN outcome ELSE job[j].outcome)
        /\ row.ids = job[j].ids /\ row.started = job[j].started /\ row.output = job[j].output
    BY Chooses DEF IInv, Typed, JobOK, Pending
  <1>3. stage = "halt" => app[j] # "absent"
    BY DEF IInv, Sound, AppSound, Handle
  <1>4. stage \in {"halt", "seek"}
    OBVIOUS
  <1> HIDE DEF row, stage
  <1>5. job'[j] = row /\ sup'[j] = stage /\ orphan'[j] = orphan[j]
    BY <1>1 DEF IInv, Typed, JobOK, SupOK, process
  <1>6. RowSound(j)'
    BY <1>2, <1>5 DEF RowSound, Pending, IInv, Sound
  <1>7. SupSound(j)'
    BY <1>2, <1>4, <1>5 DEF SupSound, Pending, Active, Terminal
  <1>8. Handle(j)' => app[j] # "absent"
    BY <1>2, <1>3, <1>4, <1>5 DEF Handle, IInv, Sound, AppSound
  <1> QED BY <1>1, <1>2, <1>4, <1>6, <1>7, <1>8, Rewrites DEF Terminal

(* The supervisor goes on, the row stays as it is.                         *)
LEMMA Turns ==
    ASSUME IInv, NEW j \in Jobs, Active(j), NEW stage \in Stages,
           UNCHANGED job, GoTo(j, stage),
           UNCHANGED <<late, app, verdict, process>>, FlightFalls(j), troubles' \in Nat,
           SupSound(j)',
           stage \in {"halt", "check", "watch", "poll", "verify"} => app[j] # "absent"
    PROVE  Good
  <1>1. job' = [job EXCEPT ![j] = job[j]] /\ job[j] \in Rows
    BY DEF IInv, Typed, JobOK
  <1>2. sup' = [sup EXCEPT ![j] = stage] /\ sup'[j] = stage /\ orphan'[j] = orphan[j]
    BY DEF GoTo, IInv, Typed, SupOK, process
  <1>3. RowSound(j)' /\ job[j].status \notin Terminal \cup {"none"}
    BY DEF IInv, Sound, RowSound, Pending, Active
  <1>4. Handle(j)' => app[j] # "absent"
    BY <1>2 DEF Handle, IInv, Sound, AppSound
  <1> QED BY <1>1, <1>2, <1>3, <1>4, Rewrites

LEMMA EndsMoves ==
    ASSUME IInv, NEW j \in Jobs, Active(j), UNCHANGED job, Ends(j),
           UNCHANGED <<late, app, verdict, process>>, FlightFalls(j), troubles' \in Nat
    PROVE  Good
  <1>1. PICK stage \in {"ended", "none"} : GoTo(j, stage)
    BY DEF Ends
  <1>2. stage \in Stages /\ sup'[j] = stage
    BY <1>1 DEF Stages, GoTo, IInv, Typed, SupOK
  <1>3. SupSound(j)'
    BY <1>2 DEF SupSound
  <1> QED BY <1>1, <1>2, <1>3, Turns

LEMMA Spends == ASSUME IInv, NEW n \in Nat, Spend(n)
                PROVE  troubles' \in Nat /\ (n > 0 => troubles' # troubles)
  BY DEF Spend, IInv, Typed, ProcessOK

LEMMA FailsMoves ==
    ASSUME IInv, NEW j \in Jobs, Active(j), NEW handle \in BOOLEAN, NEW n \in Nat,
           Fails(j, handle, n), handle => app[j] # "absent",
           UNCHANGED <<late, app, verdict, process>>, FlightFalls(j),
           n > 0 \/ sd = "up" \/ ~Healthy(j)
    PROVE  Good
  <1>1. CASE Spend(n) /\ Settles(j, "failed", handle)
    BY <1>1, Spends, SettlesMoves
  <1>2. CASE Spend(n + 1) /\ GoTo(j, "emergency") /\ UNCHANGED job
    <2>1. troubles' \in Nat
      BY <1>2, Spends
    <2>2. sup'[j] = "emergency" /\ SupSound(j)' /\ "emergency" \in Stages
      BY <1>2 DEF GoTo, SupSound, Active, Stages, IInv, Typed, SupOK
    <2> QED BY <1>2, <2>1, <2>2, Turns
  <1> QED BY <1>1, <1>2 DEF Fails

LEMMA FailsOnce ==
    ASSUME IInv, NEW j \in Jobs, Active(j), NEW handle \in BOOLEAN, Fails(j, handle, 1),
           handle => app[j] # "absent",
           UNCHANGED <<late, app, verdict, process>>, FlightFalls(j)
    PROVE  Good
  <1> DEFINE n == 1
  <1>1. n \in Nat /\ n > 0 /\ Fails(j, handle, n)
    OBVIOUS
  <1> HIDE DEF n
  <1> QED BY <1>1, FailsMoves

LEMMA BreaksMoves ==
    ASSUME IInv, NEW j \in Jobs, Active(j), NEW handle \in BOOLEAN, Breaks(j, handle),
           handle => app[j] # "absent",
           UNCHANGED <<late, app, verdict, process>>, FlightFalls(j)
    PROVE  Good
  <1>1. CASE Fails(j, handle, 1)
    BY <1>1, FailsOnce
  <1>2. CASE Spend(1) /\ Ends(j) /\ UNCHANGED job
    BY <1>2, Spends, EndsMoves
  <1> QED BY <1>1, <1>2 DEF Breaks

LEMMA CleansMoves ==
    ASSUME IInv, NEW j \in Jobs, Active(j), ~Pending(j), Cleans(j, FALSE), UNCHANGED job,
           UNCHANGED <<late, app, verdict, process>>, FlightFalls(j), troubles' \in Nat
    PROVE  Good
  <1>1. PICK stage \in {"halt", "seek"} : GoTo(j, stage) /\ (stage = "halt" => job[j].ids # "none")
    BY DEF Cleans
  <1>2. stage \in Stages /\ sup'[j] = stage
    BY <1>1 DEF Stages, GoTo, IInv, Typed, SupOK
  <1>3. SupSound(j)' /\ (stage = "halt" => app[j] # "absent")
    BY <1>1, <1>2 DEF SupSound, Pending, Active, IInv, Sound, AppSound, Handle
  <1> QED BY <1>1, <1>2, <1>3, Turns

-----------------------------------------------------------------------------
(* Requests and launches *)

LEMMA CreateGood == ASSUME IInv, NEW j \in Jobs, Create(j) PROVE Good
  <1>1. /\ job' = [job EXCEPT ![j] = [Blank EXCEPT !.status = "created"]]
        /\ sup' = [sup EXCEPT ![j] = "launch"]
        /\ UNCHANGED <<late, app, flight, verdict, orphan, recon, known, sd, troubles>>
        /\ job[j].status = "none" /\ sd = "up"
        /\ \A k \in Jobs : ~Active(k)
    BY DEF Create, Write, GoTo, provider, process, Serving
  <1>2. /\ JobOK' /\ SupOK' /\ sup'[j] = "launch"
        /\ job'[j].status = "created" /\ job'[j].outcome = "pending" /\ job'[j].ids = "none"
        /\ ~job'[j].started
    BY <1>1 DEF IInv, Typed, JobOK, SupOK, Blank, Rows, Statuses, Outcomes, Terminal, Stages
  <1>3. Typed'
    BY <1>1, <1>2, SameTypes DEF IInv, Typed, process, ProcessOK
  <1>4. Local(j)
    BY <1>1 DEF Local, IInv, Typed, JobOK, SupOK
  <1>5. /\ job[j].outcome = "pending" /\ ~flight[j] /\ (orphan[j] => app[j] # "absent")
    BY <1>1 DEF IInv, Sound, RowSound, AppSound, Handle, Pending
  <1>6. Sound(j)'
    BY <1>1, <1>2, <1>5 DEF Sound, RowSound, SupSound, AppSound, Handle, Pending, Active,
       Terminal, IInv
  <1>7. Promised(j)
    <2>1. Phase(j) = "none" /\ Phase(j)' = "open" /\ Compute(j)' = Compute(j)
      BY <1>1, <1>2 DEF Phase, Compute, Terminal, Pending
    <2>2. \A k \in Jobs : Phase(k) \in {"none", "closed"}
      BY <1>1 DEF Phase, Active
    <2> QED BY <1>2, <1>5, <2>1, <2>2 DEF Promised, Accepts
  <1>8. Kept(j)
    BY <1>1 DEF Kept
  <1> QED BY <1>3, <1>4, <1>6, <1>7, <1>8, Moves

LEMMA CancelGood == ASSUME IInv, NEW j \in Jobs, Cancel(j) PROVE Good
  <1> DEFINE row == IF Pending(j) THEN Chosen(job[j], "cancelled") ELSE job[j]
  <1>1. /\ UNCHANGED <<late, app, flight, verdict, process, troubles>>
        /\ Active(j) /\ sd = "up" /\ job[j] \in Rows /\ troubles' \in Nat
    BY DEF Cancel, Serving, provider, IInv, Typed, JobOK, ProcessOK
  <1>2. job' = [job EXCEPT ![j] = row]
    BY DEF Cancel, Write, IInv, Typed, JobOK
  <1>3. PICK stage \in Stages : /\ sup' = [sup EXCEPT ![j] = stage]
                                /\ stage = sup[j] \/ (stage = "resume" /\ sup[j] # "launching")
    BY DEF Cancel, Schedules, GoTo, IInv, Typed, SupOK, Stages
  <1>4. /\ row \in Rows /\ row.outcome # "pending" /\ row.status \notin Terminal \cup {"none"}
        /\ (row.outcome = "succeeded" => job[j].outcome = "succeeded")
        /\ row.outcome = job[j].outcome \/ Pending(j)
        /\ row.ids = job[j].ids /\ row.started = job[j].started /\ row.output = job[j].output
        /\ row.status = "running" => job[j].status = "running"
    <2>1. CASE Pending(j)
      BY <1>1, <2>1, Chooses DEF Pending, Terminal
    <2>2. CASE ~Pending(j)
      BY <1>1, <2>2 DEF Pending, Active
    <2> QED BY <2>1, <2>2
  <1> HIDE DEF row
  <1>5. job'[j] = row /\ sup'[j] = stage /\ UNCHANGED <<orphan, verdict>>
    BY <1>1, <1>2, <1>3 DEF IInv, Typed, JobOK, SupOK, process
  <1>6. RowSound(j)'
    BY <1>4, <1>5 DEF RowSound, Pending, IInv, Sound
  <1>7. SupSound(j)'
    BY <1>3, <1>4, <1>5 DEF SupSound, Pending, Active, IInv, Sound
  <1>8. (Handle(j)' => app[j] # "absent") /\ FlightFalls(j)
    BY <1>1, <1>3, <1>4, <1>5 DEF Handle, IInv, Sound, AppSound, FlightFalls
  <1> QED BY <1>1, <1>2, <1>3, <1>4, <1>6, <1>7, <1>8, Rewrites

LEMMA LaunchBeginsGood == ASSUME IInv, NEW j \in Jobs, LaunchBegins(j) PROVE Good
  <1>1. /\ UNCHANGED <<late, app, flight, verdict, process>> /\ sup[j] = "launch"
        /\ Active(j) /\ job[j] \in Rows /\ FlightFalls(j) /\ troubles \in Nat
    BY FlightStays DEF LaunchBegins, provider, IInv, Sound, SupSound, Typed, JobOK, ProcessOK
  <1>2. CASE GoTo(j, "resume") /\ UNCHANGED <<job, troubles>>
    <2>1. SupSound(j)' /\ "resume" \in Stages
      BY <1>2 DEF GoTo, SupSound, IInv, Typed, SupOK, Stages
    <2> QED BY <1>1, <1>2, <2>1, Turns
  <1>3. ASSUME job[j].status = "created", Write(j, Claimed(job[j])),
               NEW stage \in {"prepare", "ended", "none"}, GoTo(j, stage), troubles' \in Nat
        PROVE  Good
    <2> DEFINE row == Claimed(job[j])
    <2>1. /\ row \in Rows /\ row.status = "launching" /\ row.outcome = job[j].outcome
          /\ row.ids = job[j].ids /\ row.started = job[j].started /\ row.output = job[j].output
      BY <1>1 DEF Claimed, Rows, Statuses
    <2>2. job' = [job EXCEPT ![j] = row] /\ sup' = [sup EXCEPT ![j] = stage] /\ stage \in Stages
      BY <1>3 DEF Write, GoTo, Stages
    <2> HIDE DEF row
    <2>3. job'[j] = row /\ sup'[j] = stage /\ UNCHANGED <<orphan, verdict>>
      BY <1>1, <2>2 DEF IInv, Typed, JobOK, SupOK, process
    <2>4. RowSound(j)' /\ SupSound(j)' /\ (Handle(j)' => app[j] # "absent")
      BY <2>1, <2>3 DEF RowSound, SupSound, Handle, Pending, Active, Terminal, IInv, Sound, AppSound
    <2> QED BY <1>1, <1>3, <2>1, <2>2, <2>4, Rewrites DEF Terminal
  <1>4. CASE job[j].status = "created" /\ Settles(j, "cancelled", FALSE) /\ UNCHANGED troubles
    BY <1>1, <1>4, SettlesMoves DEF Healthy
  <1>5. CASE Fails(j, FALSE, 1)
    BY <1>1, <1>5, FailsOnce
  <1>6. CASE job[j].status = "created" /\ Spend(1) /\ Write(j, Claimed(job[j])) /\ Ends(j)
    BY <1>3, <1>6, Spends DEF Ends
  <1>7. CASE /\ job[j].status = "created" /\ Write(j, Claimed(job[j]))
             /\ GoTo(j, "prepare") /\ UNCHANGED troubles
    BY <1>1, <1>3, <1>7
  <1> QED BY <1>2, <1>4, <1>5, <1>6, <1>7 DEF LaunchBegins

(* The one step that puts requests of a launch on their way.               *)
LEMMA PreparesGood == ASSUME IInv, NEW j \in Jobs, Prepares(j) PROVE Good
  <1>1. /\ UNCHANGED <<late, app, verdict, process>> /\ sup[j] = "prepare"
        /\ Active(j) /\ job[j] \in Rows /\ troubles \in Nat
        /\ (Pending(j) => job[j].status = "launching") /\ (UNCHANGED flight => FlightFalls(j))
    BY FlightStays DEF Prepares, IInv, Sound, SupSound, Typed, JobOK, ProcessOK
  <1>2. CASE /\ Pending(j) /\ sd = "up" /\ ~late[j]
             /\ Write(j, Started(job[j])) /\ GoTo(j, "launching")
             /\ flight' = [flight EXCEPT ![j] = TRUE] /\ UNCHANGED troubles
    <2> DEFINE row == Started(job[j])
    <2>1. /\ row \in Rows /\ row.status = "launching" /\ row.outcome = "pending" /\ row.started
          /\ row.ids = job[j].ids /\ job[j].outcome = "pending"
      BY <1>1, <1>2 DEF Started, Rows, Pending
    <2>2. job' = [job EXCEPT ![j] = row] /\ sup' = [sup EXCEPT ![j] = "launching"]
      BY <1>2 DEF Write, GoTo
    <2> HIDE DEF row
    <2>3. /\ JobOK' /\ SupOK' /\ FlightOK' /\ job'[j] = row /\ sup'[j] = "launching"
          /\ UNCHANGED <<orphan, late, app, verdict>>
      BY <1>1, <1>2, <2>1, <2>2 DEF IInv, Typed, JobOK, SupOK, FlightOK, process, Stages
    <2>4. Typed'
      BY <1>1, <1>2, <2>3, SameTypes DEF IInv, Typed
    <2>5. Local(j)
      BY <1>2, <2>2, <2>3 DEF Local, IInv, Typed, JobOK, SupOK, FlightOK
    <2>6. Sound(j)'
      BY <2>1, <2>3 DEF Sound, RowSound, SupSound, AppSound, Handle, Pending, Active,
         Terminal, IInv
    <2>7. SamePromise(j)
      BY <1>1, <1>2, <2>1, <2>3 DEF SamePromise, Phase, Compute, Pending, Terminal
    <2>8. Kept(j)
      BY <1>2 DEF Kept
    <2> QED BY <2>4, <2>5, <2>6, <2>7, <2>8, Moves DEF Promised
  <1>3. CASE ~Pending(j) /\ Cleans(j, FALSE) /\ UNCHANGED <<job, flight, troubles>>
    BY <1>1, <1>3, CleansMoves
  <1>4. CASE Pending(j) /\ UNCHANGED <<flight, troubles>> /\ Settles(j, "cancelled", FALSE)
    BY <1>1, <1>4, SettlesMoves DEF Healthy
  <1>5. CASE UNCHANGED flight /\ Spend(1) /\ Ends(j) /\ UNCHANGED job
    BY <1>1, <1>5, Spends, EndsMoves
  <1>6. CASE sd = "up" /\ Fails(j, FALSE, 0) /\ UNCHANGED flight
    BY <1>1, <1>6, FailsMoves
  <1>7. CASE Fails(j, FALSE, 1) /\ UNCHANGED flight
    BY <1>1, <1>7, FailsOnce
  <1> QED BY <1>2, <1>3, <1>4, <1>5, <1>6, <1>7 DEF Prepares

LEMMA LaunchReturnsGood == ASSUME IInv, NEW j \in Jobs, LaunchReturns(j) PROVE Good
  <1>1. /\ UNCHANGED <<late, app, verdict, process>> /\ sup[j] = "launching"
        /\ Active(j) /\ job[j] \in Rows /\ troubles \in Nat /\ app[j] # "absent"
        /\ flight' = [flight EXCEPT ![j] = FALSE] /\ FlightFalls(j)
    BY DEF LaunchReturns, IInv, Sound, SupSound, Typed, JobOK, ProcessOK, Called, FlightFalls,
       FlightOK
  <1>2. CASE Fails(j, TRUE, 1)
    BY <1>1, <1>2, FailsOnce
  <1>3. CASE /\ Write(j, Handled(job[j])) /\ UNCHANGED troubles
             /\ IF Pending(j) THEN GoTo(j, "watch") ELSE GoTo(j, "halt")
    <2> DEFINE row == Handled(job[j])
               stage == IF Pending(j) THEN "watch" ELSE "halt"
    <2>1. /\ row \in Rows /\ row.status \notin Terminal \cup {"none"} /\ row.ids = "call"
          /\ row.outcome = job[j].outcome /\ row.started = job[j].started
          /\ row.output = job[j].output
      BY <1>1 DEF Handled, Rows, Statuses, Terminal, Active
    <2>2. /\ job' = [job EXCEPT ![j] = row] /\ sup' = [sup EXCEPT ![j] = stage]
          /\ stage \in Stages /\ stage \in {"watch", "halt"} /\ (stage = "halt" => ~Pending(j))
      BY <1>3 DEF Write, GoTo, Stages
    <2> HIDE DEF row, stage
    <2>3. job'[j] = row /\ sup'[j] = stage
      BY <2>2 DEF IInv, Typed, JobOK, SupOK
    <2>4. RowSound(j)' /\ SupSound(j)'
      BY <2>1, <2>2, <2>3 DEF RowSound, SupSound, Pending, Active, IInv, Sound
    <2> QED BY <1>1, <1>3, <2>1, <2>2, <2>4, Rewrites
  <1> QED BY <1>2, <1>3 DEF LaunchReturns

LEMMA LaunchFailsGood == ASSUME IInv, NEW j \in Jobs, LaunchFails(j) PROVE Good
  <1>1. /\ UNCHANGED <<late, app, verdict, process>> /\ sup[j] = "launching"
        /\ Active(j) /\ ~Healthy(j) /\ FlightFalls(j)
    BY DEF LaunchFails, IInv, Sound, SupSound, Healthy, FlightFalls
  <1>2. PICK n \in Nat : Fails(j, FALSE, n)
    BY DEF LaunchFails
  <1> QED BY <1>1, <1>2, FailsMoves

-----------------------------------------------------------------------------
(* Resuming and monitoring *)

(* A task ends or is begun anew.                                           *)
LEMMA Reruns ==
    ASSUME IInv, NEW j \in Jobs, sup[j] # "launching", NEW stage \in {"none", "ended", "resume"},
           GoTo(j, stage), UNCHANGED <<job, late, provider, process>>, troubles' \in Nat
    PROVE  Good
  <1>1. /\ UNCHANGED <<job, late, app, flight, verdict, orphan, process>>
        /\ SupOK' /\ sup'[j] = stage /\ \A k \in Jobs \ {j} : sup'[k] = sup[k]
    BY DEF GoTo, provider, process, IInv, Typed, SupOK, Stages
  <1>2. Typed'
    BY <1>1, SameTypes DEF IInv, Typed
  <1>3. ASSUME NEW k \in Jobs PROVE SupSound(k)' /\ AppSound(k)'
    BY <1>1 DEF IInv, Sound, SupSound, AppSound, Handle, Pending, Active
  <1> QED BY <1>1, <1>2, <1>3, Manages

LEMMA ResumesGood == ASSUME IInv, NEW j \in Jobs, Resumes(j) PROVE Good
  <1>1. /\ UNCHANGED <<late, app, flight, verdict, process>> /\ UNCHANGED provider
        /\ sup[j] = "resume" /\ troubles \in Nat /\ FlightFalls(j)
    BY FlightStays DEF Resumes, provider, IInv, Typed, ProcessOK
  <1>2. CASE Ends(j) /\ UNCHANGED <<job, troubles>>
    BY <1>1, <1>2, Reruns DEF Ends
  <1>3. CASE Active(j) /\ late[j] /\ Settles(j, "cancelled", FALSE) /\ UNCHANGED troubles
    BY <1>1, <1>3, SettlesMoves DEF Healthy
  <1>4. CASE Active(j) /\ Spend(1) /\ Ends(j) /\ UNCHANGED job
    BY <1>1, <1>4, Spends, EndsMoves
  <1>5. CASE Active(j) /\ ~Pending(j) /\ Cleans(j, FALSE) /\ UNCHANGED <<job, troubles>>
    BY <1>1, <1>5, CleansMoves
  <1>6. CASE /\ Active(j) /\ UNCHANGED <<job, troubles>>
             /\ GoTo(j, IF job[j].ids # "none" THEN "inspect" ELSE "discover")
    <2>1. PICK stage \in {"inspect", "discover"} :
                 GoTo(j, stage) /\ (stage = "inspect" <=> job[j].ids # "none")
      BY <1>6
    <2>2. stage \in Stages /\ sup'[j] = stage
      BY <2>1 DEF Stages, GoTo, IInv, Typed, SupOK
    <2>3. SupSound(j)'
      BY <1>6, <2>1, <2>2 DEF SupSound, Active
    <2> QED BY <1>1, <1>6, <2>1, <2>2, <2>3, Turns
  <1> QED BY <1>2, <1>3, <1>4, <1>5, <1>6 DEF Resumes

(* The row of a recovered App is taken up; a call it does not name is not  *)
(* called running.                                                         *)
LEMMA Recovers ==
    ASSUME IInv, NEW j \in Jobs, Active(j), Write(j, Recovered(job[j])),
           NEW stage \in {"watch", "halt"}, GoTo(j, stage), app[j] # "absent",
           ~Pending(j) \/ (stage = "watch" /\ job[j].ids # "none"),
           UNCHANGED <<late, app, verdict, process>>, FlightFalls(j), troubles' \in Nat
    PROVE  Good
  <1> DEFINE row == Recovered(job[j])
  <1>1. /\ row \in Rows /\ row.status \notin Terminal \cup {"none"}
        /\ row.outcome = job[j].outcome /\ row.started = job[j].started
        /\ row.output = job[j].output
        /\ (row.ids = "app" => ~Pending(j))
        /\ (row.status = "running" => job[j].status = "running" \/ Pending(j))
        /\ (job[j].ids = "call" => row.ids = "call")
    <2>1. job[j] \in Rows
      BY DEF IInv, Typed, JobOK
    <2>2. job[j].ids = "app" => ~Pending(j)
      BY DEF IInv, Sound, RowSound
    <2> QED BY <2>1, <2>2 DEF Recovered, Rows, Statuses, Terminal, Active, Pending
  <1>2. job[j].status = "running" => job[j].ids = "call"
    BY DEF IInv, Sound, RowSound
  <1>3. row.status = "running" => row.ids = "call"
    <2>1. Pending(j) => job[j].ids = "call"
      BY DEF IInv, Sound, RowSound, Typed, JobOK, Rows
    <2> HIDE DEF row
    <2> QED BY <1>1, <1>2, <2>1
  <1>4. job' = [job EXCEPT ![j] = row] /\ sup' = [sup EXCEPT ![j] = stage] /\ stage \in Stages
    BY DEF Write, GoTo, Stages
  <1> HIDE DEF row
  <1>5. job'[j] = row /\ sup'[j] = stage
    BY <1>4 DEF IInv, Typed, JobOK, SupOK
  <1>6. RowSound(j)' /\ SupSound(j)'
    BY <1>1, <1>3, <1>5 DEF RowSound, SupSound, Pending, Active, IInv, Sound
  <1> QED BY <1>1, <1>4, <1>6, Rewrites

LEMMA InspectsGood == ASSUME IInv, NEW j \in Jobs, Inspects(j) PROVE Good
  <1>1. /\ UNCHANGED <<late, app, flight, verdict, process>> /\ Active(j)
        /\ sup[j] = "inspect" /\ troubles \in Nat /\ FlightFalls(j)
        /\ job[j].ids # "none" /\ app[j] # "absent"
    BY FlightStays DEF Inspects, provider, IInv, Typed, ProcessOK, Sound, SupSound, AppSound,
       Handle
  <1>2. CASE Write(j, Recovered(job[j])) /\ GoTo(j, "watch") /\ UNCHANGED troubles
    BY <1>1, <1>2, Recovers
  <1>3. CASE Fails(j, TRUE, 1)
    BY <1>1, <1>3, FailsOnce
  <1>4. CASE Spend(1) /\ GoTo(j, "nap") /\ UNCHANGED job
    <2>1. sup'[j] = "nap" /\ "nap" \in Stages
      BY <1>4 DEF GoTo, Stages, IInv, Typed, SupOK
    <2>2. SupSound(j)' /\ troubles' \in Nat
      BY <1>1, <1>4, <2>1, Spends DEF SupSound, Active
    <2> QED BY <1>1, <1>4, <2>1, <2>2, Turns
  <1> QED BY <1>2, <1>3, <1>4 DEF Inspects

LEMMA DiscoversGood == ASSUME IInv, NEW j \in Jobs, Discovers(j) PROVE Good
  <1>1. /\ UNCHANGED <<late, app, flight, verdict, process>> /\ Active(j)
        /\ sup[j] \in {"discover", "discover2"} /\ troubles \in Nat /\ FlightFalls(j)
        /\ (Pending(j) => job[j].ids = "none")
    BY FlightStays DEF Discovers, provider, IInv, Typed, ProcessOK, Sound, SupSound
  <1>2. ~Healthy(j)
    BY <1>1 DEF Healthy, IInv, Sound, RowSound
  <1>3. ASSUME UNCHANGED job, troubles' \in Nat, NEW stage \in {"nap", "discover2"}, GoTo(j, stage)
        PROVE  Good
    <2>1. sup'[j] = stage /\ stage \in Stages
      BY <1>3 DEF GoTo, Stages, IInv, Typed, SupOK
    <2>2. SupSound(j)'
      BY <1>1, <1>3, <2>1 DEF SupSound, Active, Pending
    <2> QED BY <1>1, <1>3, <2>1, <2>2, Turns
  <1>4. CASE app[j] \in Listed /\ Adopts(j)
    <2>1. app[j] # "absent"
      BY <1>4 DEF Listed
    <2>2. CASE GoTo(j, "nap") /\ UNCHANGED <<job, troubles>>
      BY <1>1, <1>3, <2>2
    <2>3. CASE Fails(j, TRUE, 0)
      BY <1>1, <1>2, <2>1, <2>3, FailsMoves
    <2> QED BY <1>4, <2>2, <2>3 DEF Adopts
  <1>5. CASE LooksAgain(j, "discover", "discover2")
    BY <1>1, <1>3, <1>5 DEF LooksAgain
  <1>6. CASE GoTo(j, "nap") /\ UNCHANGED <<job, troubles>>
    BY <1>1, <1>3, <1>6
  <1>7. CASE Fails(j, FALSE, 0)
    BY <1>1, <1>2, <1>7, FailsMoves
  <1>8. CASE Spend(1) /\ GoTo(j, "nap") /\ UNCHANGED job
    BY <1>3, <1>8, Spends
  <1> QED BY <1>4, <1>5, <1>6, <1>7, <1>8 DEF Discovers

LEMMA NapsGood == ASSUME IInv, NEW j \in Jobs, Naps(j) PROVE Good
  BY Reruns DEF Naps, Ends, IInv, Typed, ProcessOK

LEMMA ReschedulesGood == ASSUME IInv, NEW j \in Jobs, Reschedules(j) PROVE Good
  BY Reruns DEF Reschedules, IInv, Typed, ProcessOK

LEMMA WatchesGood == ASSUME IInv, NEW j \in Jobs, Watches(j) PROVE Good
  <1>1. /\ UNCHANGED <<late, app, flight, verdict, process>> /\ Active(j)
        /\ sup[j] = "watch" /\ troubles \in Nat /\ FlightFalls(j) /\ app[j] # "absent"
    BY FlightStays DEF Watches, provider, IInv, Typed, ProcessOK, Sound, SupSound, AppSound,
       Handle
  <1>2. CASE Ends(j) /\ UNCHANGED <<job, troubles>>
    BY <1>1, <1>2, EndsMoves
  <1>3. ASSUME UNCHANGED <<job, troubles>>, NEW stage \in {"halt", "poll"}, GoTo(j, stage),
               stage = "halt" => ~Pending(j)
        PROVE  Good
    <2>1. sup'[j] = stage /\ stage \in Stages
      BY <1>3 DEF GoTo, Stages, IInv, Typed, SupOK
    <2>2. SupSound(j)'
      BY <1>1, <1>3, <2>1 DEF SupSound, Active, Pending
    <2> QED BY <1>1, <1>3, <2>1, <2>2, Turns
  <1>4. CASE sd = "up" /\ Settles(j, "cancelled", TRUE) /\ UNCHANGED troubles
    BY <1>1, <1>4, SettlesMoves
  <1>5. CASE Breaks(j, TRUE)
    BY <1>1, <1>5, BreaksMoves
  <1> QED BY <1>2, <1>3, <1>4, <1>5 DEF Watches

LEMMA PollsGood == ASSUME IInv, NEW j \in Jobs, Polls(j) PROVE Good
  <1>1. /\ UNCHANGED <<late, app, flight, verdict, process>> /\ Active(j)
        /\ sup[j] = "poll" /\ troubles \in Nat /\ FlightFalls(j) /\ app[j] # "absent"
        /\ (verdict[j] # "none" => ~Healthy(j))
    BY FlightStays DEF Polls, provider, IInv, Typed, ProcessOK, Sound, SupSound, AppSound,
       Handle, Healthy
  <1>2. ASSUME UNCHANGED <<job, troubles>>, NEW stage \in {"watch", "verify"}, GoTo(j, stage),
               stage = "verify" => verdict[j] # "none"
        PROVE  Good
    <2>1. sup'[j] = stage /\ stage \in Stages
      BY <1>2 DEF GoTo, Stages, IInv, Typed, SupOK
    <2>2. SupSound(j)'
      BY <1>1, <1>2, <2>1 DEF SupSound, Active, Pending
    <2> QED BY <1>1, <1>2, <2>1, <2>2, Turns
  <1>3. CASE verdict[j] \in {"failed", "cancelled"} /\ Settles(j, verdict[j], TRUE) /\ UNCHANGED troubles
    BY <1>1, <1>3, SettlesMoves
  <1>4. CASE Breaks(j, TRUE)
    BY <1>1, <1>4, BreaksMoves
  <1>5. CASE Fails(j, TRUE, 1)
    BY <1>1, <1>5, FailsOnce
  <1> QED BY <1>2, <1>3, <1>4, <1>5 DEF Polls

(* The output is recorded no later than the success.                       *)
LEMMA VerifiesGood == ASSUME IInv, NEW j \in Jobs, Verifies(j) PROVE Good
  <1> DEFINE kept == [job[j] EXCEPT !.output = TRUE]
  <1>1. /\ UNCHANGED <<late, app, flight, verdict, process>> /\ Active(j)
        /\ sup[j] = "verify" /\ troubles \in Nat /\ FlightFalls(j) /\ app[j] # "absent"
        /\ ~Healthy(j)
    BY FlightStays DEF Verifies, provider, IInv, Typed, ProcessOK, Sound, SupSound, AppSound,
       Handle, Healthy
  <1>2. /\ kept \in Rows /\ kept.output /\ kept.ids = job[j].ids /\ kept.started = job[j].started
        /\ kept.outcome = job[j].outcome /\ kept.status = job[j].status
    BY DEF IInv, Typed, JobOK, Rows
  <1>3. ASSUME NEW row \in Rows, Write(j, row), NEW stage \in {"halt", "ended", "none"},
               GoTo(j, stage), troubles' \in Nat,
               row.output, row.ids = job[j].ids, row.started = job[j].started,
               row.outcome = job[j].outcome \/ Pending(j),
               row.status \notin Terminal \cup {"none"},
               row.status = "running" => job[j].status = "running",
               row.outcome = "pending" => Pending(j),
               stage = "halt" => row.outcome # "pending"
        PROVE  Good
    <2>1. job' = [job EXCEPT ![j] = row] /\ sup' = [sup EXCEPT ![j] = stage] /\ stage \in Stages
      BY <1>3 DEF Write, GoTo, Stages
    <2>2. job'[j] = row /\ sup'[j] = stage
      BY <2>1 DEF IInv, Typed, JobOK, SupOK
    <2>3. RowSound(j)' /\ SupSound(j)'
      BY <1>3, <2>2 DEF RowSound, SupSound, Pending, Active, IInv, Sound
    <2> QED BY <1>1, <1>3, <2>1, <2>3, Rewrites
  <1> HIDE DEF kept
  <1>4. ASSUME NEW outcome \in {"succeeded", "failed"}, Write(j, Chosen(kept, outcome)), GoTo(j, "halt"),
               troubles' \in Nat
        PROVE  Good
    <2>1. /\ Chosen(kept, outcome) \in Rows
          /\ Chosen(kept, outcome).status \in {"cancelling", "finalizing"}
          /\ Chosen(kept, outcome).outcome # "pending"
          /\ Chosen(kept, outcome).outcome = (IF Pending(j) THEN outcome ELSE job[j].outcome)
          /\ Chosen(kept, outcome).ids = job[j].ids /\ Chosen(kept, outcome).started = job[j].started
          /\ Chosen(kept, outcome).output
      BY <1>2, Chooses DEF Pending
    <2> QED BY <1>3, <1>4, <2>1 DEF Terminal
  <1>5. CASE Write(j, Chosen(kept, "succeeded")) /\ GoTo(j, "halt") /\ UNCHANGED troubles
    BY <1>1, <1>4, <1>5
  <1>6. CASE Spend(1) /\ Write(j, Chosen(kept, "failed")) /\ GoTo(j, "halt")
    BY <1>4, <1>6, Spends
  <1>7. CASE Spend(1) /\ Write(j, kept) /\ Ends(j)
    BY <1>1, <1>2, <1>3, <1>7, Spends DEF Ends, Active, Pending
  <1>8. CASE Spend(1) /\ GoTo(j, "watch") /\ UNCHANGED job
    <2>1. sup'[j] = "watch" /\ "watch" \in Stages
      BY <1>8 DEF GoTo, Stages, IInv, Typed, SupOK
    <2>2. SupSound(j)' /\ troubles' \in Nat
      BY <1>1, <1>8, <2>1, Spends DEF SupSound, Active
    <2> QED BY <1>1, <1>8, <2>1, <2>2, Turns
  <1>9. CASE Fails(j, TRUE, 1)
    BY <1>1, <1>9, FailsOnce
  <1> QED BY <1>5, <1>6, <1>7, <1>8, <1>9 DEF Verifies, kept

-----------------------------------------------------------------------------
(* Cleaning up *)

(* A settled job is closed: its App has stopped, or there is none and no   *)
(* request is on its way.                                                  *)
LEMMA FinishesMoves ==
    ASSUME IInv, NEW j \in Jobs, Active(j), ~Pending(j), sup[j] # "launching", Finishes(j),
           app[j] \in {"absent", "stopped"}, app[j] = "absent" => ~flight[j],
           UNCHANGED <<late, app, flight, verdict, process, troubles>>
    PROVE  Good
  <1> DEFINE end == CASE job[j].outcome = "failed" -> "failed"
                      [] job[j].outcome = "cancelled" -> "cancelled"
                      [] OTHER -> "completed"
             row == [job[j] EXCEPT !.status = end]
  <1>1. PICK stage \in {"ended", "none"} : GoTo(j, stage)
    BY DEF Finishes, Ends
  <1>2. job' = [job EXCEPT ![j] = row] /\ sup' = [sup EXCEPT ![j] = stage] /\ stage \in Stages
    BY <1>1 DEF Finishes, Write, GoTo, Stages
  <1>3. end \in Terminal
    BY DEF Terminal
  <1> HIDE DEF end
  <1>4. /\ row \in Rows /\ row.status \in Terminal /\ row.outcome = job[j].outcome
        /\ row.ids = job[j].ids /\ row.started = job[j].started /\ row.output = job[j].output
    BY <1>3 DEF Rows, Statuses, IInv, Typed, JobOK
  <1> HIDE DEF row
  <1>5. /\ JobOK' /\ SupOK' /\ job'[j] = row /\ sup'[j] = stage
        /\ UNCHANGED <<orphan, late, app, flight, verdict>>
    BY <1>2, <1>4 DEF IInv, Typed, JobOK, SupOK, process
  <1>6. Typed'
    BY <1>5, SameTypes DEF IInv, Typed, ProcessOK
  <1>7. Local(j)
    BY <1>2, <1>5 DEF Local, IInv, Typed, JobOK, SupOK
  <1>8. RowSound(j)' /\ SupSound(j)' /\ AppSound(j)'
    BY <1>4, <1>5 DEF RowSound, SupSound, AppSound, Handle, Pending, Active, Terminal, IInv, Sound
  <1>9. Closes(j)
    BY <1>4, <1>5 DEF Closes, Phase, Compute, Active, Pending, Terminal, Listed
  <1>10. Kept(j)
    BY DEF Kept, Healthy
  <1> QED BY <1>6, <1>7, <1>8, <1>9, <1>10, Moves DEF Sound, Promised

LEMMA SeeksGood == ASSUME IInv, NEW j \in Jobs, Seeks(j) PROVE Good
  <1>1. /\ UNCHANGED <<late, app, flight, verdict, process>> /\ Active(j) /\ ~Pending(j)
        /\ sup[j] \in {"seek", "seek2"} /\ troubles \in Nat /\ FlightFalls(j)
    BY FlightStays DEF Seeks, provider, IInv, Typed, ProcessOK, Sound, SupSound
  <1>2. ASSUME UNCHANGED job, NEW stage \in {"seek", "seek2"}, GoTo(j, stage), troubles' \in Nat
        PROVE  Good
    <2>1. sup'[j] = stage /\ stage \in Stages
      BY <1>2 DEF GoTo, Stages, IInv, Typed, SupOK
    <2>2. SupSound(j)'
      BY <1>1, <1>2, <2>1 DEF SupSound, Active, Pending
    <2> QED BY <1>1, <1>2, <2>1, <2>2, Turns
  <1>3. CASE /\ app[j] \in Listed /\ GoTo(j, "halt") /\ UNCHANGED troubles
             /\ Write(j, Recovered(job[j]))
    BY <1>1, <1>3, Recovers DEF Listed
  <1>4. CASE LooksAgain(j, "seek", "seek2")
    BY <1>1, <1>2, <1>4 DEF LooksAgain
  <1>5. CASE Waits(j, "seek") /\ UNCHANGED <<job, troubles>>
    BY <1>1, <1>2, <1>5, EndsMoves DEF Waits
  <1>6. CASE IsMissing(j, "seek2") /\ ~(job[j].started /\ ~late[j]) /\ Finishes(j)
             /\ UNCHANGED troubles
    <2>1. app[j] \in {"absent", "stopped"} /\ ~flight[j]
      BY <1>6 DEF IsMissing, IInv, Typed, AppOK, AppStates, Sound, AppSound
    <2> QED BY <1>1, <1>6, <2>1, FinishesMoves
  <1>7. CASE Spend(1) /\ (GoTo(j, "seek") \/ Ends(j)) /\ UNCHANGED job
    BY <1>1, <1>2, <1>7, Spends, EndsMoves
  <1> QED BY <1>3, <1>4, <1>5, <1>6, <1>7 DEF Seeks

LEMMA ChecksGood == ASSUME IInv, NEW j \in Jobs, Checks(j) PROVE Good
  <1>1. /\ UNCHANGED <<late, app, flight, verdict, process>> /\ Active(j) /\ ~Pending(j)
        /\ sup[j] = "check" /\ troubles \in Nat /\ FlightFalls(j) /\ app[j] # "absent"
    BY FlightStays DEF Checks, provider, IInv, Typed, ProcessOK, Sound, SupSound, AppSound,
       Handle
  <1>2. CASE app[j] = "stopped" /\ Finishes(j) /\ UNCHANGED troubles
    BY <1>1, <1>2, FinishesMoves
  <1>3. ASSUME UNCHANGED job, troubles' \in Nat, Waits(j, "halt") \/ Ends(j) PROVE Good
    <2>1. CASE Ends(j)
      BY <1>1, <1>3, <2>1, EndsMoves
    <2>2. CASE GoTo(j, "halt")
      <3>1. sup'[j] = "halt" /\ "halt" \in Stages
        BY <2>2 DEF GoTo, Stages, IInv, Typed, SupOK
      <3>2. SupSound(j)'
        BY <1>1, <1>3, <3>1 DEF SupSound, Active, Pending
      <3> QED BY <1>1, <1>3, <2>2, <3>1, <3>2, Turns
    <2> QED BY <1>3, <2>1, <2>2 DEF Waits
  <1>4. CASE Waits(j, "halt") /\ UNCHANGED <<job, troubles>>
    BY <1>1, <1>3, <1>4
  <1>5. CASE Spend(1) /\ (Waits(j, "halt") \/ Ends(j)) /\ UNCHANGED job
    BY <1>3, <1>5, Spends
  <1> QED BY <1>2, <1>4, <1>5 DEF Checks

(* An App is told to stop, by whoever has found it.                        *)
Killed(j) ==
    /\ app[j] \notin {"absent", "stopped"}
    /\ \E to \in {"draining", "stopped"} : app' = [app EXCEPT ![j] = to]
    /\ verdict' = [verdict EXCEPT ![j] = IF @ = "none" THEN "cancelled" ELSE @]

LEMMA Kills ==
    ASSUME IInv, NEW j \in Jobs, Killed(j), ~Healthy(j) \/ troubles' # troubles,
           UNCHANGED <<job, late, flight, process>>, troubles' \in Nat,
           NEW stage \in Stages, sup' = [sup EXCEPT ![j] = stage],
           stage = sup[j] \/ sup[j] # "launching", SupSound(j)'
    PROVE  Good
  <1>1. PICK to \in {"draining", "stopped"} : app' = [app EXCEPT ![j] = to]
    BY DEF Killed
  <1> DEFINE how == IF verdict[j] = "none" THEN "cancelled" ELSE verdict[j]
  <1>2. verdict' = [verdict EXCEPT ![j] = how] /\ how \in Verdicts
    BY DEF Killed, IInv, Typed, VerdictOK, Verdicts
  <1> HIDE DEF how
  <1>3. /\ AppOK' /\ VerdictOK' /\ SupOK' /\ app'[j] = to /\ sup'[j] = stage
        /\ UNCHANGED <<orphan, recon, known, sd>>
    BY <1>1, <1>2 DEF IInv, Typed, AppOK, VerdictOK, SupOK, AppStates, Listed, process
  <1>4. Typed'
    BY <1>3, SameTypes DEF IInv, Typed
  <1>5. Local(j)
    BY <1>1, <1>2, <1>3 DEF Local, IInv, Typed, AppOK, VerdictOK, SupOK
  <1>6. RowSound(j)' /\ AppSound(j)'
    BY <1>3 DEF RowSound, AppSound, Pending, IInv, Sound, Active
  <1>7. Promised(j)
    <2>1. Phase(j)' = Phase(j) /\ job'[j].outcome = job[j].outcome /\ Compute(j) = "live"
      BY DEF Phase, Compute, Pending, Killed
    <2>2. Compute(j)' \in {"live", "gone"}
      BY <1>3 DEF Compute
    <2> QED BY <2>1, <2>2 DEF Promised, SamePromise, Stops
  <1>8. Kept(j)
    BY DEF Kept
  <1> QED BY <1>4, <1>5, <1>6, <1>7, <1>8, Moves DEF Sound

LEMMA HaltsGood == ASSUME IInv, NEW j \in Jobs, Halts(j) PROVE Good
  <1>1. /\ UNCHANGED <<late, flight, process, job>> /\ Active(j) /\ ~Pending(j) /\ ~Healthy(j)
        /\ sup[j] = "halt" /\ troubles \in Nat /\ FlightFalls(j) /\ app[j] # "absent"
    BY FlightStays DEF Halts, IInv, Typed, ProcessOK, Sound, SupSound, AppSound, Handle,
       Healthy
  <1>2. ASSUME GoTo(j, "check")
        PROVE  /\ sup' = [sup EXCEPT ![j] = "check"] /\ sup'[j] = "check" /\ "check" \in Stages
               /\ SupSound(j)'
    <2>1. sup' = [sup EXCEPT ![j] = "check"] /\ sup'[j] = "check" /\ "check" \in Stages
      BY <1>2 DEF GoTo, Stages, IInv, Typed, SupOK
    <2> QED BY <1>1, <2>1 DEF SupSound, Active, Pending
  <1>3. ASSUME GoTo(j, "check"), UNCHANGED <<app, verdict>>, troubles' \in Nat PROVE Good
    BY <1>1, <1>2, <1>3, Turns
  <1>4. CASE app[j] = "stopped" /\ GoTo(j, "check") /\ UNCHANGED <<app, verdict, troubles>>
    BY <1>1, <1>3, <1>4
  <1>5. CASE \E to \in {"draining", "stopped"} :
               /\ app[j] # "stopped" /\ app' = [app EXCEPT ![j] = to]
               /\ verdict' = [verdict EXCEPT ![j] = IF @ = "none" THEN "cancelled" ELSE @]
               /\ GoTo(j, "check") /\ UNCHANGED troubles
    <2>1. Killed(j) /\ GoTo(j, "check") /\ UNCHANGED troubles
      BY <1>1, <1>5 DEF Killed
    <2> QED BY <1>1, <1>2, <2>1, Kills
  <1>6. CASE Spend(1) /\ (GoTo(j, "check") \/ Ends(j)) /\ UNCHANGED <<app, verdict>>
    BY <1>1, <1>3, <1>6, Spends, EndsMoves
  <1> QED BY <1>4, <1>5, <1>6 DEF Halts

LEMMA EmergencyGood == ASSUME IInv, NEW j \in Jobs, Emergency(j) PROVE Good
  <1>1. /\ UNCHANGED <<job, late, flight, process, troubles>> /\ Active(j) /\ ~Healthy(j)
        /\ sup[j] = "emergency" /\ troubles \in Nat /\ FlightFalls(j) /\ Ends(j)
    BY FlightStays DEF Emergency, IInv, Typed, ProcessOK, Sound, SupSound, Healthy
  <1>2. CASE UNCHANGED <<app, verdict>>
    BY <1>1, <1>2, EndsMoves
  <1>3. CASE Killed(j)
    <2>1. PICK stage \in {"ended", "none"} : sup' = [sup EXCEPT ![j] = stage]
      BY <1>1 DEF Ends, GoTo
    <2>2. stage \in Stages /\ sup'[j] = stage
      BY <2>1 DEF Stages, IInv, Typed, SupOK
    <2>3. SupSound(j)'
      BY <2>2 DEF SupSound
    <2> QED BY <1>1, <1>3, <2>1, <2>2, <2>3, Kills
  <1> QED BY <1>2, <1>3 DEF Emergency, Killed, Listed

LEMMA LaunchUndoesGood == ASSUME IInv, NEW j \in Jobs, LaunchUndoes(j) PROVE Good
  <1>1. Killed(j) /\ UNCHANGED <<job, late, flight, sup, process>>
    BY DEF LaunchUndoes, Killed, Listed
  <1>2. troubles' \in Nat /\ troubles' # troubles
    BY Spends DEF LaunchUndoes
  <1>3. sup' = [sup EXCEPT ![j] = sup[j]] /\ sup[j] \in Stages /\ sup'[j] = sup[j]
    BY <1>1 DEF IInv, Typed, SupOK
  <1>4. SupSound(j)'
    <2>1. sup[j] = "launching"
      BY DEF LaunchUndoes
    <2> QED BY <1>1, <1>3, <2>1 DEF SupSound, IInv, Sound, Active, Pending
  <1> QED BY <1>1, <1>2, <1>3, <1>4, Kills

LEMMA OrphanStepGood == ASSUME IInv, NEW j \in Jobs, OrphanStep(j) PROVE Good
  <1>1. /\ UNCHANGED <<job, late, flight, sup, recon, known, sd, troubles>> /\ orphan[j]
        /\ app[j] # "absent" /\ troubles \in Nat /\ ~Healthy(j)
    BY DEF OrphanStep, IInv, Typed, ProcessOK, Sound, AppSound, Handle, Healthy
  <1>2. CASE UNCHANGED orphan /\ app[j] # "stopped" /\ UNCHANGED troubles /\ Killed(j)
    <2>1. sup' = [sup EXCEPT ![j] = sup[j]] /\ sup[j] \in Stages /\ UNCHANGED process
      BY <1>1, <1>2 DEF IInv, Typed, SupOK, process
    <2>2. \A k \in Jobs : verdict[k] # "none" => verdict'[k] # "none"
      BY <1>2 DEF Killed, IInv, Typed, VerdictOK
    <2>3. SupSound(j)'
      BY <1>1, <2>2 DEF SupSound, IInv, Sound, Active, Pending
    <2> QED BY <1>1, <1>2, <2>1, <2>3, Kills
  <1>3. CASE orphan' = [orphan EXCEPT ![j] = FALSE] /\ UNCHANGED <<app, verdict>>
    <2>1. OrphanOK' /\ \A k \in Jobs : orphan'[k] => orphan[k]
      BY <1>3 DEF IInv, Typed, OrphanOK
    <2>2. ProcessOK'
      BY <1>1 DEF IInv, Typed, ProcessOK
    <2>3. Typed'
      BY <1>1, <1>3, <2>1, <2>2, SameTypes DEF IInv, Typed
    <2>4. ASSUME NEW k \in Jobs PROVE SupSound(k)' /\ AppSound(k)'
      BY <1>1, <1>3, <2>1 DEF IInv, Sound, SupSound, AppSound, Handle, Pending, Active
    <2> QED BY <1>1, <1>3, <2>3, <2>4, Manages
  <1> QED BY <1>1, <1>2, <1>3 DEF OrphanStep, Killed

-----------------------------------------------------------------------------
(* The provider and the clock *)

(* A step of the provider leaves the manager alone.                        *)
LEMMA Provides ==
    ASSUME IInv, NEW j \in Jobs, UNCHANGED <<job, sup, process, troubles>>,
           LateOK', AppOK', FlightOK', VerdictOK',
           \A k \in Jobs \ {j} : /\ late'[k] = late[k] /\ app'[k] = app[k]
                                 /\ flight'[k] = flight[k] /\ verdict'[k] = verdict[k],
           app[j] # "absent" => app'[j] # "absent",
           verdict[j] # "none" => verdict'[j] # "none",
           AppSound(j)', Promised(j),
           app[j] \in {"queued", "busy"} => app'[j] \in Called
    PROVE  Good
  <1>1. UNCHANGED <<job, sup, orphan, recon, known, sd, troubles>>
    BY DEF process
  <1>2. Typed'
    BY <1>1, SameTypes DEF IInv, Typed, ProcessOK
  <1>3. RowSound(j)' /\ SupSound(j)'
    BY <1>1 DEF RowSound, SupSound, Pending, Active, IInv, Sound
  <1>4. Local(j)
    BY <1>1 DEF Local
  <1>5. Kept(j)
    BY <1>1 DEF Kept, Healthy, Pending
  <1> QED BY <1>2, <1>3, <1>4, <1>5, Moves DEF Sound

LEMMA LandsGood == ASSUME IInv, NEW j \in Jobs, Lands(j) PROVE Good
  <1>1. /\ UNCHANGED <<job, late, verdict, sup, process, troubles>>
        /\ flight[j] /\ app[j] \in {"absent", "bare"} /\ verdict[j] = "none"
        /\ job[j].started /\ (late[j] => sup[j] = "launching")
        /\ (app[j] = "absent" => Active(j))
    BY DEF Lands, IInv, Typed, VerdictOK, Sound, AppSound
  <1>2. PICK to \in {"bare", "queued"} : app' = [app EXCEPT ![j] = to]
    BY <1>1 DEF Lands
  <1>3. PICK more \in BOOLEAN : /\ flight' = [flight EXCEPT ![j] = more]
                                /\ more <=> sup[j] = "launching"
    BY DEF Lands
  <1>4. /\ AppOK' /\ FlightOK' /\ app'[j] = to /\ flight'[j] = more
        /\ \A k \in Jobs \ {j} : app'[k] = app[k] /\ flight'[k] = flight[k]
    <2>1. AppOK' /\ app'[j] = to /\ \A k \in Jobs \ {j} : app'[k] = app[k]
      BY <1>2 DEF IInv, Typed, AppOK, AppStates, Listed
    <2>2. FlightOK' /\ flight'[j] = more /\ \A k \in Jobs \ {j} : flight'[k] = flight[k]
      BY <1>3 DEF IInv, Typed, FlightOK
    <2> QED BY <2>1, <2>2
  <1>5. AppSound(j)'
    BY <1>1, <1>3, <1>4 DEF AppSound
  <1>6. Promised(j)
    <2>1. /\ Phase(j)' = Phase(j) /\ job'[j].outcome = job[j].outcome
          /\ (app[j] = "absent" => Phase(j) \in {"open", "settled"})
      BY <1>1 DEF Phase, Pending, Active, Terminal
    <2>2. Compute(j)' = "live" /\ Compute(j) = (IF app[j] = "absent" THEN "none" ELSE "live")
      BY <1>1, <1>4 DEF Compute
    <2> QED BY <2>1, <2>2 DEF Promised, SamePromise, Starts
  <1>7. LateOK' /\ VerdictOK'
    BY <1>1, SameTypes DEF IInv
  <1> QED BY <1>1, <1>4, <1>5, <1>6, <1>7, Provides

LEMMA IsLostGood == ASSUME IInv, NEW j \in Jobs, IsLost(j) PROVE Good
  <1>1. /\ UNCHANGED <<job, late, app, verdict, sup, process, troubles>>
        /\ FlightOK' /\ ~flight'[j] /\ \A k \in Jobs \ {j} : flight'[k] = flight[k]
    BY DEF IsLost, IInv, Typed, FlightOK
  <1>2. LateOK' /\ AppOK' /\ VerdictOK'
    BY <1>1, SameTypes DEF IInv
  <1>3. AppSound(j)'
    BY <1>1 DEF AppSound, Handle, IInv, Sound, process
  <1>4. Promised(j)
    BY <1>1 DEF Promised, SamePromise, Phase, Compute, Pending
  <1> QED BY <1>1, <1>2, <1>3, <1>4, Provides DEF Called

LEMMA CallGoesOn == ASSUME IInv, NEW j \in Jobs, CallRuns(j) \/ CallEnds(j) PROVE Good
  <1>1. /\ UNCHANGED <<job, late, flight, sup, process, troubles>>
        /\ app[j] \in {"queued", "busy"} /\ verdict[j] = "none"
    BY DEF CallRuns, CallEnds, IInv, Typed, VerdictOK, Sound, AppSound
  <1>2. PICK to \in {"busy", "over"} : /\ app' = [app EXCEPT ![j] = to]
                                       /\ to = "busy" => UNCHANGED verdict
    BY DEF CallRuns, CallEnds
  <1>3. \E how \in Verdicts : verdict' = [verdict EXCEPT ![j] = how]
    BY DEF CallRuns, CallEnds, IInv, Typed, VerdictOK, Verdicts
  <1>4. /\ AppOK' /\ VerdictOK' /\ app'[j] = to
        /\ \A k \in Jobs \ {j} : app'[k] = app[k] /\ verdict'[k] = verdict[k]
    <2>1. AppOK' /\ app'[j] = to /\ \A k \in Jobs \ {j} : app'[k] = app[k]
      BY <1>2 DEF IInv, Typed, AppOK, AppStates, Listed
    <2>2. VerdictOK' /\ \A k \in Jobs \ {j} : verdict'[k] = verdict[k]
      BY <1>3 DEF IInv, Typed, VerdictOK
    <2> QED BY <2>1, <2>2
  <1>5. LateOK' /\ FlightOK'
    BY <1>1, SameTypes DEF IInv
  <1>6. AppSound(j)'
    <2>1. app'[j] \in {"busy", "over"} /\ (verdict'[j] # "none" => app'[j] = "over")
      BY <1>1, <1>2, <1>4
    <2>2. (flight[j] => job[j].started) /\ (flight[j] /\ late[j] => sup[j] = "launching")
      BY DEF IInv, Sound, AppSound
    <2> QED BY <1>1, <2>1, <2>2 DEF AppSound
  <1>7. Promised(j)
    BY <1>1, <1>4 DEF Promised, SamePromise, Phase, Compute, Pending
  <1> QED BY <1>1, <1>4, <1>5, <1>6, <1>7, Provides DEF Called

LEMMA DrainsGood == ASSUME IInv, NEW j \in Jobs, Drains(j) PROVE Good
  <1>1. /\ UNCHANGED <<job, late, flight, verdict, sup, process, troubles>>
        /\ app[j] = "draining" /\ AppOK' /\ app'[j] = "stopped"
        /\ \A k \in Jobs \ {j} : app'[k] = app[k]
    BY DEF Drains, IInv, Typed, AppOK, AppStates
  <1>2. LateOK' /\ FlightOK' /\ VerdictOK'
    BY <1>1, SameTypes DEF IInv
  <1>3. AppSound(j)'
    BY <1>1 DEF AppSound, Active, IInv, Sound
  <1>4. Promised(j)
    BY <1>1 DEF Promised, Stops, Phase, Compute, Pending
  <1> QED BY <1>1, <1>2, <1>3, <1>4, Provides

LEMMA DeadlineGood == ASSUME IInv, NEW j \in Jobs, Deadline(j) PROVE Good
  <1>1. /\ UNCHANGED <<job, app, flight, verdict, sup, process, troubles>>
        /\ LateOK' /\ (flight[j] => sup[j] = "launching")
        /\ \A k \in Jobs \ {j} : late'[k] = late[k]
    BY DEF Deadline, IInv, Typed, LateOK, provider
  <1>2. AppOK' /\ FlightOK' /\ VerdictOK'
    BY <1>1, SameTypes DEF IInv
  <1>3. AppSound(j)'
    BY <1>1 DEF AppSound, Handle, Active, IInv, Sound, process
  <1>4. Promised(j)
    BY <1>1 DEF Promised, SamePromise, Phase, Compute, Pending
  <1> QED BY <1>1, <1>2, <1>3, <1>4, Provides DEF Called

-----------------------------------------------------------------------------
(* Reconciliation, shutdown, and the next process *)

(* Tasks are begun or gone, orphan cleanups with them; no App is touched.  *)
LEMMA Turnover ==
    ASSUME IInv, UNCHANGED <<job, late, app, verdict>>, SupOK', OrphanOK', FlightOK', ProcessOK',
           \A j \in Jobs : /\ \/ sup'[j] = sup[j]
                              \/ /\ sup'[j] \in {"none", "resume"}
                                 /\ sup[j] = "launching" => ~(flight'[j] /\ late[j])
                           /\ flight'[j] => flight[j]
                           /\ orphan'[j] => orphan[j] \/ app[j] \in Listed
    PROVE  Good
  <1>1. Typed'
    BY SameTypes DEF IInv, Typed
  <1>2. ASSUME NEW j \in Jobs PROVE SupSound(j)' /\ AppSound(j)'
    <2>1. /\ job'[j] = job[j] /\ app'[j] = app[j] /\ verdict'[j] = verdict[j]
          /\ (Active(j)' <=> Active(j)) /\ (Pending(j)' <=> Pending(j)) /\ late'[j] = late[j]
      BY DEF Active, Pending
    <2>2. SupSound(j)'
      BY <2>1 DEF SupSound, IInv, Sound
    <2>3. AppSound(j)'
      BY <2>1 DEF AppSound, Handle, IInv, Sound, Listed
    <2> QED BY <2>2, <2>3
  <1> QED BY <1>1, <1>2, Manages

LEMMA PassBeginsGood == ASSUME IInv, PassBegins PROVE Good
  <1>1. /\ UNCHANGED <<job, late, app, flight, verdict, sup, orphan, sd>>
        /\ SupOK' /\ OrphanOK' /\ FlightOK' /\ troubles \in Nat
    BY SameTypes DEF PassBegins, provider, IInv, Typed, ProcessOK
  <1>2. ProcessOK'
    <2>1. CASE /\ recon' = IF recon = "boot" THEN "first" ELSE "pass"
               /\ known' = ActiveJobs /\ UNCHANGED troubles
      BY <1>1, <2>1 DEF ProcessOK, ActiveJobs, IInv, Typed
    <2>2. CASE Spend(1) /\ recon' = "retry" /\ UNCHANGED known
      BY <1>1, <2>2, Spends DEF ProcessOK, IInv, Typed
    <2> QED BY <2>1, <2>2 DEF PassBegins
  <1> QED BY <1>1, <1>2, Turnover

LEMMA PassEndsGood == ASSUME IInv, PassEnds PROVE Good
  <1>1. /\ UNCHANGED <<job, late, app, flight, verdict, sd>> /\ FlightOK'
        /\ sup' = [j \in Jobs |-> IF j \in known /\ Idle(j) THEN "resume" ELSE sup[j]]
        /\ known' = {}
    BY SameTypes DEF PassEnds, provider, IInv, Typed
  <1>2. SupOK' /\ \A j \in Jobs : \/ sup'[j] = sup[j]
                                  \/ sup'[j] = "resume" /\ sup[j] # "launching"
    BY <1>1 DEF Idle, IInv, Typed, SupOK, Stages
  <1>3. OrphanOK' /\ ProcessOK' /\ \A j \in Jobs : orphan'[j] => orphan[j] \/ app[j] \in Listed
    <2>1. CASE /\ recon' = "done" /\ UNCHANGED troubles
               /\ orphan' = [j \in Jobs |-> orphan[j] \/ (j \in Strangers /\ Idle(j))]
      <3>1. OrphanOK' /\ \A j \in Jobs : orphan'[j] => orphan[j] \/ app[j] \in Listed
        BY <2>1 DEF OrphanOK, Strangers
      <3> QED BY <1>1, <2>1, <3>1 DEF ProcessOK, IInv, Typed
    <2>2. CASE Spend(1) /\ recon' = "retry" /\ UNCHANGED orphan
      BY <1>1, <2>2, Spends DEF ProcessOK, OrphanOK, IInv, Typed
    <2> QED BY <2>1, <2>2 DEF PassEnds
  <1> QED BY <1>1, <1>2, <1>3, Turnover

LEMMA ShutdownGood ==
    ASSUME IInv, BeginShutdown \/ ShutdownSweeps \/ ShutdownEnds PROVE Good
  <1>1. /\ UNCHANGED <<job, late, app, flight, verdict, orphan>> /\ FlightOK' /\ OrphanOK'
        /\ ProcessOK'
    <2>1. /\ UNCHANGED <<job, late, app, flight, verdict, orphan>>
          /\ sd' \in {"closing", "sweeping", "down"} /\ recon' \in {recon, "done"}
          /\ known' \in {known, {}}
      BY DEF BeginShutdown, ShutdownSweeps, ShutdownEnds, provider
    <2>2. troubles' \in Nat
      BY Spends DEF BeginShutdown, ShutdownSweeps, ShutdownEnds, IInv, Typed, ProcessOK
    <2> QED BY <2>1, <2>2, SameTypes DEF IInv, Typed, ProcessOK
  <1>2. SupOK' /\ \A j \in Jobs : \/ sup'[j] = sup[j]
                                  \/ sup'[j] = "resume" /\ sup[j] # "launching"
    <2>1. CASE UNCHANGED sup
      BY <2>1 DEF IInv, Typed, SupOK
    <2>2. CASE /\ Quiet
               /\ sup' = [j \in Jobs |-> IF Active(j) /\ ~Pending(j) THEN "resume" ELSE sup[j]]
      BY <2>2 DEF Quiet, IInv, Typed, SupOK, Stages
    <2> QED BY <2>1, <2>2 DEF BeginShutdown, ShutdownSweeps, ShutdownEnds
  <1> QED BY <1>1, <1>2, Turnover

(* A launch cut off by a crash arrives before the deadline or never.       *)
LEMMA RestartGood == ASSUME IInv, Restart PROVE Good
  <1>1. /\ UNCHANGED <<job, late, app, verdict>> /\ recon' = "boot" /\ known' = {} /\ sd' = "up"
        /\ sup' = [j \in Jobs |-> "none"] /\ orphan' = [j \in Jobs |-> FALSE]
        /\ flight' = [j \in Jobs |-> flight[j] /\ ~late[j]]
    BY DEF Restart
  <1>2. ProcessOK'
    BY <1>1, Spends DEF Restart, ProcessOK
  <1>3. SupOK' /\ \A j \in Jobs : sup'[j] = "none"
    BY <1>1 DEF SupOK, Stages
  <1>4. OrphanOK' /\ \A j \in Jobs : ~orphan'[j]
    BY <1>1 DEF OrphanOK
  <1>5. FlightOK' /\ \A j \in Jobs : (flight'[j] => flight[j]) /\ ~(flight'[j] /\ late[j])
    BY <1>1 DEF FlightOK
  <1> QED BY <1>1, <1>2, <1>3, <1>4, <1>5, Turnover

-----------------------------------------------------------------------------
LEMMA InitIInv == Init => IInv
  <1> SUFFICES ASSUME Init PROVE IInv
    OBVIOUS
  <1>1. JobOK
    BY DEF Init, JobOK, Blank, Rows, Statuses, Outcomes, Terminal
  <1>2. LateOK /\ AppOK /\ FlightOK /\ VerdictOK /\ SupOK /\ OrphanOK /\ ProcessOK
    BY DEF Init, LateOK, AppOK, FlightOK, VerdictOK, SupOK, OrphanOK, ProcessOK, AppStates,
       Verdicts, Stages
  <1>3. ASSUME NEW j \in Jobs PROVE Sound(j)
    BY DEF Init, Blank, Sound, RowSound, SupSound, AppSound, Handle, Pending, Active
  <1> QED BY <1>1, <1>2, <1>3 DEF IInv, Typed

LEMMA SuperviseGood == ASSUME IInv, NEW j \in Jobs, Supervises(j) PROVE Good
  BY LaunchBeginsGood, PreparesGood, LaunchReturnsGood, LaunchFailsGood, ResumesGood,
     InspectsGood, DiscoversGood, NapsGood, ReschedulesGood, WatchesGood, PollsGood,
     VerifiesGood, SeeksGood, HaltsGood, ChecksGood, EmergencyGood DEF Supervises

LEMMA StepGood == ASSUME IInv, [Next]_vars PROVE Good
  <1>1. CASE UNCHANGED vars
    <2>1. UNCHANGED <<job, late, app, flight, verdict, sup, orphan, recon, known, sd, troubles>>
      BY <1>1 DEF vars, provider, process
    <2>2. SupOK' /\ OrphanOK' /\ FlightOK' /\ ProcessOK'
      BY <2>1, SameTypes DEF IInv, Typed, ProcessOK
    <2> QED BY <2>1, <2>2, Turnover
  <1>2. ASSUME NEW j \in Jobs,
               \/ Create(j) \/ Cancel(j) \/ Supervises(j) \/ OrphanStep(j)
               \/ LaunchUndoes(j) \/ Lands(j) \/ IsLost(j)
               \/ CallRuns(j) \/ CallEnds(j) \/ Drains(j) \/ Deadline(j)
        PROVE  Good
    BY <1>2, CreateGood, CancelGood, SuperviseGood, OrphanStepGood, LaunchUndoesGood,
       LandsGood, IsLostGood, CallGoesOn, DrainsGood, DeadlineGood
  <1>3. CASE Reconciles
    BY <1>3, PassBeginsGood, PassEndsGood DEF Reconciles
  <1>4. CASE BeginShutdown \/ ShutsDown
    BY <1>4, ShutdownGood DEF ShutsDown
  <1>5. CASE Restart
    BY <1>5, RestartGood
  <1> QED BY <1>1, <1>2, <1>3, <1>4, <1>5 DEF Next

-----------------------------------------------------------------------------
(* The invariant that carries the rest: a task past its launch works on an *)
(* active job, whoever holds a handle has it of an App that was there, and *)
(* requests of a launch that may still arrive belong to a job not yet over.*)
THEOREM Inductive == Spec => []IInv
  <1>1. IInv /\ [Next]_vars => IInv'
    BY StepGood DEF Good
  <1> QED BY InitIInv, <1>1, PTL DEF Spec

(* No crash, cancellation, resumption or failed write lets a row say       *)
(* success without its verified output (_verify_and_persist_result), or    *)
(* running without its call (_persist_handle, _persist_recovered_handle).  *)
THEOREM RowsAreTrue == Spec => []RowIsTrue
  <1>1. IInv => RowIsTrue
    BY DEF IInv, Sound, RowSound, RowIsTrue
  <1> QED BY <1>1, Inductive, PTL

(* The manager keeps TrainingJob's promise: one job open, its outcome      *)
(* settled once, compute for it at most once, and a terminal row only      *)
(* when its App has stopped or can no longer come (_cleanup_until_stopped).*)
THEOREM Refinement == Spec => ImplementsJob
  <1>1. ASSUME Init PROVE Job!Init
    <2>1. \A j \in Jobs : /\ job[j].status = "none" /\ job[j].outcome = "pending"
                          /\ app[j] = "absent"
      BY <1>1 DEF Init, Blank
    <2>2. \A j \in Jobs : /\ Phase(j) = "none" /\ job[j].outcome = "pending"
                          /\ Compute(j) = "none"
      BY <2>1 DEF Phase, Compute, Terminal, Pending
    <2> QED BY <2>2 DEF Job!Init
  <1>2. IInv /\ [Next]_vars => JobStep
    BY StepGood DEF Good
  <1>3. IInv /\ [Next]_vars => [Job!Next]_(Job!vars)
    BY <1>2 DEF JobStep
  <1> QED BY <1>1, <1>3, Inductive, PTL DEF Spec, ImplementsJob, Job!Spec

(* Once a shutdown has begun, no step of any task, nor of the sweep that   *)
(* follows, stops or settles a job that runs within its deadline, unless   *)
(* something fails (shutdown, _monitor).                                   *)
THEOREM ShutdownKeeps == Spec => ShutdownKeepsJobs
  <1>1. IInv /\ [Next]_vars => [\A j \in Jobs : Kept(j)]_vars
    BY StepGood DEF Good
  <1>2. [\A j \in Jobs : Kept(j)]_vars
            => [\A j \in Jobs : Healthy(j) /\ sd # "up" /\ UNCHANGED troubles
                    => app'[j] \in Called /\ job'[j].outcome = "pending"]_vars
    BY DEF Kept
  <1> QED BY <1>1, <1>2, Inductive, PTL DEF Spec, ShutdownKeepsJobs

-----------------------------------------------------------------------------
(* How a run comes to show what its training did (TrainingEvents), from    *)
(* the lists of the store up.                                              *)

\* The entries of a list, of a console, and all that a run shows.
Entries == [step : Nat, of : Nat]
Numbered == [number : Nat, of : Nat]
Runs == [step : Nat, points : Seq(Entries), checkpoints : Seq(Entries),
         revision : Nat, console : Seq(Numbered)]

\* In the order of their steps, all of them and not only neighbours.
Ordered(s) == \A i, j \in DOMAIN s : i < j => ByStep(s[i], s[j])
OncePerStep(s) == \A i, j \in DOMAIN s : i < j => s[i].step < s[j].step

\* A set of naturals has a least member.
LEMMA LeastOf ==
    ASSUME NEW T \in SUBSET Nat, T # {}
    PROVE  Min(T) \in T /\ \A y \in T : Min(T) <= y
<1> DEFINE R == {ss \in Nat \X Nat : ss[1] < ss[2]}
<1>1. IsWellFoundedOn(R, Nat)
  BY NatLessThanWellFounded DEF OpToRel
<1>2. PICK x \in T : \A y \in T : ~(<<y, x>> \in R)
  BY <1>1, WFMin, Zenon
<1>3. \A y \in T : x <= y
  <2> TAKE y \in T
  <2>1. y < x => <<y, x>> \in R
    OBVIOUS
  <2> QED BY <2>1, <1>2
<1> QED BY <1>3 DEF Min

\* Entries are in one order or the other, or the same.
LEMMA OrderOfEntries ==
    ASSUME NEW a \in Entries, NEW b \in Entries, NEW c \in Entries
    PROVE  /\ ByStep(a, b) \/ ByStep(b, a) \/ a = b
           /\ ~(ByStep(a, b) /\ ByStep(b, a)) /\ ~ByStep(a, a)
           /\ ByStep(a, b) /\ ByStep(b, c) => ByStep(a, c)
           /\ a.step < b.step => ByStep(a, b)
           /\ ByStep(a, b) /\ a.step # b.step => a.step < b.step
BY DEF Entries, ByStep

\* Insertion adds one entry.
LEMMA InsertedType ==
    ASSUME NEW s \in Seq(Entries), NEW x \in Entries
    PROVE  Inserted(s, x) \in Seq(Entries) /\ Len(Inserted(s, x)) = Len(s) + 1
<1>1. \A i \in 1..(Len(s) + 1) : Inserted(s, x)[i] \in Entries
  BY DEF Inserted
<1>2. Inserted(s, x) \in [1..(Len(s) + 1) -> Entries]
  BY <1>1 DEF Inserted
<1> QED BY <1>2

\* Inserting keeps the order and adds just the one.
LEMMA InsertedInOrder ==
    ASSUME NEW s \in Seq(Entries), NEW x \in Entries, Ordered(s), x \notin ToSet(s)
    PROVE  /\ Ordered(Inserted(s, x))
           /\ ToSet(Inserted(s, x)) = ToSet(s) \cup {x}
<1> DEFINE t == Inserted(s, x)
           n == Len(s) + 1
<1>1. /\ t \in Seq(Entries) /\ Len(t) = n /\ DOMAIN t = 1..n /\ DOMAIN s = 1..Len(s)
      /\ Len(s) \in Nat /\ \A i \in 1..Len(s) : s[i] \in Entries /\ s[i] # x
  <2>1. \A i \in 1..Len(s) : s[i] \in Entries
    OBVIOUS
  <2>2. \A i \in 1..Len(s) : s[i] # x
    BY DEF ToSet
  <2>3. t \in Seq(Entries) /\ Len(t) = n
    BY InsertedType
  <2>4. DOMAIN t = 1..n /\ DOMAIN s = 1..Len(s) /\ Len(s) \in Nat
    BY <2>3
  <2> QED BY <2>1, <2>2, <2>3, <2>4
<1>2. \A i \in 1..n :
        t[i] = IF i <= Len(s) /\ ~ByStep(x, s[i]) THEN s[i]
               ELSE IF i = 1 \/ ~ByStep(x, s[i - 1]) THEN x ELSE s[i - 1]
  BY DEF Inserted
<1>3. \A i, j \in 1..Len(s) : i < j => ByStep(s[i], s[j])
  BY <1>1 DEF Ordered
<1>4. \A i \in 1..Len(s) : ~ByStep(x, s[i]) => ByStep(s[i], x)
  BY <1>1, OrderOfEntries
<1>5. \A i, j \in 1..Len(s) : i < j /\ ByStep(x, s[i]) => ByStep(x, s[j])
  BY <1>1, <1>3, OrderOfEntries
<1>6. Ordered(t)
  <2> SUFFICES ASSUME NEW i \in 1..n, NEW j \in 1..n, i < j PROVE ByStep(t[i], t[j])
    BY <1>1 DEF Ordered
  <2>0. i \in 1..Len(s) /\ j - 1 \in 1..Len(s) /\ i <= j - 1
    BY <1>1
  <2>1. CASE ~ByStep(x, s[i])
    <3>1. t[i] = s[i] /\ ByStep(s[i], x)
      BY <1>2, <1>4, <2>0, <2>1
    <3>2. CASE t[j] = x
      BY <3>1, <3>2
    <3>3. CASE j <= Len(s) /\ t[j] = s[j]
      BY <3>1, <3>3, <2>0, <1>3
    <3>4. CASE t[j] = s[j - 1] /\ ByStep(x, s[j - 1])
      BY <3>1, <3>4, <2>0, <1>1, OrderOfEntries
    <3> QED BY <3>2, <3>3, <3>4, <1>2, <2>0
  <2>2. CASE ByStep(x, s[i])
    <3>1. ByStep(x, s[j - 1]) /\ (j <= Len(s) => ByStep(x, s[j]))
      BY <2>0, <2>2, <1>5
    <3>2. t[j] = s[j - 1]
      BY <3>1, <2>0, <1>2
    <3>3. CASE t[i] = x
      BY <3>1, <3>2, <3>3
    <3>4. CASE i # 1 /\ t[i] = s[i - 1]
      <4>1. i - 1 \in 1..Len(s) /\ i - 1 < j - 1
        BY <2>0, <3>4
      <4> QED BY <4>1, <3>4, <3>2, <1>3, <2>0
    <3> QED BY <3>3, <3>4, <1>2, <2>2
  <2> QED BY <2>1, <2>2
<1>7. \E p \in 1..n : t[p] = x
  <2> DEFINE P == {p \in 1..n : p = n \/ ByStep(x, s[p])}
  <2>1. n \in P /\ P \subseteq Nat
    BY <1>1
  <2>2. PICK p \in P : \A q \in P : p <= q
    BY <2>1, LeastOf
  <2>3. p = 1 \/ ~ByStep(x, s[p - 1])
    <3> SUFFICES ASSUME p # 1, ByStep(x, s[p - 1]) PROVE FALSE
      OBVIOUS
    <3>1. p - 1 \in P
      BY <1>1
    <3> QED BY <3>1, <2>2, <1>1
  <2>4. t[p] = x
    BY <1>1, <1>2, <2>3
  <2> QED BY <2>4
<1>8. \A i \in 1..Len(s) : t[i] = s[i] \/ t[i + 1] = s[i]
  <2> TAKE i \in 1..Len(s)
  <2>1. CASE ~ByStep(x, s[i])
    BY <2>1, <1>1, <1>2
  <2>2. CASE ByStep(x, s[i])
    <3>1. i + 1 \in 1..n /\ (i + 1 <= Len(s) => ByStep(x, s[i + 1]))
      BY <2>2, <1>1, <1>5
    <3> QED BY <3>1, <2>2, <1>1, <1>2
  <2> QED BY <2>1, <2>2
<1>9. \A i \in 1..n : t[i] = x \/ \E k \in 1..Len(s) : t[i] = s[k]
  <2> TAKE i \in 1..n
  <2>1. i # 1 => i - 1 \in 1..Len(s)
    BY <1>1
  <2> QED BY <2>1, <1>1, <1>2
<1>10. \A i \in 1..Len(s) : s[i] \in {t[k] : k \in 1..n}
  <2> TAKE i \in 1..Len(s)
  <2>1. i \in 1..n /\ i + 1 \in 1..n
    BY <1>1
  <2> QED BY <2>1, <1>8
<1>11. ToSet(t) = {t[k] : k \in 1..n} /\ ToSet(s) = {s[k] : k \in 1..Len(s)}
  BY <1>1 DEF ToSet
<1>12. ToSet(t) = ToSet(s) \cup {x}
  <2> HIDE DEF t, n
  <2>1. ToSet(t) \subseteq ToSet(s) \cup {x}
    BY <1>9, <1>11
  <2>2. ToSet(s) \cup {x} \subseteq ToSet(t)
    BY <1>7, <1>10, <1>11
  <2> QED BY <2>1, <2>2
<1> QED BY <1>6, <1>12

\* A metric takes the place of the one its step had, and leaves the others.
LEMMA MetricAppended ==
    ASSUME NEW r \in Runs, NEW step \in Nat, NEW of \in Nat, OncePerStep(r.points)
    PROVE  LET n == AppendMetric(r, step, of) IN
           /\ n \in Runs /\ OncePerStep(n.points)
           /\ ToSet(n.points) = {p \in ToSet(r.points) : p.step # step}
                                   \cup {[step |-> step, of |-> of]}
           /\ n.checkpoints = r.checkpoints /\ n.console = r.console
           /\ n.revision = r.revision /\ n.step = Later(r.step, step)
<1> DEFINE x == [step |-> step, of |-> of]
           s == r.points
           n == AppendMetric(r, step, of)
<1>1. s \in Seq(Entries) /\ x \in Entries /\ DOMAIN s = 1..Len(s) /\ Len(s) \in Nat
  BY DEF Runs, Entries
<1>2. \A i \in 1..Len(s) : s[i] \in Entries
  BY <1>1
<1>3. /\ n.points \in Seq(Entries) /\ OncePerStep(n.points)
      /\ ToSet(n.points) = {p \in ToSet(s) : p.step # step} \cup {x}
  <2>1. CASE \E i \in DOMAIN s : s[i].step = step
    <3> DEFINE t == [i \in DOMAIN s |-> IF s[i].step = step THEN x ELSE s[i]]
    <3>1. n.points = t
      BY <2>1 DEF AppendMetric, Runs
    <3>2. t \in Seq(Entries) /\ DOMAIN t = 1..Len(s)
      <4>1. t \in [1..Len(s) -> Entries]
        BY <1>1, <1>2
      <4> QED BY <4>1, <1>1
    <3>3. \A i \in 1..Len(s) : t[i].step = s[i].step
      BY <1>1
    <3>4. OncePerStep(t)
      BY <1>1, <3>2, <3>3 DEF OncePerStep
    <3>5. ToSet(t) = {p \in ToSet(s) : p.step # step} \cup {x}
      <4>1. ASSUME NEW p \in ToSet(t) PROVE p \in {q \in ToSet(s) : q.step # step} \cup {x}
        BY <4>1, <1>1 DEF ToSet
      <4>2. x \in ToSet(t)
        BY <2>1, <1>1 DEF ToSet
      <4>3. ASSUME NEW p \in ToSet(s), p.step # step PROVE p \in ToSet(t)
        <5>1. PICK i \in 1..Len(s) : p = s[i]
          BY <1>1 DEF ToSet
        <5> QED BY <4>3, <5>1, <1>1 DEF ToSet
      <4> QED BY <4>1, <4>2, <4>3
    <3> QED BY <3>1, <3>2, <3>4, <3>5
  <2>2. CASE ~\E i \in DOMAIN s : s[i].step = step
    <3>1. n.points = Inserted(s, x)
      BY <2>2 DEF AppendMetric, Runs
    <3>2. \A p \in ToSet(s) : p.step # step
      BY <2>2 DEF ToSet
    <3>3. Ordered(s)
      BY <1>1, <1>2, OrderOfEntries DEF Ordered, OncePerStep
    <3>4. Inserted(s, x) \in Seq(Entries) /\ Ordered(Inserted(s, x))
          /\ ToSet(Inserted(s, x)) = ToSet(s) \cup {x}
      BY <1>1, <3>2, <3>3, InsertedType, InsertedInOrder
    <3>5. OncePerStep(Inserted(s, x))
      <4> DEFINE t == Inserted(s, x)
      <4> SUFFICES ASSUME NEW i \in DOMAIN t, NEW j \in DOMAIN t, i < j
                   PROVE  t[i].step < t[j].step
        BY DEF OncePerStep
      <4>1. ByStep(t[i], t[j]) /\ t[i] \in ToSet(s) \cup {x} /\ t[j] \in ToSet(s) \cup {x}
        BY <3>4 DEF Ordered, ToSet
      <4>2. t[i] \in Entries /\ t[j] \in Entries
        BY <3>4
      <4>3. t[i] # t[j]
        BY <4>1, <4>2, OrderOfEntries
      <4>4. \A k, l \in 1..Len(s) : s[k].step = s[l].step => k = l
        <5> SUFFICES ASSUME NEW k \in 1..Len(s), NEW l \in 1..Len(s), s[k].step = s[l].step,
                            k # l
                     PROVE  FALSE
          OBVIOUS
        <5>1. s[k].step \in Nat
          BY <1>2 DEF Entries
        <5>2. k < l \/ l < k
          BY <1>1
        <5> QED BY <1>1, <5>1, <5>2 DEF OncePerStep
      <4>5. t[i].step # t[j].step
        <5>1. CASE t[i] = x
          BY <5>1, <4>1, <4>3, <3>2
        <5>2. CASE t[j] = x
          BY <5>2, <4>1, <4>3, <3>2
        <5>3. CASE t[i] \in ToSet(s) /\ t[j] \in ToSet(s)
          <6>1. PICK k \in 1..Len(s), l \in 1..Len(s) : t[i] = s[k] /\ t[j] = s[l]
            BY <5>3, <1>1 DEF ToSet
          <6> QED BY <6>1, <4>3, <4>4
        <5> QED BY <4>1, <5>1, <5>2, <5>3
      <4> QED BY <4>1, <4>2, <4>5, OrderOfEntries
    <3> QED BY <3>1, <3>2, <3>4, <3>5
  <2> QED BY <2>1, <2>2
<1>4. /\ n = [r EXCEPT !.points = n.points, !.step = Later(@, step)]
      /\ Later(r.step, step) \in Nat
  BY DEF AppendMetric, Runs, Later
<1> QED BY <1>3, <1>4 DEF Runs

\* A checkpoint is there afterwards, once, and is the run's output.
LEMMA CheckpointAppended ==
    ASSUME NEW r \in Runs, NEW step \in Nat, NEW of \in Nat, Ordered(r.checkpoints)
    PROVE  LET n == AppendCheckpoint(r, step, of) IN
           /\ n \in Runs /\ Ordered(n.checkpoints)
           /\ ToSet(n.checkpoints) = ToSet(r.checkpoints) \cup {[step |-> step, of |-> of]}
           /\ n.points = r.points /\ n.console = r.console
           /\ n.revision = of /\ n.step = Later(r.step, step)
<1> DEFINE x == [step |-> step, of |-> of]
           s == r.checkpoints
           n == AppendCheckpoint(r, step, of)
<1>1. s \in Seq(Entries) /\ x \in Entries /\ DOMAIN s = 1..Len(s) /\ Len(s) \in Nat
  BY DEF Runs, Entries
<1>2. Contains(s, x) <=> x \in ToSet(s)
  BY <1>1 DEF Contains, ToSet
<1>3. /\ n.checkpoints \in Seq(Entries) /\ Ordered(n.checkpoints)
      /\ ToSet(n.checkpoints) = ToSet(s) \cup {x}
  <2>1. CASE Contains(s, x)
    BY <1>1, <1>2, <2>1 DEF AppendCheckpoint, Runs
  <2>2. CASE ~Contains(s, x)
    <3>1. n.checkpoints = Inserted(s, x)
      BY <2>2 DEF AppendCheckpoint, Runs
    <3> QED BY <1>1, <1>2, <2>2, <3>1, InsertedType, InsertedInOrder
  <2> QED BY <2>1, <2>2
<1>4. /\ n = [r EXCEPT !.checkpoints = n.checkpoints, !.revision = of, !.step = Later(@, step)]
      /\ Later(r.step, step) \in Nat
  BY DEF AppendCheckpoint, Runs, Later
<1> QED BY <1>3, <1>4 DEF Runs

\* The numbers of a console follow each other; the newest line is there, unless the
\* console is empty.
Contiguous(c) == \A i \in DOMAIN c : c[i].number = c[1].number + i - 1 /\ c[1].number >= 1
LastNumber(c) == IF c = <<>> THEN 0 ELSE c[Len(c)].number

\* The last number of a console, and that of each line from it.
LEMMA LastNumberIs ==
    ASSUME NEW c \in Seq(Numbered), Contiguous(c)
    PROVE  /\ LastNumber(c) \in Nat
           /\ \A i \in 1..Len(c) : c[i] \in Numbered /\ c[i].number \in Nat
           /\ c # <<>> => /\ Len(c) \in 1..Len(c) /\ 1 \in 1..Len(c)
                         /\ LastNumber(c) = c[1].number + Len(c) - 1 /\ c[1].number >= 1
<1>1. \A i \in 1..Len(c) : c[i] \in Numbered
  BY ElementOfSeq
<1>2. \A i \in 1..Len(c) : c[i].number \in Nat
  BY <1>1 DEF Numbered
<1>3. Len(c) \in Nat /\ DOMAIN c = 1..Len(c) /\ (c = <<>> <=> Len(c) = 0)
  OBVIOUS
<1>4. c # <<>> => Len(c) \in 1..Len(c) /\ 1 \in 1..Len(c)
  BY <1>3
<1>5. ASSUME c # <<>> PROVE LastNumber(c) = c[1].number + Len(c) - 1 /\ c[1].number >= 1
  <2>1. c[Len(c)].number = c[1].number + Len(c) - 1 /\ c[1].number >= 1
    BY <1>3, <1>4, <1>5 DEF Contiguous
  <2> QED BY <2>1, <1>5 DEF LastNumber
<1>6. LastNumber(c) \in Nat
  BY <1>2, <1>4 DEF LastNumber
<1> QED BY <1>1, <1>2, <1>4, <1>5, <1>6

\* What is left of a console that has grown.
LEMMA ConsoleGrown ==
    ASSUME NEW c \in Seq(Numbered), Contiguous(c), NEW x \in Numbered,
           x.number = LastNumber(c) + 1, NEW first \in 1..(Len(c) + 1)
    PROVE  LET t == SubSeq(Append(c, x), first, Len(c) + 1) IN
           /\ t \in Seq(Numbered) /\ Contiguous(t) /\ t # <<>>
           /\ LastNumber(t) = LastNumber(c) + 1
           /\ ToSet(t) \subseteq ToSet(c) \cup {x}
<1> DEFINE grown == Append(c, x)
           t == SubSeq(grown, first, Len(c) + 1)
<1>1. Len(c) \in Nat /\ DOMAIN c = 1..Len(c) /\ (c = <<>> <=> Len(c) = 0)
  OBVIOUS
<1>2. /\ grown \in Seq(Numbered) /\ Len(grown) = Len(c) + 1
      /\ \A i \in 1..Len(c) : grown[i] = c[i]
      /\ grown[Len(c) + 1] = x
  BY AppendProperties
<1> HIDE DEF grown
<1>3. \A i \in 1..(Len(c) + 1) : i \in 1..Len(c) \/ i = Len(c) + 1
  BY <1>1
<1>4. \A i \in 1..(Len(c) + 1) : grown[i] \in Numbered /\ grown[i].number \in Nat
  <2>1. x.number \in Nat
    BY DEF Numbered
  <2> QED BY <2>1, <1>2, <1>3, LastNumberIs
<1>5. /\ t \in Seq(Numbered) /\ Len(t) = Len(c) + 2 - first
      /\ \A i \in 1..Len(t) : t[i] = grown[first + i - 1]
  <2>1. first \in Int /\ Len(c) + 1 \in Int /\ first <= Len(c) + 1
    BY <1>1
  <2>2. \A i \in first..(Len(c) + 1) : grown[i] \in Numbered
    BY <1>1, <1>4
  <2>3. /\ t \in Seq(Numbered)
        /\ Len(t) = IF first <= Len(c) + 1 THEN Len(c) + 1 - first + 1 ELSE 0
        /\ \A i \in 1..(Len(c) + 1 - first + 1) : t[i] = grown[first + i - 1]
    BY <2>1, <2>2, SubSeqProperties
  <2> QED BY <1>1, <2>1, <2>3
<1> HIDE DEF t
<1>6. \A i \in 1..(Len(c) + 1) : grown[i].number = grown[1].number + i - 1
                                    /\ grown[1].number >= 1
  <2>1. CASE c = <<>>
    BY <2>1, <1>1, <1>2 DEF LastNumber
  <2>2. CASE c # <<>>
    <3>1. \A i \in 1..Len(c) : c[i].number = c[1].number + i - 1 /\ c[1].number >= 1
      BY <1>1 DEF Contiguous
    <3>2. grown[1] = c[1] /\ c[1].number \in Nat /\ x.number = c[1].number + Len(c)
      BY <2>2, <1>1, <1>2, LastNumberIs
    <3> HIDE DEF LastNumber
    <3>3. 1 \in 1..Len(c) /\ c[1].number >= 1
      BY <2>2, <1>1, <3>1
    <3> TAKE i \in 1..(Len(c) + 1)
    <3>4. CASE i \in 1..Len(c)
      BY <3>4, <3>1, <3>2, <3>3, <1>2
    <3>5. CASE i = Len(c) + 1
      BY <3>5, <3>2, <3>3, <1>1, <1>2
    <3> QED BY <3>4, <3>5, <1>3
  <2> QED BY <2>1, <2>2
<1>9. Len(t) \in Nat /\ Len(t) >= 1 /\ t # <<>> /\ DOMAIN t = 1..Len(t)
  <2>1. Len(t) \in Nat /\ DOMAIN t = 1..Len(t)
    BY <1>5
  <2>2. Len(t) >= 1
    BY <1>1, <1>5
  <2>3. t # <<>>
    BY <2>2
  <2> QED BY <2>1, <2>2, <2>3
<1>d. \A i \in 1..Len(t) : first + i - 1 \in 1..(Len(c) + 1)
  BY <1>1, <1>5
<1>10. Contiguous(t)
  <2>1. 1 \in 1..Len(t)
    BY <1>9
  <2>2. grown[1].number \in Nat /\ first \in Nat /\ first >= 1
    BY <1>1, <1>4
  <2>a. t[1] = grown[first + 1 - 1] /\ first + 1 - 1 = first
    BY <2>1, <2>2, <1>5
  <2>b. grown[first].number = grown[1].number + first - 1 /\ grown[1].number >= 1
    BY <1>6
  <2>3. t[1].number = grown[1].number + first - 1 /\ grown[1].number >= 1
    BY <2>a, <2>b
  <2>4. \A i \in 1..Len(t) : t[i].number = grown[1].number + (first + i - 1) - 1
    BY <1>5, <1>6, <1>d
  <2> QED BY <2>2, <2>3, <2>4, <1>9 DEF Contiguous
<1>11. LastNumber(t) = LastNumber(c) + 1
  <2>1. Len(t) \in 1..Len(t) /\ first + Len(t) - 1 = Len(c) + 1
    BY <1>1, <1>5, <1>9
  <2> QED BY <2>1, <1>2, <1>5, <1>9 DEF LastNumber
<1>12. ToSet(t) \subseteq ToSet(c) \cup {x}
  <2> SUFFICES ASSUME NEW i \in 1..Len(t) PROVE t[i] \in ToSet(c) \cup {x}
    BY <1>9 DEF ToSet
  <2>1. first + i - 1 \in 1..Len(c) \/ first + i - 1 = Len(c) + 1
    BY <1>1, <1>d
  <2>2. t[i] = grown[first + i - 1]
    BY <1>5
  <2> QED BY <2>1, <2>2, <1>1, <1>2 DEF ToSet
<1> QED BY <1>5, <1>9, <1>10, <1>11, <1>12 DEF t, grown

\* A line gets the number after the last; of the others only the oldest may go.
LEMMA LineAppended ==
    ASSUME NEW r \in Runs, NEW line \in Nat, Contiguous(r.console)
    PROVE  LET n == AppendConsole(r, line) IN
           /\ n \in Runs /\ Contiguous(n.console) /\ n.console # <<>>
           /\ LastNumber(n.console) = LastNumber(r.console) + 1
           /\ ToSet(n.console) \subseteq ToSet(r.console)
                  \cup {[number |-> LastNumber(r.console) + 1, of |-> line]}
           /\ n.points = r.points /\ n.checkpoints = r.checkpoints
           /\ n.revision = r.revision /\ n.step = r.step
<1> DEFINE c == r.console
           x == [number |-> LastNumber(c) + 1, of |-> line]
           n == AppendConsole(r, line)
           first == IF Len(c) + 1 > MaxConsole THEN Len(c) + 1 - MaxConsole + 1 ELSE 1
           t == SubSeq(Append(c, x), first, Len(c) + 1)
<1>1. c \in Seq(Numbered) /\ Len(c) \in Nat
  BY DEF Runs
<1>2. x \in Numbered /\ x.number = LastNumber(c) + 1 /\ LastNumber(c) \in Nat
  BY <1>1, LastNumberIs DEF Numbered
<1>3. x.number = IF c = <<>> THEN 1 ELSE Last(c).number + 1
  BY DEF LastNumber, Last
<1>4. Len(Append(c, x)) = Len(c) + 1
  BY <1>1, <1>2, AppendProperties
<1>5. n = [r EXCEPT !.console = t]
  <2> DEFINE y == [number |-> IF c = <<>> THEN 1 ELSE Last(c).number + 1, of |-> line]
             g == Append(c, y)
  <2>1. y = x
    BY <1>3
  <2>2. n = [r EXCEPT !.console = SubSeq(g, IF Len(g) > MaxConsole
                                            THEN Len(g) - MaxConsole + 1 ELSE 1, Len(g))]
    BY DEF AppendConsole
  <2>3. Len(g) = Len(c) + 1
    BY <1>4, <2>1
  <2>4. g = Append(c, x)
    BY <2>1
  <2> HIDE DEF g, n, x
  <2>5. (IF Len(g) > MaxConsole THEN Len(g) - MaxConsole + 1 ELSE 1) = first
    BY <2>3, <1>1, StoreAssumption
  <2> HIDE DEF first
  <2>6. SubSeq(g, first, Len(g)) = t
    BY <2>3, <2>4
  <2> QED BY <2>2, <2>5, <2>6
<1>6. first \in 1..(Len(c) + 1)
  BY <1>1, StoreAssumption
<1>7. /\ t \in Seq(Numbered) /\ Contiguous(t) /\ t # <<>>
      /\ LastNumber(t) = LastNumber(c) + 1
      /\ ToSet(t) \subseteq ToSet(c) \cup {x}
  BY <1>1, <1>2, <1>6, ConsoleGrown
<1> HIDE DEF t, first
<1> QED BY <1>5, <1>7 DEF Runs
-----------------------------------------------------------------------------
(* Types *)

Events == [kind : {"metric", "checkpoint", "log"}, step : Nat, of : Nat]
Commits == [step : Saved, final : BOOLEAN, whole : BOOLEAN]
States == {"unknown", "pending", "running", "succeeded", "failed", "cancelled"}
Pages == [stage : {"tailed", "polled", "persisted", "stored"}, events : SUBSET Nat,
          more : BOOLEAN, gap : BOOLEAN, highest : Nat, state : States, output : Nat]

Children == [state : {"none", "running", "exited", "failed", "killed"}, step : 0..MaxSteps,
             dirs : [Saved -> {"none", "partial", "done"}]]
Pipes == [unread : Seq(Steps), queue : Seq(0..MaxSteps), dropped : BOOLEAN,
          reader : {"none", "alive", "dead"}]
Workers == [pc : {"spec", "marker", "inputs", "fetched", "sealed", "take", "scan", "upload",
                  "final", "returned"},
            last : 0..MaxSteps, todo : SUBSET Saved, uploaded : SUBSET Saved]
Outs == [events : Seq(Events), truncated : BOOLEAN]

WorkloadTypeOK ==
    /\ child \in Children /\ pipe \in Pipes /\ worker \in Workers /\ out \in Outs
    /\ worker.pc = "upload" => worker.todo # {}
    /\ hub \in Seq(Commits)
    /\ call \in States \ {"unknown"} /\ expired \in BOOLEAN

\* The lists of a run are in order, whoever reports to it.
Fit(r) ==
    r \in Runs /\ OncePerStep(r.points) /\ Ordered(r.checkpoints) /\ Contiguous(r.console)

EventsTypeOK ==
    /\ WorkloadTypeOK
    /\ managed \in BOOLEAN /\ Fit(run)
    /\ record \in [cursor : Nat, gap : BOOLEAN, outcome : States, output : Nat]
    /\ page # NoPage => page \in Pages /\ page.events \subseteq DOMAIN out.events
    /\ trainer \in [next : Nat \ {0}, waits : BOOLEAN, sends : Nat]
    /\ wire \in [DOMAIN Reports -> Nat]
    /\ reader \in [cursor : Nat, got : SUBSET Nat, told : BOOLEAN]

\* The scheduled steps are steps; nothing is scheduled at EOF.
LEMMA StepsAre ==
    /\ MaxSteps \in Nat \ {0} /\ MaxSteps \in Saved /\ Saved \subseteq Steps
    /\ Logged \subseteq Steps /\ Steps \subseteq Nat /\ Steps \subseteq 0..MaxSteps /\ 0 \in 0..MaxSteps
    /\ NoStep \in Nat /\ EOF = 0
BY WorkloadAssumption DEF Saved, Steps, Logged, NoStep, EOF

\* What is emitted is an event more, or a truncation.
LEMMA EmitType ==
    ASSUME NEW o \in Outs, NEW e \in Events,
           NEW essential \in BOOLEAN
    PROVE  LET n == Emit(o, e, essential) IN
           /\ n \in Outs
           /\ \/ n = [o EXCEPT !.events = Append(o.events, e)]
              \/ n = [o EXCEPT !.truncated = TRUE]
<1>1. Append(o.events, e) \in Seq(Events)
  BY DEF Outs
<1> QED BY <1>1 DEF Emit, Outs

\* A line emitted leaves a log of events.
LEMMA LogType ==
    ASSUME NEW o \in Outs, NEW step \in Nat, NEW line \in Nat
    PROVE  LET n == Log(o, step, line)
               e == Event("log", step, line) IN
           /\ e \in Events
           /\ n \in Outs
           /\ \/ n = [o EXCEPT !.events = Append(o.events, e)]
              \/ n = [o EXCEPT !.truncated = TRUE]
<1>1. Event("log", step, line) \in Events
  BY DEF Event, Events
<1> QED BY <1>1, EmitType DEF Log, Outs

\* The step a line is taken for is one that is scheduled, or none.
LEMMA ParsedStepIs ==
    ASSUME NEW line \in Steps, NEW lost \in BOOLEAN
    PROVE  /\ ParsedStep(line, lost) \in Nat
           /\ ParsedStep(line, lost) # NoStep => ParsedStep(line, lost) \in Schedule(line, lost)
<1>1. Schedule(line, lost) \in SUBSET Nat
  BY StepsAre DEF Schedule
<1>2. ASSUME Schedule(line, lost) # {}
      PROVE  ParsedStep(line, lost) \in Schedule(line, lost)
  BY <1>1, <1>2, LeastOf DEF ParsedStep
<1> QED BY <1>1, <1>2, StepsAre DEF ParsedStep

\* Every step of the workload, and the end of its call, keep its types.
LEMMA WorkloadTyped ==
    ASSUME WorkloadTypeOK, Workload \/ \E state \in {"cancelled", "failed"} : Cancelled(state)
    PROVE  WorkloadTypeOK'
<1> USE StepsAre DEF WorkloadTypeOK
<1>1. CASE Trains
  <2>1. child.step + 1 \in 0..MaxSteps /\ child.step + 1 \in Steps
    BY <1>1 DEF Trains, Steps, Children
  <2>2. child' \in Children
    BY <1>1, <2>1 DEF Trains, Children
  <2>3. Append(pipe.unread, child.step + 1) \in Seq(Steps)
    <3>1. pipe.unread \in Seq(Steps)
      BY DEF Pipes
    <3> QED BY <2>1, <3>1, AppendProperties
  <2>4. pipe' = pipe \/ pipe' = [pipe EXCEPT !.unread = Append(pipe.unread, child.step + 1)]
    BY <1>1 DEF Trains
  <2>5. pipe' \in Pipes
    BY <2>3, <2>4 DEF Pipes
  <2> QED BY <1>1, <2>2, <2>5 DEF Trains
<1>2. CASE Saves
  <2>1. child' \in Children
    BY <1>2 DEF Saves, Children
  <2> QED BY <1>2, <2>1 DEF Saves
<1>3. CASE Exits
  <2>1. child' \in Children
    BY <1>3 DEF Exits, Children
  <2> QED BY <1>3, <2>1 DEF Exits
<1>4. CASE Reads
  <2>1. CASE pipe.unread # <<>>
    <3>a. pipe.unread \in Seq(Steps) /\ pipe.queue \in Seq(0..MaxSteps)
      BY DEF Pipes
    <3>1. Head(pipe.unread) \in 0..MaxSteps /\ Tail(pipe.unread) \in Seq(Steps)
      BY <2>1, <3>a, HeadTailProperties
    <3>2. Append(pipe.queue, Head(pipe.unread)) \in Seq(0..MaxSteps)
      BY <3>a, <3>1, AppendProperties
    <3>3. pipe' \in Pipes
      BY <1>4, <2>1, <3>1, <3>2 DEF Reads, Pipes
    <3> QED BY <1>4, <3>3 DEF Reads
  <2>2. CASE pipe.unread = <<>>
    <3>1. Append(pipe.queue, EOF) \in Seq(0..MaxSteps)
      BY DEF Pipes
    <3>2. pipe' \in Pipes
      BY <1>4, <2>2, <3>1 DEF Reads, Pipes
    <3> QED BY <1>4, <3>2 DEF Reads
  <2> QED BY <2>1, <2>2
<1>5. CASE Begins
  <2>1. worker' \in Workers /\ worker'.pc = "marker"
    BY <1>5 DEF Begins, Goes, Workers
  <2> QED BY <1>5, <2>1 DEF Begins, States
<1>6. CASE Aborts
  <2>1. child' \in Children /\ pipe' \in Pipes
    BY <1>6 DEF Aborts, Children, Pipes
  <2> QED BY <1>6, <2>1 DEF Aborts, States
<1>7. CASE VerifiesMarker
  <2>1. worker' \in Workers /\ worker'.pc = "inputs"
    BY <1>7 DEF VerifiesMarker, Goes, Workers
  <2>2. out' \in Outs
    BY <1>7, LogType DEF VerifiesMarker
  <2> QED BY <1>7, <2>1, <2>2 DEF VerifiesMarker
<1>8. CASE Fetches \/ Seals
  <2>1. worker' \in Workers /\ worker'.pc \in {"fetched", "sealed"}
    BY <1>8 DEF Fetches, Seals, Goes, Workers
  <2> QED BY <1>8, <2>1 DEF Fetches, Seals
<1>9. CASE StartsChild
  <2>1. worker' \in Workers /\ worker'.pc = "take"
    BY <1>9 DEF StartsChild, Goes, Workers
  <2>2. child' \in Children /\ pipe' \in Pipes
    BY <1>9 DEF StartsChild, Children, Pipes
  <2> QED BY <1>9, <2>1, <2>2 DEF StartsChild
<1>10. CASE Takes
  <2>a. [worker EXCEPT !.pc = "scan"] \in Workers
    BY DEF Workers
  <2>1. CASE pipe.queue = <<>>
    <3>1. worker' = [worker EXCEPT !.pc = "scan"]
          /\ UNCHANGED <<child, pipe, out, hub, call, expired>>
      BY <1>10, <2>1 DEF Takes, Goes
    <3> QED BY <3>1, <2>a
  <2>2. CASE pipe.queue # <<>>
    <3> DEFINE line == Head(pipe.queue)
               step == ParsedStep(line, pipe.dropped)
               logged == Log(out, step, line)
    <3>1. line \in 0..MaxSteps /\ Tail(pipe.queue) \in Seq(0..MaxSteps) /\ pipe.dropped \in BOOLEAN
      BY <2>2 DEF Pipes
    <3>2. pipe' \in Pipes /\ UNCHANGED <<child, hub, call, expired>>
      BY <1>10, <2>2, <3>1 DEF Takes, Pipes
    <3>3. CASE line = EOF
      <4>1. out' = out /\ worker' = [worker EXCEPT !.pc = "scan"]
        BY <1>10, <2>2, <3>3 DEF Takes, Goes
      <4> QED BY <3>2, <4>1, <2>a
    <3>4. CASE line # EOF
      <4>1. /\ line \in Steps /\ line \in Nat /\ step \in Nat
            /\ step # NoStep => step \in Schedule(line, pipe.dropped)
        BY <3>1, <3>4, ParsedStepIs DEF Steps
      <4>2. logged \in Outs
        BY <4>1, LogType
      <4>3. CASE step = NoStep
        <5>1. out' = logged /\ worker' = [worker EXCEPT !.pc = "scan"]
          BY <1>10, <2>2, <3>4, <4>3 DEF Takes, Goes
        <5> QED BY <3>2, <4>2, <5>1, <2>a
      <4>4. CASE step # NoStep
        <5>1. /\ out' = Emit(logged, Event("metric", step, line), FALSE)
              /\ worker' = [worker EXCEPT !.pc = "scan", !.last = step]
          BY <1>10, <2>2, <3>4, <4>4 DEF Takes, Goes
        <5>2. step \in 0..MaxSteps /\ Event("metric", step, line) \in Events
          BY <4>1, <4>4 DEF Schedule, Event, Events
        <5>3. out' \in Outs
          BY <4>2, <5>1, <5>2, EmitType
        <5>4. worker' \in Workers /\ worker'.pc = "scan"
          BY <5>1, <5>2 DEF Workers
        <5> QED BY <3>2, <5>3, <5>4
      <4> QED BY <4>3, <4>4
    <3> QED BY <3>3, <3>4
  <2> QED BY <2>1, <2>2
<1>11. CASE Scans
  <2>1. worker' \in Workers /\ (worker'.pc = "upload" => worker'.todo # {})
    BY <1>11 DEF Scans, Workers
  <2> QED BY <1>11, <2>1 DEF Scans
<1>12. CASE Uploads
  <2>1. PICK s \in worker.todo :
           /\ hub' = Append(hub, Commit(s, FALSE))
           /\ out' = Emit(out, Event("checkpoint", s, Len(hub')), TRUE)
           /\ worker' = [worker EXCEPT !.todo = @ \ {s}, !.uploaded = @ \cup {s},
                                       !.pc = IF worker.todo = {s} THEN "take" ELSE "upload"]
           /\ UNCHANGED <<child, pipe, call, expired>>
    BY <1>12 DEF Uploads
  <2>2. s \in Saved /\ s \in Nat /\ Commit(s, FALSE) \in Commits
    BY DEF Commit, Commits, Workers
  <2>3. hub' \in Seq(Commits) /\ Len(hub') \in Nat
    BY <2>1, <2>2, AppendProperties, LenProperties
  <2>4. out' \in Outs
    <3>1. Event("checkpoint", s, Len(hub')) \in Events
      BY <2>2, <2>3 DEF Event, Events
    <3> QED BY <2>1, <3>1, EmitType
  <2>5. worker' \in Workers /\ (worker'.pc = "upload" => worker'.todo # {})
    BY <2>1, <2>2 DEF Workers
  <2> QED BY <2>1, <2>3, <2>4, <2>5
<1>13. CASE UploadsInVain
  <2>1. worker.pc = "upload" => (CHOOSE s \in worker.todo : TRUE) \in Saved
    BY DEF Workers
  <2>2. \A s \in Saved, final \in BOOLEAN : Commit(s, final) \in Commits
    BY DEF Commit, Commits
  <2>3. hub' \in Seq(Commits)
    <3>1. CASE At("upload") /\ hub' = Append(hub, Commit(CHOOSE s \in worker.todo : TRUE, FALSE))
      <4>1. Commit(CHOOSE s \in worker.todo : TRUE, FALSE) \in Commits
        BY <3>1, <2>1, <2>2 DEF At
      <4> QED BY <3>1, <4>1, AppendProperties
    <3>2. CASE hub' = Append(hub, Commit(MaxSteps, TRUE))
      <4>1. Commit(MaxSteps, TRUE) \in Commits
        BY <2>2
      <4> QED BY <3>2, <4>1, AppendProperties
    <3> QED BY <1>13, <3>1, <3>2 DEF UploadsInVain
  <2>4. child' \in Children /\ pipe' \in Pipes
    BY <1>13 DEF UploadsInVain, Children, Pipes
  <2> QED BY <1>13, <2>3, <2>4 DEF UploadsInVain, States
<1>14. CASE Completes
  <2>1. worker' \in Workers /\ worker'.pc = "final"
    BY <1>14 DEF Completes, Goes, Workers
  <2>2. out' \in Outs
    BY <1>14 DEF Completes, Outs, Pipes
  <2> QED BY <1>14, <2>1, <2>2 DEF Completes
<1>15. CASE Returns
  <2> DEFINE said == Emit(out, Event("checkpoint", MaxSteps, Len(hub')), TRUE)
  <2>1. hub' \in Seq(Commits) /\ Len(hub') \in Nat
    <3>1. Commit(MaxSteps, TRUE) \in Commits
      BY DEF Commit, Commits
    <3>2. hub' = Append(hub, Commit(MaxSteps, TRUE))
      BY <1>15 DEF Returns
    <3> QED BY <3>1, <3>2, AppendProperties, LenProperties
  <2>2. said \in Outs
    <3>1. Event("checkpoint", MaxSteps, Len(hub')) \in Events
      BY <2>1 DEF Event, Events
    <3> QED BY <3>1, EmitType
  <2>3. out' \in Outs
    <3>1. Event("log", MaxSteps, EOF) \in Events
      BY DEF Event, Events
    <3> QED BY <1>15, <2>2, <3>1, EmitType DEF Returns
  <2>4. worker' \in Workers /\ worker'.pc = "returned"
    BY <1>15 DEF Returns, Goes, Workers
  <2> QED BY <1>15, <2>1, <2>3, <2>4 DEF Returns, States
<1>16. CASE DeadlinePasses
  BY <1>16 DEF DeadlinePasses
<1>17. ASSUME NEW state \in {"cancelled", "failed"}, Cancelled(state) PROVE WorkloadTypeOK'
  <2>1. child' \in Children /\ pipe' \in Pipes
    BY <1>17 DEF Cancelled, Children, Pipes
  <2> QED BY <1>17, <2>1 DEF Cancelled, States
<1> QED BY <1>1, <1>2, <1>3, <1>4, <1>5, <1>6, <1>7, <1>8, <1>9, <1>10, <1>11, <1>12, <1>13,
           <1>14, <1>15, <1>16, <1>17 DEF Workload

\* The trainer's requests are the only ones to report to an external run, the monitor
\* the only one to report to a managed one.
Apart ==
    IF managed THEN \A i \in DOMAIN Reports : wire[i] = 0 ELSE page = NoPage

\* What holds of the first and, with a number, of the next, holds up to the last.
LEMMA UpTo ==
    ASSUME NEW L \in Nat, NEW T, 0 \in T, \A n \in 0..(L - 1) : n \in T => n + 1 \in T
    PROVE  \A n \in 0..L : n \in T
<1> DEFINE B == {n \in 0..L : n \notin T}
           n == Min(B)
<1> SUFFICES ASSUME B # {} PROVE FALSE
  OBVIOUS
<1>1. n \in B /\ \A m \in B : n <= m
  <2>1. B \in SUBSET Nat
    OBVIOUS
  <2> HIDE DEF B
  <2> QED BY <2>1, LeastOf
<1> HIDE DEF n
<1>2. n # 0 /\ n - 1 \in 0..(L - 1) /\ n - 1 + 1 = n
  BY <1>1
<1>3. n - 1 \in T
  BY <1>1, <1>2
<1> QED BY <1>1, <1>2, <1>3

\* The run after the first events of a page.
LEMMA ShownUpToIs ==
    ASSUME NEW r, NEW events, Len(out.events) \in Nat
    PROVE  LET f == ShownUpTo(r, events) IN
           /\ f[0] = r
           /\ \A n \in 1..Len(out.events) :
                  f[n] = IF n \in events THEN Shown(f[n - 1], n) ELSE f[n - 1]
<1> DEFINE L == Len(out.events)
           Step(x, n) == IF n \in events THEN Shown(x, n) ELSE x
           Builds(g, m) == g = [n \in 0..m |-> IF n = 0 THEN r ELSE Step(g[n - 1], n)]
           T == {m \in Nat : \E g : Builds(g, m)}
<1> HIDE DEF L
<1>1. 0 \in T
  <2>1. Builds([n \in 0..0 |-> r], 0)
    <3> HIDE DEF Step
    <3> QED OBVIOUS
  <2> QED BY <2>1
<1>2. \A m \in 0..(L - 1) : m \in T => m + 1 \in T
  <2> SUFFICES ASSUME NEW m \in Nat, m \in T PROVE m + 1 \in T
    BY DEF L
  <2>1. PICK g : Builds(g, m)
    OBVIOUS
  <2> HIDE DEF Step
  <2> DEFINE h == [n \in 0..(m + 1) |-> IF n <= m THEN g[n] ELSE Step(g[m], n)]
  <2>2. \A n \in 0..m : h[n] = g[n]
    OBVIOUS
  <2>3. \A n \in 0..(m + 1) : h[n] = IF n = 0 THEN r ELSE Step(h[n - 1], n)
    <3> TAKE n \in 0..(m + 1)
    <3>1. CASE n <= m
      <4>1. h[n] = g[n] /\ g[n] = IF n = 0 THEN r ELSE Step(g[n - 1], n)
        BY <3>1, <2>1, <2>2
      <4>2. n # 0 => h[n - 1] = g[n - 1]
        BY <3>1, <2>2
      <4> QED BY <4>1, <4>2
    <3>2. CASE n = m + 1
      <4>1. h[n] = Step(g[m], n) /\ n # 0 /\ n - 1 = m
        BY <3>2
      <4>2. h[m] = g[m]
        BY <2>2
      <4> QED BY <4>1, <4>2
    <3> QED BY <3>1, <3>2
  <2>4. Builds(h, m + 1)
    <3> DEFINE k == [n \in 0..(m + 1) |-> IF n = 0 THEN r ELSE Step(h[n - 1], n)]
    <3>1. \A n \in 0..(m + 1) : h[n] = k[n]
      BY <2>3
    <3>2. h = k
      BY <3>1
    <3> QED BY <3>2
  <2> HIDE DEF h, Builds
  <2> QED BY <2>4
<1>3. L \in T
  <2> HIDE DEF T
  <2>1. L \in Nat
    BY DEF L
  <2>2. \A m \in 0..L : m \in T
    BY <1>1, <1>2, <2>1, UpTo
  <2> QED BY <2>1, <2>2
<1>4. PICK g : Builds(g, L)
  BY <1>3
<1> DEFINE f == CHOOSE h : h = [n \in 0..L |-> IF n = 0 THEN r ELSE Step(h[n - 1], n)]
<1>5. f = [n \in 0..L |-> IF n = 0 THEN r ELSE Step(f[n - 1], n)]
  BY <1>4
<1>6. f = ShownUpTo(r, events)
  BY DEF ShownUpTo, L
<1>7. f[0] = r /\ \A n \in 1..L : f[n] = Step(f[n - 1], n)
  <2> HIDE DEF f, Step
  <2>1. L \in Nat
    BY DEF L
  <2> QED BY <1>5, <2>1
<1> QED BY <1>6, <1>7 DEF L

\* An event shown leaves a run in order.
LEMMA ShownFits ==
    ASSUME NEW r, Fit(r), NEW n \in DOMAIN out.events, out \in Outs
    PROVE  Fit(Shown(r, n))
<1>1. out.events[n] \in Events
  BY DEF Outs
<1> DEFINE e == out.events[n]
<1> HIDE DEF e
<1>2. e \in Events
  BY <1>1 DEF e
<1>3. CASE e.kind = "metric"
  BY <1>2, <1>3, MetricAppended DEF Shown, Fit, e, Events
<1>4. CASE e.kind = "checkpoint"
  BY <1>2, <1>4, CheckpointAppended DEF Shown, Fit, e, Events
<1>5. CASE e.kind = "log"
  BY <1>2, <1>5, LineAppended DEF Shown, Fit, e, Events
<1> QED BY <1>2, <1>3, <1>4, <1>5 DEF Events

\* What is printed and committed stays.
Extends(s, t) == Len(s) <= Len(t) /\ \A i \in 1..Len(s) : t[i] = s[i]

\* What _EventEmitter.emit does only ever adds to the log;
LEMMA EmitExtends ==
    ASSUME NEW o \in Outs, NEW e \in Events, NEW n,
           n = [o EXCEPT !.events = Append(o.events, e)] \/ n = [o EXCEPT !.truncated = TRUE]
    PROVE  Extends(o.events, n.events) /\ (o.truncated => n.truncated)
<1>1. o.events \in Seq(Events) /\ Len(o.events) \in Nat /\ o = [events |-> o.events, truncated |-> o.truncated]
  BY DEF Outs
<1>2. Extends(o.events, Append(o.events, e))
  BY <1>1, AppendProperties DEF Extends
<1>3. Extends(o.events, o.events)
  BY <1>1 DEF Extends
<1> QED BY <1>1, <1>2, <1>3

\* so does the emitter itself,
LEMMA EmitGrows ==
    ASSUME NEW o \in Outs, NEW e \in Events, NEW essential \in BOOLEAN
    PROVE  LET n == Emit(o, e, essential) IN
           n \in Outs /\ Extends(o.events, n.events) /\ (o.truncated => n.truncated)
<1> DEFINE n == Emit(o, e, essential)
<1>1. n \in Outs /\ (\/ n = [o EXCEPT !.events = Append(o.events, e)]
                     \/ n = [o EXCEPT !.truncated = TRUE])
  BY EmitType
<1>2. n \in Outs /\ Extends(o.events, n.events) /\ (o.truncated => n.truncated)
  <2> HIDE DEF n
  <2> QED BY <1>1, EmitExtends
<1> QED BY <1>2

\* and a line of the system or of LeRobot.
LEMMA LogGrows ==
    ASSUME NEW o \in Outs, NEW step \in Nat, NEW line \in Nat
    PROVE  LET n == Log(o, step, line) IN
           n \in Outs /\ Extends(o.events, n.events) /\ (o.truncated => n.truncated)
<1> DEFINE n == Log(o, step, line)
           e == Event("log", step, line)
<1>1. n \in Outs /\ e \in Events /\ (\/ n = [o EXCEPT !.events = Append(o.events, e)]
                                      \/ n = [o EXCEPT !.truncated = TRUE])
  BY LogType
<1>2. n \in Outs /\ Extends(o.events, n.events) /\ (o.truncated => n.truncated)
  <2> HIDE DEF n, e
  <2> QED BY <1>1, EmitExtends
<1> QED BY <1>2

\* Longer than what is longer.
LEMMA ExtendsOn ==
    ASSUME NEW S, NEW s \in Seq(S), NEW t \in Seq(S), NEW u \in Seq(S),
           Extends(s, t), Extends(t, u)
    PROVE  Extends(s, u)
<1>1. Len(s) \in Nat /\ Len(t) \in Nat /\ Len(u) \in Nat
  OBVIOUS
<1> QED BY <1>1 DEF Extends

\* The workload never takes an event, a commit or a truncation back.
LEMMA NothingTakenBack ==
    ASSUME WorkloadTypeOK, Workload \/ \E state \in {"cancelled", "failed"} : Cancelled(state)
    PROVE  /\ Extends(out.events, out'.events) /\ Extends(hub, hub')
           /\ out.truncated => out'.truncated
<1> USE StepsAre
<1>0. out \in Outs /\ hub \in Seq(Commits) /\ out' \in Outs /\ hub' \in Seq(Commits)
  BY WorkloadTyped DEF WorkloadTypeOK
<1>a. out.events \in Seq(Events) /\ Len(out.events) \in Nat /\ Len(hub) \in Nat
  BY <1>0 DEF Outs
<1>1. out' = out => Extends(out.events, out'.events) /\ (out.truncated => out'.truncated)
  BY <1>a DEF Extends
<1>2. hub' = hub => Extends(hub, hub')
  BY <1>a DEF Extends
<1>3. \A c \in Commits : hub' = Append(hub, c) => Extends(hub, hub')
  BY <1>0, <1>a, AppendProperties DEF Extends
<1>4. CASE UNCHANGED <<out, hub>>
  BY <1>1, <1>2, <1>4
<1>5. CASE VerifiesMarker
  <2>1. out' = Log(out, EOF, EOF) /\ hub' = hub
    BY <1>5 DEF VerifiesMarker
  <2>2. EOF \in Nat
    OBVIOUS
  <2> QED BY <1>0, <1>2, <2>1, <2>2, LogGrows
<1>6. CASE Takes
  <2> DEFINE line == Head(pipe.queue)
             step == ParsedStep(line, pipe.dropped)
             logged == Log(out, step, line)
  <2>0. hub' = hub
    BY <1>6 DEF Takes
  <2>1. CASE pipe.queue = <<>> \/ line = EOF
    <3>1. out' = out
      BY <1>6, <2>1 DEF Takes
    <3> QED BY <2>0, <3>1, <1>4
  <2>2. CASE pipe.queue # <<>> /\ line # EOF
    <3>1. line \in 0..MaxSteps /\ pipe.dropped \in BOOLEAN
      BY <2>2, HeadTailProperties DEF WorkloadTypeOK, Pipes
    <3>2. line \in Steps /\ line \in Nat /\ step \in Nat
      BY <3>1, <2>2, ParsedStepIs DEF Steps
    <3>3. logged \in Outs /\ Extends(out.events, logged.events) /\ (out.truncated => logged.truncated)
      <4> HIDE DEF step, line
      <4> QED BY <1>0, <3>2, LogGrows
    <3>4. CASE step = NoStep
      BY <1>6, <1>2, <2>0, <2>2, <3>3, <3>4 DEF Takes
    <3>5. CASE step # NoStep
      <4>1. out' = Emit(logged, Event("metric", step, line), FALSE)
        BY <1>6, <2>2, <3>5 DEF Takes
      <4>2. Event("metric", step, line) \in Events
        BY <3>2 DEF Event, Events
      <4>3. Extends(logged.events, out'.events) /\ (logged.truncated => out'.truncated)
        <5> DEFINE e == Event("metric", step, line)
        <5>1. out' = Emit(logged, e, FALSE) /\ e \in Events
          BY <4>1, <4>2
        <5> HIDE DEF e, logged
        <5> QED BY <3>3, <5>1, EmitGrows
      <4>4. logged.events \in Seq(Events) /\ out'.events \in Seq(Events)
        BY <1>0, <3>3 DEF Outs
      <4> QED BY <1>a, <1>2, <2>0, <3>3, <4>3, <4>4, ExtendsOn
    <3> QED BY <3>4, <3>5
  <2> QED BY <2>1, <2>2
<1>7. CASE Uploads
  <2>1. PICK s \in worker.todo : /\ hub' = Append(hub, Commit(s, FALSE))
                                 /\ out' = Emit(out, Event("checkpoint", s, Len(hub')), TRUE)
    BY <1>7 DEF Uploads
  <2>2. s \in Saved /\ Commit(s, FALSE) \in Commits
    BY DEF Commit, Commits, Workers, WorkloadTypeOK
  <2>3. Event("checkpoint", s, Len(hub')) \in Events
    BY <1>0, <2>2 DEF Event, Events
  <2>4. Extends(out.events, out'.events) /\ (out.truncated => out'.truncated)
    <3> DEFINE e == Event("checkpoint", s, Len(hub'))
    <3>1. out' = Emit(out, e, TRUE) /\ e \in Events
      BY <2>1, <2>3
    <3> HIDE DEF e
    <3> QED BY <1>0, <3>1, EmitGrows
  <2> QED BY <1>3, <2>1, <2>2, <2>4
<1>8. CASE UploadsInVain
  <2>1. worker.pc = "upload" => (CHOOSE s \in worker.todo : TRUE) \in Saved
    BY DEF Workers, WorkloadTypeOK
  <2>2. \A s \in Saved, final \in BOOLEAN : Commit(s, final) \in Commits
    BY DEF Commit, Commits
  <2>3. out' = out
    BY <1>8 DEF UploadsInVain
  <2>4. CASE At("upload") /\ hub' = Append(hub, Commit(CHOOSE s \in worker.todo : TRUE, FALSE))
    <3>1. Commit(CHOOSE s \in worker.todo : TRUE, FALSE) \in Commits
      BY <2>1, <2>2, <2>4 DEF At
    <3> QED BY <1>1, <1>3, <2>3, <2>4, <3>1
  <2>5. CASE hub' = Append(hub, Commit(MaxSteps, TRUE))
    BY <1>1, <1>3, <2>2, <2>3, <2>5
  <2> QED BY <1>8, <2>4, <2>5 DEF UploadsInVain
<1>9. CASE Completes
  <2>1. hub' = hub /\ out'.events = out.events /\ (out.truncated => out'.truncated)
    BY <1>0, <1>9 DEF Completes, Outs
  <2>2. Extends(out.events, out'.events)
    BY <1>a, <2>1 DEF Extends
  <2> QED BY <1>2, <2>1, <2>2
<1>10. CASE Returns
  <2> DEFINE said == Emit(out, Event("checkpoint", MaxSteps, Len(hub')), TRUE)
  <2>1. hub' = Append(hub, Commit(MaxSteps, TRUE)) /\ Commit(MaxSteps, TRUE) \in Commits
    BY <1>10 DEF Returns, Commit, Commits
  <2>2. Event("checkpoint", MaxSteps, Len(hub')) \in Events /\ Event("log", MaxSteps, EOF) \in Events
    BY <1>0 DEF Event, Events
  <2>3. said \in Outs /\ Extends(out.events, said.events) /\ (out.truncated => said.truncated)
    <3> DEFINE e == Event("checkpoint", MaxSteps, Len(hub'))
    <3>1. said = Emit(out, e, TRUE) /\ e \in Events
      BY <2>2
    <3> HIDE DEF e, said
    <3> QED BY <1>0, <3>1, EmitGrows
  <2>4. out' = said \/ out' = Emit(said, Event("log", MaxSteps, EOF), TRUE)
    BY <1>10 DEF Returns
  <2> HIDE DEF said
  <2>5. CASE out' = said
    BY <1>3, <2>1, <2>3, <2>5
  <2>6. CASE out' = Emit(said, Event("log", MaxSteps, EOF), TRUE)
    <3>1. Extends(said.events, out'.events) /\ (said.truncated => out'.truncated)
      <4> DEFINE e == Event("log", MaxSteps, EOF)
      <4>1. out' = Emit(said, e, TRUE) /\ e \in Events
        BY <2>2, <2>6
      <4> HIDE DEF e
      <4> QED BY <2>3, <4>1, EmitGrows
    <3>2. said.events \in Seq(Events) /\ out'.events \in Seq(Events)
      BY <1>0, <2>3 DEF Outs
    <3> QED BY <1>a, <1>3, <2>1, <2>3, <3>1, <3>2, ExtendsOn
  <2> QED BY <2>4, <2>5, <2>6
<1>11. ASSUME Workload, ~VerifiesMarker, ~Takes, ~Uploads, ~UploadsInVain, ~Completes, ~Returns
       PROVE  UNCHANGED <<out, hub>>
  BY <1>11 DEF Workload, Trains, Saves, Exits, Reads, Begins, Aborts, Fetches, Seals, StartsChild,
               Scans, DeadlinePasses
<1>12. ASSUME NEW state, Cancelled(state) PROVE UNCHANGED <<out, hub>>
  BY <1>12 DEF Cancelled
<1> QED BY <1>4, <1>5, <1>6, <1>7, <1>8, <1>9, <1>10, <1>11, <1>12

-----------------------------------------------------------------------------
(* Pages of the console *)

\* A bounded set of naturals has a greatest member.
LEMMA GreatestOf ==
    ASSUME NEW L \in Nat, NEW S \in SUBSET (0..L), S # {}
    PROVE  Max(S) \in S /\ \A y \in S : y <= Max(S)
<1> DEFINE B == {m \in Nat : \A y \in S : y <= m}
           top == Min(B)
<1>1. L \in B /\ B \in SUBSET Nat
  OBVIOUS
<1>2. top \in B /\ \A m \in B : top <= m
  <2> HIDE DEF B
  <2> QED BY <1>1, LeastOf
<1> HIDE DEF top
<1>3. top \in S
  <2> SUFFICES ASSUME top \notin S PROVE FALSE
    OBVIOUS
  <2>1. PICK y \in S : TRUE
    OBVIOUS
  <2>2. top # 0 /\ top - 1 \in Nat
    BY <1>2, <2>1
  <2>3. \A z \in S : z <= top - 1
    BY <1>2
  <2>4. top - 1 \in B
    BY <2>2, <2>3
  <2> QED BY <1>2, <2>2, <2>4
<1>4. \A y \in S : top >= y
  BY <1>2
<1>5. \E x \in S : \A y \in S : x >= y
  BY <1>3, <1>4
<1>6. Max(S) \in S /\ \A y \in S : Max(S) >= y
  BY <1>5 DEF Max
<1> QED BY <1>6

Numbers(lines) == {line.number : line \in ToSet(lines)}

\* A part of the console shows the numbers it is numbered with.
LEMMA PartIs ==
    ASSUME NEW c \in Seq(Numbered), Contiguous(c), c # <<>>,
           NEW i \in 1..(Len(c) + 1), NEW j \in 0..Len(c)
    PROVE  LET t == SubSeq(c, i, j)
               h == c[1].number IN
           /\ h \in Nat \ {0} /\ LastNumber(c) = h + Len(c) - 1
           /\ Len(t) = IF i <= j THEN j - i + 1 ELSE 0
           /\ Numbers(t) = (h + i - 1)..(h + j - 1)
           /\ i <= j => t # <<>> /\ Last(t).number = h + j - 1
           /\ i > j => t = <<>>
<1> DEFINE t == SubSeq(c, i, j)
           h == c[1].number
<1>1. Len(c) \in Nat /\ Len(c) >= 1 /\ DOMAIN c = 1..Len(c)
  BY EmptySeq, LenProperties
<1>2. \A k \in 1..Len(c) : c[k] \in Numbered /\ c[k].number = h + k - 1 /\ h >= 1
  BY <1>1 DEF Contiguous
<1>3. h \in Nat /\ h >= 1
  <2>1. 1 \in 1..Len(c)
    BY <1>1
  <2>2. c[1] \in Numbered
    BY <1>2, <2>1
  <2> QED BY <1>2, <2>1, <2>2 DEF Numbered
<1>4. LastNumber(c) = h + Len(c) - 1
  <2>1. Len(c) \in 1..Len(c)
    BY <1>1
  <2> QED BY <1>2, <2>1 DEF LastNumber
<1>5. /\ t \in Seq(Numbered)
      /\ Len(t) = IF i <= j THEN j - i + 1 ELSE 0
      /\ \A k \in 1..(j - i + 1) : t[k] = c[i + k - 1]
  <2>1. \A k \in i..j : c[k] \in Numbered
    BY <1>1, <1>2
  <2>2. i \in Int /\ j \in Int
    OBVIOUS
  <2> HIDE DEF h
  <2> QED BY <2>1, <2>2, SubSeqProperties
<1> HIDE DEF t, h
<1>6. Len(t) \in Nat /\ DOMAIN t = 1..Len(t)
  BY <1>5, LenProperties
<1>7. \A k \in 1..Len(t) : t[k].number = h + (i + k - 1) - 1
  <2> TAKE k \in 1..Len(t)
  <2>1. k \in 1..(j - i + 1) /\ i + k - 1 \in 1..Len(c)
    BY <1>5, <1>6, <1>1
  <2> QED BY <2>1, <1>2, <1>5
<1>8. Numbers(t) = (h + i - 1)..(h + j - 1)
  <2>1. ASSUME NEW n \in Numbers(t) PROVE n \in (h + i - 1)..(h + j - 1)
    <3>1. PICK k \in 1..Len(t) : n = t[k].number
      BY <1>6 DEF Numbers, ToSet
    <3> QED BY <3>1, <1>3, <1>5, <1>6, <1>7
  <2>2. ASSUME NEW n \in (h + i - 1)..(h + j - 1) PROVE n \in Numbers(t)
    <3> DEFINE k == n - h - i + 2
    <3>1. k \in 1..Len(t) /\ h + (i + k - 1) - 1 = n
      BY <1>3, <1>5, <1>6
    <3>2. t[k].number = n /\ t[k] \in ToSet(t)
      BY <3>1, <1>6, <1>7 DEF ToSet
    <3> QED BY <3>2 DEF Numbers
  <2> QED BY <2>1, <2>2
<1>9. ASSUME i <= j PROVE t # <<>> /\ Last(t).number = h + j - 1
  <2>1. Len(t) \in 1..Len(t) /\ Len(t) = j - i + 1
    BY <1>9, <1>5, <1>6
  <2>2. t # <<>>
    BY <2>1
  <2> QED BY <2>1, <2>2, <1>3, <1>7 DEF Last
<1>10. ASSUME i > j PROVE t = <<>>
  BY <1>10, <1>5, EmptySeq
<1>11. h \in Nat \ {0}
  BY <1>3
<1> QED BY <1>4, <1>5, <1>8, <1>9, <1>10, <1>11 DEF t, h

\* The newest lines lead to the end; untruncated they are all.
LEMMA NewestPageIs ==
    ASSUME NEW c \in Seq(Numbered), Contiguous(c), c # <<>>, NEW limit \in Nat \ {0}
    PROVE  LET a == NewestPage(c, limit) IN
           /\ a.truncated \in BOOLEAN /\ a.next = LastNumber(c) /\ a.next \in Nat
           /\ Numbers(a.lines) \subseteq Nat
           /\ ~a.truncated => Numbers(a.lines) = 1..a.next
<1> DEFINE i == IF Len(c) > limit THEN Len(c) - limit + 1 ELSE 1
           t == SubSeq(c, i, Len(c))
           h == c[1].number
           a == NewestPage(c, limit)
<1>1. Len(c) \in Nat /\ Len(c) >= 1
  BY EmptySeq
<1>2. i \in 1..(Len(c) + 1) /\ Len(c) \in 0..Len(c) /\ i <= Len(c) /\ i \in Nat
  BY <1>1
<1>3. a = [lines |-> t, truncated |-> Len(t) < Len(c) \/ (c # <<>> /\ Head(c).number > 1),
           next |-> IF t # <<>> THEN Last(t).number
                    ELSE IF c # <<>> THEN Last(c).number ELSE 0]
  BY DEF NewestPage, PageOf
<1> HIDE DEF i
<1>4. /\ h \in Nat \ {0} /\ LastNumber(c) = h + Len(c) - 1
      /\ Len(t) = Len(c) - i + 1
      /\ Numbers(t) = (h + i - 1)..(h + Len(c) - 1)
      /\ t # <<>> /\ Last(t).number = h + Len(c) - 1
  BY <1>2, PartIs
<1>5. Head(c) = c[1]
  OBVIOUS
<1> HIDE DEF t, a
<1>6. ~a.truncated => i = 1 /\ h = 1
  <2>1. ~a.truncated => ~(Len(t) < Len(c)) /\ ~(Head(c).number > 1)
    BY <1>3
  <2> HIDE DEF h
  <2>2. Head(c).number = h
    BY <1>5 DEF h
  <2> QED BY <2>1, <2>2, <1>1, <1>2, <1>4
<1>7. a.truncated \in BOOLEAN
  BY <1>3
<1> HIDE DEF h
<1>8. Numbers(t) \subseteq Nat /\ a.next = h + Len(c) - 1 /\ a.next \in Nat /\ a.lines = t
  BY <1>1, <1>2, <1>3, <1>4
<1> QED BY <1>1, <1>4, <1>6, <1>7, <1>8 DEF a

\* A page after a number that is there ends within the console; untruncated it goes on
\* where the last one ended.
LEMMA PageAfterIs ==
    ASSUME NEW c \in Seq(Numbered), Contiguous(c), c # <<>>, NEW limit \in Nat \ {0},
           NEW after \in Nat
    PROVE  LET a == PageAfter(c, after, limit) IN
           /\ a.truncated \in BOOLEAN /\ a.next \in Nat /\ a.next <= LastNumber(c)
           /\ Numbers(a.lines) \subseteq Nat
           /\ ~a.truncated /\ after <= LastNumber(c) =>
                  after <= a.next /\ Numbers(a.lines) = (after + 1)..a.next
<1> DEFINE N == {i \in DOMAIN c : c[i].number > after} \cup {Len(c) + 1}
           i == Min(N)
           j == Lesser(Len(c), i + limit - 1)
           t == SubSeq(c, i, j)
           h == c[1].number
           a == PageAfter(c, after, limit)
<1>1. Len(c) \in Nat /\ Len(c) >= 1 /\ DOMAIN c = 1..Len(c)
  BY EmptySeq, LenProperties
<1>2. N \in SUBSET Nat /\ N # {}
  BY <1>1
<1>3. i \in N /\ \A k \in N : i <= k
  <2> HIDE DEF N
  <2> QED BY <1>2, LeastOf
<1>4. a = [lines |-> t, truncated |-> c # <<>> /\ after + 1 < Head(c).number,
           next |-> IF t # <<>> THEN Last(t).number
                    ELSE IF c # <<>> THEN Last(c).number ELSE after]
  BY DEF PageAfter, PageOf, LinesAfter
<1> HIDE DEF i
<1>5. i \in 1..(Len(c) + 1) /\ i \in Nat
  BY <1>1, <1>3
<1> HIDE DEF N
<1>6. j \in 0..Len(c) /\ (i <= Len(c) => i <= j) /\ j \in Nat
  BY <1>1, <1>5 DEF Lesser
<1> HIDE DEF j
<1>7. /\ h \in Nat \ {0} /\ LastNumber(c) = h + Len(c) - 1
      /\ Numbers(t) = (h + i - 1)..(h + j - 1)
      /\ i <= j => t # <<>> /\ Last(t).number = h + j - 1
      /\ i > j => t = <<>>
  BY <1>5, <1>6, PartIs
<1>8. \A k \in 1..Len(c) : c[k].number = h + k - 1
  BY <1>1 DEF Contiguous
<1>9. Last(c).number = h + Len(c) - 1 /\ Head(c) = c[1]
  <2>1. Len(c) \in 1..Len(c)
    BY <1>1
  <2> QED BY <1>8, <2>1 DEF Last
<1> HIDE DEF t, a, h
<1>10. a.truncated <=> after + 1 < h
  BY <1>4, <1>9 DEF h
<1>11. after + 1 >= h /\ after <= LastNumber(c) => i = after + 2 - h
  <2> SUFFICES ASSUME after + 1 >= h, after <= LastNumber(c) PROVE i = after + 2 - h
    OBVIOUS
  <2> DEFINE k == after + 2 - h
  <2>1. k \in 1..(Len(c) + 1)
    BY <1>1, <1>7
  <2>2. k \in N
    <3>1. CASE k = Len(c) + 1
      BY <3>1 DEF N
    <3>2. CASE k \in 1..Len(c)
      <4>1. c[k].number = after + 1
        BY <3>2, <1>7, <1>8
      <4> QED BY <4>1, <3>2, <1>1 DEF N
    <3> QED BY <2>1, <3>1, <3>2
  <2>3. k <= i
    <3>1. CASE i = Len(c) + 1
      BY <2>1, <3>1
    <3>2. CASE i \in 1..Len(c) /\ c[i].number > after
      <4>1. c[i].number = h + i - 1
        BY <3>2, <1>8
      <4> QED BY <4>1, <3>2, <1>7
    <3> QED BY <1>1, <1>3, <3>1, <3>2 DEF N
  <2> QED BY <2>1, <2>2, <2>3, <1>3, <1>5
<1>12. a.lines = t /\ a.next \in Nat /\ a.next <= LastNumber(c) /\ a.truncated \in BOOLEAN
  <2>1. CASE i <= j
    BY <2>1, <1>1, <1>4, <1>6, <1>7
  <2>2. CASE i > j
    BY <2>2, <1>1, <1>4, <1>6, <1>7, <1>9
  <2> QED BY <2>1, <2>2, <1>5, <1>6
<1>13. Numbers(t) \subseteq Nat
  BY <1>5, <1>6, <1>7
<1>14. ASSUME ~a.truncated, after <= LastNumber(c) PROVE after <= a.next /\ Numbers(t) = (after + 1)..a.next
  <2>1. i = after + 2 - h
    BY <1>10, <1>11, <1>14, <1>7
  <2>2. CASE i <= j
    <3>1. a.next = h + j - 1
      BY <2>2, <1>4, <1>7
    <3> QED BY <2>1, <2>2, <3>1, <1>5, <1>6, <1>7
  <2>3. CASE i > j
    <3>1. i = Len(c) + 1
      BY <2>3, <1>1, <1>5, <1>6
    <3>2. a.next = h + Len(c) - 1 /\ h + i - 1 = after + 1
      BY <2>1, <2>3, <1>4, <1>7, <1>9
    <3>3. after = a.next
      BY <3>1, <3>2, <1>1, <1>7
    <3>4. Numbers(t) = {}
      <4>1. (h + i - 1)..(h + j - 1) = {}
        BY <2>3, <1>5, <1>6, <1>7
      <4> QED BY <4>1, <1>7
    <3>5. (after + 1)..a.next = {}
      BY <3>3
    <3>6. after <= a.next
      BY <3>3
    <3> QED BY <3>4, <3>5, <3>6
  <2> QED BY <2>2, <2>3, <1>5, <1>6
<1> QED BY <1>12, <1>13, <1>14 DEF a

-----------------------------------------------------------------------------
(* Every step keeps the types, and the two kinds of runs apart *)

EventsBase == EventsTypeOK /\ Apart

\* A page stored, event by event, leaves a run in order at every one of them;
LEMMA ShownUpToFits ==
    ASSUME NEW r, Fit(r), NEW events, out \in Outs
    PROVE  \A n \in 0..Len(out.events) : Fit(ShownUpTo(r, events)[n])
<1> DEFINE L == Len(out.events)
           f == ShownUpTo(r, events)
           T == {n \in Nat : Fit(f[n])}
<1>1. L \in Nat /\ DOMAIN out.events = 1..L
  BY DEF Outs
<1>2. f[0] = r /\ \A n \in 1..L : f[n] = IF n \in events THEN Shown(f[n - 1], n) ELSE f[n - 1]
  BY <1>1, ShownUpToIs
<1> HIDE DEF f
<1>3. 0 \in T
  BY <1>2
<1>4. \A n \in 0..(L - 1) : n \in T => n + 1 \in T
  <2> SUFFICES ASSUME NEW n \in 0..(L - 1), Fit(f[n]) PROVE Fit(f[n + 1])
    BY <1>1
  <2>1. n + 1 \in 1..L /\ n + 1 - 1 = n
    BY <1>1
  <2>2. Fit(Shown(f[n], n + 1))
    BY <2>1, <1>1, ShownFits
  <2>3. f[n + 1] = Shown(f[n], n + 1) \/ f[n + 1] = f[n]
    BY <1>2, <2>1
  <2> QED BY <2>2, <2>3
<1>5. \A n \in 0..L : n \in T
  <2> HIDE DEF T, L
  <2> QED BY <1>1, <1>3, <1>4, UpTo
<1> QED BY <1>5 DEF f

\* so does a trainer's report.
LEMMA ReportedFits ==
    ASSUME Fit(run), NEW i \in DOMAIN Reports
    PROVE  Fit(Reported(run, Reports[i]))
<1> DEFINE e == Reports[i]
<1>1. e \in [kind : {"metric", "checkpoint", "log", "step"}, step : Nat, of : Nat]
  <2>1. Reports \in Seq([kind : {"metric", "checkpoint", "log", "step"}, step : Nat, of : Nat])
    BY EventsAssumption
  <2>2. i \in 1..Len(Reports)
    BY <2>1, LenProperties
  <2> QED BY <2>1, <2>2, ElementOfSeq
<1> HIDE DEF e
<1>2. CASE e.kind = "metric"
  BY <1>1, <1>2, MetricAppended DEF Reported, Fit, e
<1>3. CASE e.kind = "checkpoint"
  BY <1>1, <1>3, CheckpointAppended DEF Reported, Fit, e
<1>4. CASE e.kind = "log"
  <2> DEFINE n == AppendConsole(run, e.of)
  <2>1. /\ n \in Runs /\ Contiguous(n.console)
        /\ n.points = run.points /\ n.checkpoints = run.checkpoints
    BY <1>1, LineAppended DEF Fit
  <2> HIDE DEF n
  <2>2. Later(n.step, e.step) \in Nat
    BY <1>1, <2>1 DEF Runs, Later
  <2>3. Fit([n EXCEPT !.step = Later(n.step, e.step)])
    BY <2>1, <2>2 DEF Fit, Runs
  <2>4. Reported(run, e) = [n EXCEPT !.step = Later(n.step, e.step)]
    BY <1>4 DEF Reported, n
  <2> QED BY <2>3, <2>4 DEF e
<1>5. CASE e.kind = "step"
  BY <1>1, <1>5 DEF Reported, Patched, Fit, Runs, e
<1> QED BY <1>1, <1>2, <1>3, <1>4, <1>5

\* A page of a part of the log.
LEMMA PageTyped ==
    ASSUME out \in Outs, record.cursor \in Nat,
           NEW shown \in SUBSET (DOMAIN out.events), NEW cut \in BOOLEAN
    PROVE  Page(shown, cut) \in Pages /\ Page(shown, cut).events \subseteq DOMAIN out.events
<1> DEFINE new == {n \in shown : n > record.cursor}
           events == {n \in new : Cardinality({m \in new : m < n}) < PageLimit}
           top == IF shown = {} THEN record.cursor ELSE Later(record.cursor, Max(shown))
           gap == cut \/ \E n \in new : n - 1 # record.cursor /\ n - 1 \notin new
<1>1. Len(out.events) \in Nat /\ DOMAIN out.events = 1..Len(out.events)
  BY DEF Outs
<1>2. shown # {} => Max(shown) \in shown
  <2>1. shown \in SUBSET (0..Len(out.events))
    BY <1>1
  <2> QED BY <1>1, <2>1, GreatestOf
<1>3. top \in Nat
  BY <1>1, <1>2 DEF Later
<1>4. events \subseteq DOMAIN out.events /\ events \in SUBSET Nat
  BY <1>1
<1>5. gap \in BOOLEAN /\ (events # new) \in BOOLEAN
  OBVIOUS
<1>6. Page(shown, cut) = [stage |-> "tailed", events |-> events, more |-> events # new,
                          gap |-> gap, highest |-> top, state |-> "unknown", output |-> 0]
  BY DEF Page
<1> HIDE DEF events, top, gap, new
<1>7. [stage |-> "tailed", events |-> events, more |-> events # new,
       gap |-> gap, highest |-> top, state |-> "unknown", output |-> 0] \in Pages
  BY <1>3, <1>4, <1>5 DEF Pages, States
<1> QED BY <1>4, <1>6, <1>7

\* Every step keeps the types, the order of what a run holds, and the two kinds of run apart.
LEMMA EventsTyped ==
    ASSUME EventsBase, EventsNext
    PROVE  EventsBase'
<1> USE DEF EventsBase, EventsTypeOK, Apart
<1>0. /\ out \in Outs /\ hub \in Seq(Commits) /\ call \in States /\ DOMAIN out.events \subseteq Nat
      /\ Len(hub) \in Nat
  <2>1. out \in Outs /\ hub \in Seq(Commits) /\ call \in States
    BY DEF WorkloadTypeOK
  <2>2. DOMAIN out.events \subseteq Nat
    BY <2>1 DEF Outs
  <2> QED BY <2>1, <2>2
<1>a. page # NoPage => page \in Pages
  OBVIOUS
<1>b. workload' = workload => WorkloadTypeOK' /\ out' = out /\ hub' = hub
  BY DEF workload, WorkloadTypeOK
<1>c. NoPage \notin Pages
  BY DEF NoPage, Pages
<1>1. CASE Works \/ CallStops
  <2>1. WorkloadTypeOK' /\ Extends(out.events, out'.events)
    BY <1>1, WorkloadTyped, NothingTakenBack DEF Works, CallStops
  <2>2. DOMAIN out.events \subseteq DOMAIN out'.events
    <3>1. out' \in Outs
      BY <2>1 DEF WorkloadTypeOK
    <3>2. /\ DOMAIN out.events = 1..Len(out.events) /\ Len(out.events) \in Nat
          /\ DOMAIN out'.events = 1..Len(out'.events) /\ Len(out'.events) \in Nat
      BY <1>0, <3>1 DEF Outs
    <3> QED BY <2>1, <3>2 DEF Extends
  <2>3. UNCHANGED <<managed, run, monitor, outside, reader>>
    BY <1>1 DEF Works, CallStops
  <2> QED BY <2>1, <2>2, <2>3 DEF monitor, outside
<1>2. CASE Tails
  <2>1. PICK shown \in SUBSET (DOMAIN out.events), cut \in BOOLEAN : page' = Page(shown, cut)
    BY <1>2 DEF Tails
  <2>2. page' \in Pages /\ page'.events \subseteq DOMAIN out.events
    BY <2>1, <1>0, PageTyped
  <2> QED BY <1>2, <1>b, <2>2 DEF Tails, outside
<1>3. CASE AsksCall
  <2>1. UNCHANGED <<workload, managed, run, record, outside, reader>> /\ page.stage = "tailed"
    BY <1>3 DEF AsksCall
  <2>2. page \in Pages /\ page.events \subseteq DOMAIN out.events
    BY <2>1 DEF NoPage
  <2>3. page' # NoPage => page' \in Pages /\ page'.events = page.events
    <3>1. CASE page' = [page EXCEPT !.stage = "polled"]
      BY <2>2, <3>1 DEF Pages
    <3>2. CASE page' = [page EXCEPT !.stage = "polled", !.state = call]
      BY <2>2, <3>2, <1>0 DEF Pages
    <3>3. CASE page' = [WithResult(page) EXCEPT !.stage = "polled"]
      <4>1. (page.gap \/ out.truncated \/ Len(out.events) > page.highest) \in BOOLEAN
        BY <1>0, <2>2 DEF Pages, Outs
      <4> QED BY <2>2, <3>3, <4>1, <1>0 DEF Pages, WithResult, States
    <3> QED BY <1>3, <3>1, <3>2, <3>3 DEF AsksCall
  <2> QED BY <1>b, <2>1, <2>2, <2>3, <1>c DEF outside
<1>4. CASE Ingests
  <2>1. UNCHANGED <<workload, managed, outside, reader>> /\ page.stage = "polled"
    BY <1>4 DEF Ingests
  <2>2. page \in Pages /\ page.events \subseteq DOMAIN out.events
    BY <2>1 DEF NoPage
  <2>3. CASE Persisted(page) /\ page' = [page EXCEPT !.stage = "persisted"]
    <3>1. Fit(run')
      <4>1. Len(out.events) \in 0..Len(out.events)
        BY <1>0 DEF Outs
      <4> QED BY <2>3, <4>1, <1>0, ShownUpToFits DEF Persisted
    <3>2. record' \in [cursor : Nat, gap : BOOLEAN, outcome : States, output : Nat]
      <4>1. page.events # {} => Max(page.events) \in Nat
        <5>1. Len(out.events) \in Nat /\ page.events \in SUBSET (0..Len(out.events))
          BY <1>0, <2>2 DEF Outs
        <5>2. page.events # {} => Max(page.events) \in page.events
          BY <5>1, GreatestOf
        <5> QED BY <5>1, <5>2
      <4>2. (IF page.events = {} THEN record.cursor ELSE Later(record.cursor, Max(page.events))) \in Nat
        BY <4>1 DEF Later
      <4>3. (record.gap \/ page.gap) \in BOOLEAN
        BY <2>2 DEF Pages
      <4> QED BY <2>3, <4>2, <4>3 DEF Persisted
    <3>3. page' \in Pages /\ page'.events = page.events
      BY <2>2, <2>3 DEF Pages
    <3> QED BY <1>b, <2>1, <2>2, <3>1, <3>2, <3>3, <1>c DEF outside
  <2>4. CASE page' = NoPage /\ UNCHANGED <<run, record>>
    BY <1>b, <2>1, <2>4 DEF outside
  <2>5. CASE page' = NoPage /\ record' = [record EXCEPT !.outcome = FirstOutcome("failed")] /\ UNCHANGED run
    BY <1>b, <2>1, <2>5 DEF outside, FirstOutcome, States
  <2> QED BY <1>4, <2>3, <2>4, <2>5 DEF Ingests
<1>5. CASE StoresResult
  <2>1. UNCHANGED <<workload, managed, outside, reader>> /\ page.stage = "persisted"
    BY <1>5 DEF StoresResult
  <2>2. page \in Pages /\ page.events \subseteq DOMAIN out.events
    BY <2>1 DEF NoPage
  <2>3. CASE page' = NoPage /\ UNCHANGED <<run, record>>
    BY <1>b, <2>1, <2>3 DEF outside
  <2>4. CASE /\ run' = AppendCheckpoint(run, MaxSteps, page.output)
             /\ record' = [record EXCEPT !.output = page.output]
             /\ page' = [page EXCEPT !.stage = "stored"]
    <3>1. page.output \in Nat /\ MaxSteps \in Nat
      BY <2>2, StepsAre DEF Pages
    <3>2. Fit(run')
      <4> DEFINE n == AppendCheckpoint(run, MaxSteps, page.output)
      <4>1. n \in Runs /\ Ordered(n.checkpoints) /\ n.points = run.points /\ n.console = run.console
        <5>1. run \in Runs /\ Ordered(run.checkpoints)
          BY DEF Fit
        <5> HIDE DEF n, EventsBase, EventsTypeOK
        <5> QED BY <3>1, <5>1, CheckpointAppended DEF n
      <4> HIDE DEF n
      <4>2. Fit(n)
        BY <4>1 DEF Fit
      <4> QED BY <2>4, <4>2 DEF n
    <3>3. page' \in Pages /\ page'.events = page.events
      BY <2>2, <2>4 DEF Pages
    <3> QED BY <1>b, <2>1, <2>2, <2>4, <3>1, <3>2, <3>3, <1>c DEF outside
  <2> QED BY <1>5, <2>3, <2>4 DEF StoresResult
<1>6. CASE Concludes
  <2>1. UNCHANGED <<workload, managed, run, outside, reader>> /\ page' = NoPage
    BY <1>6 DEF Concludes
  <2>2. \/ record' = record
        \/ page # NoPage /\ record' = [record EXCEPT !.outcome = FirstOutcome(page.state)]
    BY <1>6 DEF Concludes, NoPage
  <2>3. record' \in [cursor : Nat, gap : BOOLEAN, outcome : States, output : Nat]
    BY <2>2 DEF FirstOutcome, Pages
  <2> QED BY <1>b, <2>1, <2>3 DEF outside
<1>7. CASE Cancels \/ Expires
  <2>1. /\ UNCHANGED <<workload, managed, run, page, outside, reader>>
        /\ record' = [record EXCEPT !.outcome = "cancelled"]
    BY <1>7 DEF Cancels, Expires
  <2> QED BY <1>b, <2>1 DEF outside, States
<1>8. CASE Restarts
  <2>1. UNCHANGED <<workload, managed, run, record, outside, reader>> /\ page' = NoPage
    BY <1>8 DEF Restarts
  <2> QED BY <1>b, <2>1 DEF outside
<1>9. CASE Sends
  <2>1. UNCHANGED <<workload, managed, run, monitor, reader>> /\ ~managed
    BY <1>9 DEF Sends
  <2>2. trainer' \in [next : Nat \ {0}, waits : BOOLEAN, sends : Nat] /\ wire' \in [DOMAIN Reports -> Nat]
    <3>1. trainer' = [trainer EXCEPT !.waits = TRUE, !.sends = trainer.sends + 1]
      BY <1>9 DEF Sends
    <3>2. trainer.next \in DOMAIN Reports /\ wire' = [wire EXCEPT ![trainer.next] = wire[trainer.next] + 1]
      BY <1>9 DEF Sends
    <3>3. wire[trainer.next] + 1 \in Nat
      BY <3>2
    <3>4. trainer' \in [next : Nat \ {0}, waits : BOOLEAN, sends : Nat]
      <4> DEFINE k == trainer.sends + 1
      <4>1. k \in Nat /\ trainer' = [trainer EXCEPT !.waits = TRUE, !.sends = k]
        BY <3>1
      <4>2. trainer \in [next : Nat \ {0}, waits : BOOLEAN, sends : Nat]
        OBVIOUS
      <4> HIDE DEF k, EventsBase, EventsTypeOK
      <4> QED BY <4>1, <4>2
    <3>5. wire' \in [DOMAIN Reports -> Nat]
      <4> DEFINE i == trainer.next
                 k == wire[i] + 1
      <4>1. i \in DOMAIN Reports /\ k \in Nat /\ wire' = [wire EXCEPT ![i] = k]
        BY <3>2, <3>3
      <4> HIDE DEF i, k
      <4> QED BY <4>1
    <3> QED BY <3>4, <3>5
  <2> QED BY <1>b, <2>1, <2>2 DEF monitor
<1>10. CASE TimesOut
  <2>1. UNCHANGED <<workload, managed, run, monitor, wire, reader>>
    BY <1>10 DEF TimesOut
  <2>2. trainer' \in [next : Nat \ {0}, waits : BOOLEAN, sends : Nat]
    BY <1>10 DEF TimesOut
  <2> QED BY <1>b, <2>1, <2>2 DEF monitor
<1>11. ASSUME NEW i \in DOMAIN Reports, Handles(i) PROVE EventsBase'
  <2>1. UNCHANGED <<workload, managed, monitor, reader>> /\ wire[i] > 0
    BY <1>11 DEF Handles
  <2>2. ~managed
    BY <2>1
  <2>3. wire' \in [DOMAIN Reports -> Nat]
    <3>1. wire' = [wire EXCEPT ![i] = @ - 1] /\ wire[i] - 1 \in Nat
      BY <1>11 DEF Handles
    <3> QED BY <3>1
  <2>4. Fit(run')
    BY <1>11, ReportedFits DEF Handles
  <2>5. trainer' \in [next : Nat \ {0}, waits : BOOLEAN, sends : Nat]
    <3>1. i \in Nat
      BY EventsAssumption
    <3>2. CASE Answered(i)
      <4>1. CASE trainer' = trainer
        BY <4>1
      <4>2. CASE trainer' = [next |-> i + 1, waits |-> FALSE, sends |-> 0]
        BY <3>1, <4>2
      <4> QED BY <3>2, <4>1, <4>2 DEF Answered
    <3>3. CASE trainer' = [trainer EXCEPT !.waits = trainer.next # i /\ @]
      BY <3>3
    <3> QED BY <1>11, <3>2, <3>3 DEF Handles
  <2> QED BY <1>b, <2>1, <2>2, <2>3, <2>4, <2>5 DEF monitor
<1>12. CASE BeginsReading \/ GoesOnReading
  <2>1. /\ UNCHANGED <<workload, managed, run, monitor, outside>>
        /\ run.console # <<>> /\ run.console \in Seq(Numbered) /\ Contiguous(run.console)
    BY <1>12 DEF BeginsReading, GoesOnReading, TurnsPage, Fit, Runs
  <2>2. PICK a : TurnsPage(a) /\ a \in {NewestPage(run.console, ReadLimit),
                                        PageAfter(run.console, reader.cursor, ReadLimit)}
    BY <1>12 DEF BeginsReading, GoesOnReading
  <2>3. a.next \in Nat /\ a.truncated \in BOOLEAN /\ Numbers(a.lines) \subseteq Nat
    <3>1. ReadLimit \in Nat \ {0} /\ reader.cursor \in Nat
      BY EventsAssumption
    <3>2. CASE a = NewestPage(run.console, ReadLimit)
      BY <2>1, <3>1, <3>2, NewestPageIs
    <3>3. CASE a = PageAfter(run.console, reader.cursor, ReadLimit)
      BY <2>1, <3>1, <3>3, PageAfterIs
    <3> QED BY <2>2, <3>2, <3>3
  <2>4. reader' \in [cursor : Nat, got : SUBSET Nat, told : BOOLEAN]
    BY <2>2, <2>3 DEF TurnsPage, Numbers
  <2> QED BY <1>b, <2>1, <2>4 DEF monitor, outside
<1> QED BY <1>1, <1>2, <1>3, <1>4, <1>5, <1>6, <1>7, <1>8, <1>9, <1>10, <1>11, <1>12 DEF EventsNext

-----------------------------------------------------------------------------
(* An external run's reports *)

\* Nothing that was answered is missing.
AnsweredInv ==
    ~managed => \A i \in DOMAIN Reports : i < trainer.next =>
        /\ Reports[i].kind = "metric" =>
               \E j \in Of("metric") : Reports[j].step = Reports[i].step /\ Holds(run.points, j)
        /\ Reports[i].kind = "checkpoint" => Holds(run.checkpoints, i)
        /\ Reports[i].step <= run.step

\* A report of the trainer.
LEMMA ReportIs ==
    ASSUME NEW i \in DOMAIN Reports
    PROVE  /\ i \in Nat
           /\ Reports[i] \in [kind : {"metric", "checkpoint", "log", "step"}, step : Nat, of : Nat]
<1>1. Reports \in Seq([kind : {"metric", "checkpoint", "log", "step"}, step : Nat, of : Nat])
  BY EventsAssumption
<1>2. i \in 1..Len(Reports) /\ i \in Nat
  BY <1>1, LenProperties
<1>3. Reports[i] \in [kind : {"metric", "checkpoint", "log", "step"}, step : Nat, of : Nat]
  BY <1>1, <1>2, ElementOfSeq
<1> QED BY <1>2, <1>3

\* To hold a report is to have its entry.
LEMMA HoldsIs ==
    ASSUME NEW s \in Seq(Entries), NEW i \in DOMAIN Reports
    PROVE  Holds(s, i) <=> [step |-> Reports[i].step, of |-> Reports[i].of] \in ToSet(s)
<1>1. DOMAIN s = 1..Len(s)
  OBVIOUS
<1> QED BY <1>1 DEF Holds, Contains, ToSet

\* A report is there once it is stored, and takes at most the place of one of its step.
LEMMA ReportedKeeps ==
    ASSUME Fit(run), NEW i \in DOMAIN Reports
    PROVE  LET e == Reports[i]
               x == [step |-> e.step, of |-> e.of]
               n == Reported(run, e) IN
           /\ \A p \in ToSet(run.points) :
                  p \in ToSet(n.points) \/ (e.kind = "metric" /\ p.step = e.step)
           /\ e.kind = "metric" => x \in ToSet(n.points)
           /\ ToSet(run.checkpoints) \subseteq ToSet(n.checkpoints)
           /\ e.kind = "checkpoint" => x \in ToSet(n.checkpoints)
           /\ n.step \in Nat /\ n.step >= run.step /\ n.step >= e.step
<1> DEFINE e == Reports[i]
           n == Reported(run, e)
<1>1. e \in [kind : {"metric", "checkpoint", "log", "step"}, step : Nat, of : Nat]
  BY ReportIs
<1>2. run \in Runs /\ run.step \in Nat
  BY DEF Fit, Runs
<1>3. \A a, b \in Nat : Later(a, b) \in Nat /\ Later(a, b) >= a /\ Later(a, b) >= b
  BY DEF Later
<1> HIDE DEF e
<1>4. CASE e.kind = "metric"
  <2>1. n = AppendMetric(run, e.step, e.of)
    BY <1>4 DEF Reported
  <2>2. /\ ToSet(n.points) = {p \in ToSet(run.points) : p.step # e.step}
                                 \cup {[step |-> e.step, of |-> e.of]}
        /\ n.checkpoints = run.checkpoints /\ n.step = Later(run.step, e.step)
    <3>1. e.step \in Nat /\ e.of \in Nat /\ OncePerStep(run.points)
      BY <1>1 DEF Fit
    <3> DEFINE m == AppendMetric(run, e.step, e.of)
    <3>2. /\ ToSet(m.points) = {p \in ToSet(run.points) : p.step # e.step}
                                   \cup {[step |-> e.step, of |-> e.of]}
          /\ m.checkpoints = run.checkpoints /\ m.step = Later(run.step, e.step)
      BY <1>2, <3>1, MetricAppended, Zenon
    <3> HIDE DEF n, m
    <3> QED BY <2>1, <3>2 DEF m
  <2> HIDE DEF n
  <2> QED BY <1>1, <1>2, <1>3, <1>4, <2>2 DEF n, e
<1>5. CASE e.kind = "checkpoint"
  <2>1. n = AppendCheckpoint(run, e.step, e.of)
    BY <1>5 DEF Reported
  <2>2. /\ ToSet(n.checkpoints) = ToSet(run.checkpoints) \cup {[step |-> e.step, of |-> e.of]}
        /\ n.points = run.points /\ n.step = Later(run.step, e.step)
    <3>1. e.step \in Nat /\ e.of \in Nat /\ Ordered(run.checkpoints)
      BY <1>1 DEF Fit
    <3> DEFINE m == AppendCheckpoint(run, e.step, e.of)
    <3>2. /\ ToSet(m.checkpoints) = ToSet(run.checkpoints) \cup {[step |-> e.step, of |-> e.of]}
          /\ m.points = run.points /\ m.step = Later(run.step, e.step)
      <4> DEFINE step == e.step
                 of == e.of
      <4>1. step \in Nat /\ of \in Nat /\ run \in Runs /\ Ordered(run.checkpoints)
        BY <1>2, <3>1
      <4> HIDE DEF step, of
      <4>2. /\ ToSet(AppendCheckpoint(run, step, of).checkpoints)
                   = ToSet(run.checkpoints) \cup {[step |-> step, of |-> of]}
            /\ AppendCheckpoint(run, step, of).points = run.points
            /\ AppendCheckpoint(run, step, of).step = Later(run.step, step)
        BY <4>1, CheckpointAppended, Zenon
      <4> QED BY <4>2 DEF step, of
    <3> HIDE DEF n, m
    <3> QED BY <2>1, <3>2 DEF m
  <2> HIDE DEF n
  <2> QED BY <1>1, <1>2, <1>3, <1>5, <2>2 DEF n, e
<1>6. CASE e.kind = "log"
  <2> DEFINE m == AppendConsole(run, e.of)
  <2>1. n = [m EXCEPT !.step = Later(m.step, e.step)]
    BY <1>6 DEF Reported
  <2>2. m \in Runs /\ m.points = run.points /\ m.checkpoints = run.checkpoints /\ m.step = run.step
    BY <1>1, LineAppended DEF Fit
  <2> HIDE DEF m, n
  <2>3. n.points = run.points /\ n.checkpoints = run.checkpoints /\ n.step = Later(run.step, e.step)
    BY <2>1, <2>2 DEF Runs
  <2> QED BY <1>1, <1>2, <1>3, <1>6, <2>3 DEF n, e
<1>7. CASE e.kind = "step"
  <2>1. n = [run EXCEPT !.step = IF e.step < run.step THEN run.step ELSE e.step]
    BY <1>7 DEF Reported, Patched
  <2> HIDE DEF n
  <2>2. /\ n.points = run.points /\ n.checkpoints = run.checkpoints
        /\ n.step = IF e.step < run.step THEN run.step ELSE e.step
    BY <1>2, <2>1 DEF Runs
  <2> QED BY <1>1, <1>2, <1>7, <2>2 DEF n, e
<1> QED BY <1>1, <1>4, <1>5, <1>6, <1>7

\* No step loses what was answered: a retry adds or replaces, and current_step only rises.
LEMMA AnsweredKept ==
    ASSUME EventsBase, AnsweredInv, EventsNext
    PROVE  AnsweredInv'
<1>0. EventsBase'
  BY EventsTyped
<1>a. \A r : Fit(r) => r \in Runs /\ r.points \in Seq(Entries) /\ r.checkpoints \in Seq(Entries)
  BY DEF Fit, Runs
<1>b. Fit(run) /\ Fit(run')
  BY <1>0 DEF EventsBase, EventsTypeOK
<1> SUFFICES ASSUME ~managed' PROVE AnsweredInv'
  BY DEF AnsweredInv
<1>1. managed' = managed /\ ~managed
  BY DEF EventsNext, Works, Tails, AsksCall, Ingests, StoresResult, Concludes, Cancels, Expires,
         Restarts, CallStops, Sends, TimesOut, Handles, BeginsReading, GoesOnReading, TurnsPage
<1>p. page = NoPage /\ page.stage = "none"
  BY <1>1 DEF EventsBase, Apart, NoPage
<1>2. CASE run' = run /\ trainer'.next = trainer.next
  BY <1>1, <1>2 DEF AnsweredInv, Holds
<1>3. ASSUME NEW i \in DOMAIN Reports, Handles(i) PROVE AnsweredInv'
  <2>1. CASE run' = run /\ trainer' = [trainer EXCEPT !.waits = trainer.next # i /\ @]
    <3>1. trainer'.next = trainer.next
      BY <2>1 DEF EventsBase, EventsTypeOK
    <3> QED BY <1>2, <2>1, <3>1
  <2>2. CASE run' = Reported(run, Reports[i]) /\ Answered(i)
    <3> DEFINE e == Reports[i]
               x == [step |-> e.step, of |-> e.of]
    <3>1. /\ \A p \in ToSet(run.points) :
                 p \in ToSet(run'.points) \/ (e.kind = "metric" /\ p.step = e.step)
          /\ e.kind = "metric" => x \in ToSet(run'.points)
          /\ ToSet(run.checkpoints) \subseteq ToSet(run'.checkpoints)
          /\ e.kind = "checkpoint" => x \in ToSet(run'.checkpoints)
          /\ run'.step \in Nat /\ run'.step >= run.step /\ run'.step >= e.step
      BY <1>b, <2>2, ReportedKeeps
    <3>2. \A k \in DOMAIN Reports : k < trainer'.next => k < trainer.next \/ k = i
      BY <2>2, ReportIs DEF Answered, EventsBase, EventsTypeOK
    <3>3. /\ run.points \in Seq(Entries) /\ run.checkpoints \in Seq(Entries) /\ run.step \in Nat
          /\ run'.points \in Seq(Entries) /\ run'.checkpoints \in Seq(Entries)
      BY <1>a, <1>b DEF Runs
    <3> SUFFICES ASSUME NEW k \in DOMAIN Reports, k < trainer.next \/ k = i
                 PROVE  /\ Reports[k].kind = "metric" =>
                             \E j \in Of("metric") : /\ Reports[j].step = Reports[k].step
                                                      /\ Holds(run'.points, j)
                        /\ Reports[k].kind = "checkpoint" => Holds(run'.checkpoints, k)
                        /\ Reports[k].step <= run'.step
      BY <3>2 DEF AnsweredInv
    <3>4. Reports[k].step \in Nat /\ e.step \in Nat
      BY ReportIs
    <3>5. ASSUME Reports[k].kind = "metric"
          PROVE  \E j \in Of("metric") : Reports[j].step = Reports[k].step /\ Holds(run'.points, j)
      <4>1. CASE k = i
        <5>1. i \in Of("metric") /\ Holds(run'.points, i)
          BY <3>1, <3>3, <3>5, <4>1, HoldsIs DEF Of
        <5> QED BY <5>1, <4>1
      <4>2. CASE k < trainer.next
        <5>1. PICK j \in Of("metric") : Reports[j].step = Reports[k].step /\ Holds(run.points, j)
          BY <1>1, <3>5, <4>2 DEF AnsweredInv
        <5>2. j \in DOMAIN Reports
          BY DEF Of
        <5> DEFINE p == [step |-> Reports[j].step, of |-> Reports[j].of]
        <5>3. p \in ToSet(run.points)
          BY <3>3, <5>1, <5>2, HoldsIs
        <5>4. CASE p \in ToSet(run'.points)
          <6>1. Holds(run'.points, j)
            BY <3>3, <5>2, <5>4, HoldsIs
          <6> QED BY <5>1, <6>1
        <5>5. CASE e.kind = "metric" /\ p.step = e.step
          <6>1. i \in Of("metric") /\ Holds(run'.points, i)
            BY <3>1, <3>3, <5>5, HoldsIs DEF Of
          <6>2. Reports[i].step = Reports[k].step
            BY <5>1, <5>5
          <6> QED BY <6>1, <6>2
        <5> QED BY <3>1, <5>3, <5>4, <5>5
      <4> QED BY <4>1, <4>2
    <3>6. ASSUME Reports[k].kind = "checkpoint" PROVE Holds(run'.checkpoints, k)
      <4>1. CASE k = i
        BY <3>1, <3>3, <3>6, <4>1, HoldsIs
      <4>2. CASE k < trainer.next
        <5>1. Holds(run.checkpoints, k)
          BY <1>1, <3>6, <4>2 DEF AnsweredInv
        <5> QED BY <3>1, <3>3, <5>1, HoldsIs
      <4> QED BY <4>1, <4>2
    <3>7. Reports[k].step <= run'.step
      <4>1. CASE k = i
        BY <3>1, <3>4, <4>1
      <4>2. CASE k < trainer.next
        <5>1. Reports[k].step <= run.step
          BY <1>1, <4>2 DEF AnsweredInv
        <5> QED BY <3>1, <3>3, <3>4, <5>1
      <4> QED BY <4>1, <4>2
    <3> QED BY <3>5, <3>6, <3>7
  <2> QED BY <1>3, <2>1, <2>2 DEF Handles
<1>4. CASE Sends \/ TimesOut
  <2>1. run' = run /\ trainer'.next = trainer.next
    BY <1>4 DEF Sends, TimesOut, EventsBase, EventsTypeOK
  <2> QED BY <1>2, <2>1
<1>5. CASE BeginsReading \/ GoesOnReading
  <2>1. run' = run /\ trainer' = trainer
    BY <1>5 DEF BeginsReading, GoesOnReading, TurnsPage, outside
  <2> QED BY <1>2, <2>1
<1>6. ~(Works \/ Tails \/ AsksCall \/ Ingests \/ StoresResult \/ Concludes \/ Cancels \/ Expires
        \/ Restarts \/ CallStops)
  BY <1>1, <1>p DEF Works, Tails, AsksCall, Ingests, StoresResult, Concludes, Cancels, Expires,
                   Restarts, CallStops
<1> QED BY <1>3, <1>4, <1>5, <1>6 DEF EventsNext

\* What was answered is what ReportsSurviveRetries asks for.
LEMMA ReportsSurvive ==
    ASSUME EventsBase, AnsweredInv
    PROVE  ReportsSurviveRetries
<1>1. /\ run.points \in Seq(Entries) /\ run.checkpoints \in Seq(Entries)
      /\ OncePerStep(run.points) /\ Ordered(run.checkpoints)
  BY DEF EventsBase, EventsTypeOK, Fit, Runs
<1>2. /\ \A k \in DOMAIN run.points : k > 1 => k - 1 \in DOMAIN run.points /\ k - 1 < k
      /\ \A k \in DOMAIN run.checkpoints : k > 1 => k - 1 \in DOMAIN run.checkpoints /\ k - 1 < k
  BY <1>1, LenProperties
<1>3. InOrder(run.checkpoints)
  BY <1>1, <1>2 DEF InOrder, Ordered
<1>4. \A k \in DOMAIN run.points : k > 1 => run.points[k - 1].step < run.points[k].step
  BY <1>1, <1>2 DEF OncePerStep
<1> QED BY <1>3, <1>4 DEF ReportsSurviveRetries, AnsweredInv, Of

-----------------------------------------------------------------------------
(* What the worker commits *)

\* An event more at the end, or none and the truncation known.
Added(o, n, e) ==
    /\ n \in Outs
    /\ \/ /\ n.truncated = o.truncated /\ Len(n.events) = Len(o.events) + 1
          /\ \A k \in 1..Len(o.events) : n.events[k] = o.events[k]
          /\ n.events[Len(o.events) + 1] = e
       \/ n.truncated /\ n.events = o.events

\* The emitter adds the event, or says that it left one out;
LEMMA EmitAdds ==
    ASSUME NEW o \in Outs, NEW e \in Events, NEW essential \in BOOLEAN
    PROVE  Added(o, Emit(o, e, essential), e)
<1> DEFINE n == Emit(o, e, essential)
<1>1. n \in Outs /\ (\/ n = [o EXCEPT !.events = Append(o.events, e)]
                     \/ n = [o EXCEPT !.truncated = TRUE])
  BY EmitType
<1>2. o.events \in Seq(Events) /\ o = [events |-> o.events, truncated |-> o.truncated]
  BY DEF Outs
<1> HIDE DEF n
<1>3. ASSUME n = [o EXCEPT !.events = Append(o.events, e)] PROVE Added(o, n, e)
  <2>1. n.events = Append(o.events, e) /\ n.truncated = o.truncated
    BY <1>2, <1>3
  <2> QED BY <1>1, <1>2, <2>1, AppendProperties DEF Added
<1>4. ASSUME n = [o EXCEPT !.truncated = TRUE] PROVE Added(o, n, e)
  <2>1. n.events = o.events /\ n.truncated = TRUE
    BY <1>2, <1>4
  <2> QED BY <1>1, <2>1 DEF Added
<1>5. Added(o, n, e)
  BY <1>1, <1>3, <1>4
<1> QED BY <1>5 DEF n

\* a line is an event like any other.
LEMMA LogAdds ==
    ASSUME NEW o \in Outs, NEW step \in Nat, NEW line \in Nat
    PROVE  Event("log", step, line) \in Events /\ Added(o, Log(o, step, line), Event("log", step, line))
<1> DEFINE e == Event("log", step, line)
<1>1. e \in Events
  BY DEF Event, Events
<1>2. Log(o, step, line) = Emit(o, e, FALSE) \/ Log(o, step, line) = [o EXCEPT !.truncated = TRUE]
  BY DEF Log
<1> HIDE DEF e
<1>3. ASSUME Log(o, step, line) = [o EXCEPT !.truncated = TRUE]
      PROVE  Added(o, Log(o, step, line), e)
  BY <1>3 DEF Added, Outs
<1>4. ASSUME Log(o, step, line) = Emit(o, e, FALSE)
      PROVE  Added(o, Log(o, step, line), e)
  BY <1>1, <1>4, EmitAdds
<1> QED BY <1>1, <1>2, <1>3, <1>4 DEF e

Beginning == {"spec", "marker", "inputs", "fetched", "sealed"}

WorkloadMoves == Workload \/ \E state \in {"cancelled", "failed"} : Cancelled(state)

\* While LeRobot runs, every checkpoint it should have left is there; so is what the
\* worker is about to upload.
DirsInv ==
    /\ call = "pending" => worker.pc = "spec"
    /\ worker.pc \in Beginning => child.state = "none" /\ child.step = 0 /\ worker.todo = {}
    /\ child.state \in {"running", "exited"} =>
           \A s \in Saved : s < child.step => child.dirs[s] = "done"
    /\ child.state = "exited" => child.step = MaxSteps /\ child.dirs[MaxSteps] = "done"
    /\ \A s \in worker.todo : child.dirs[s] = "done"
    /\ worker.pc \in {"final", "returned"} => child.dirs[MaxSteps] = "done"

\* Every commit is of a whole checkpoint, every checkpoint event names its commit, and a
\* call that has succeeded made the last one.
Names(e, commits) ==
    e.kind = "checkpoint" => e.of \in DOMAIN commits /\ commits[e.of].step = e.step
HubInv ==
    /\ \A k \in DOMAIN hub : hub[k].whole
    /\ \A n \in DOMAIN out.events : Names(out.events[n], hub)
    /\ call = "succeeded" =>
           /\ worker.pc = "returned" /\ Len(hub) \in DOMAIN hub
           /\ hub[Len(hub)].final /\ hub[Len(hub)].step = MaxSteps

\* A checkpoint's directory, once done, stays done.
LEMMA DirsKept ==
    ASSUME WorkloadTypeOK, DirsInv, WorkloadMoves
    PROVE  DirsInv'
<1> USE StepsAre DEF DirsInv
<1>0. child \in Children /\ worker \in Workers /\ call \in States
  BY DEF WorkloadTypeOK
<1>1. CASE Trains
  <2>1. child' = [child EXCEPT !.step = child.step + 1] /\ child.state = "running"
        /\ UNCHANGED <<worker, out, hub, call, expired>>
    BY <1>1 DEF Trains, ChildAlive
  <2>2. child'.step = child.step + 1 /\ child'.dirs = child.dirs /\ child'.state = child.state
        /\ child.step \in Nat
    BY <1>0, <2>1 DEF Children
  <2>3. \A s \in Saved : s < child.step + 1 => child.dirs[s] = "done"
    <3> TAKE s \in Saved
    <3>1. s \in Nat
      OBVIOUS
    <3>2. s = child.step => child.dirs[s] = "done"
      BY <1>1 DEF Trains
    <3> QED BY <2>1, <2>2, <3>1, <3>2
  <2> QED BY <2>1, <2>2, <2>3
<1>2. CASE Saves
  <2>1. child.state = "running" /\ child.step \in Saved /\ child.dirs[child.step] # "done"
        /\ UNCHANGED <<worker, out, hub, call, expired>>
    BY <1>2 DEF Saves, ChildAlive
  <2>2. \E d \in {"partial", "done"} :
            child' = [child EXCEPT !.dirs = [child.dirs EXCEPT ![child.step] = d]]
    BY <1>2 DEF Saves
  <2>3. /\ child'.step = child.step /\ child'.state = child.state
        /\ \A s \in Saved : s # child.step => child'.dirs[s] = child.dirs[s]
    BY <1>0, <2>1, <2>2 DEF Children
  <2>4. \A s \in Saved : child.dirs[s] = "done" => child'.dirs[s] = "done"
    BY <2>1, <2>3
  <2>5. worker.todo \subseteq Saved
    BY <1>0 DEF Workers
  <2> QED BY <2>1, <2>3, <2>4, <2>5
<1>3. CASE Exits
  <2>1. child.state = "running" /\ UNCHANGED <<worker, out, hub, call, expired>>
    BY <1>3 DEF Exits, ChildAlive
  <2>2. child'.step = child.step /\ child'.dirs = child.dirs
    BY <1>0, <1>3 DEF Exits, Children
  <2>3. child'.state = "exited" => child.step = MaxSteps /\ child.dirs[MaxSteps] = "done"
    BY <1>0, <1>3 DEF Exits, Children
  <2>4. child'.state \in {"exited", "failed"}
    BY <1>0, <1>3 DEF Exits, Children
  <2> QED BY <2>1, <2>2, <2>3, <2>4
<1>4. CASE Reads \/ DeadlinePasses
  <2>1. UNCHANGED <<child, worker, call>>
    BY <1>4 DEF Reads, DeadlinePasses
  <2> QED BY <2>1
<1>5. ASSUME NEW was \in Beginning, NEW pc \in Beginning,
             worker.pc = was, worker' = [worker EXCEPT !.pc = pc], child' = child, call' = "running"
      PROVE  DirsInv'
  <2>1. worker'.pc = pc /\ worker'.todo = worker.todo
    BY <1>0, <1>5 DEF Workers
  <2> QED BY <1>5, <2>1 DEF Beginning
<1>6. CASE Begins \/ VerifiesMarker \/ Fetches \/ Seals
  BY <1>5, <1>6 DEF Begins, VerifiesMarker, Fetches, Seals, At, Goes, Beginning
<1>7. ASSUME worker' = worker, call' # "pending",
             child' = [child EXCEPT !.state = IF ChildAlive THEN "killed" ELSE @]
      PROVE  DirsInv'
  <2>1. child'.step = child.step /\ child'.dirs = child.dirs
        /\ child'.state = IF child.state = "running" THEN "killed" ELSE child.state
    BY <1>0, <1>7 DEF ChildAlive, Children
  <2> QED BY <1>7, <2>1
<1>8. CASE Aborts \/ UploadsInVain \/ \E state \in {"cancelled", "failed"} : Cancelled(state)
  BY <1>7, <1>8 DEF Aborts, UploadsInVain, Cancelled
<1>9. CASE StartsChild
  <2>1. child'.state = "running" /\ child'.step = child.step /\ child'.dirs = child.dirs
        /\ worker'.pc = "take" /\ worker'.todo = worker.todo /\ worker.pc = "sealed" /\ call' = "running"
    BY <1>0, <1>9 DEF StartsChild, Children, Workers, Goes, At
  <2> QED BY <2>1 DEF Beginning
<1>10. CASE Takes
  <2>1. child' = child /\ call' = call /\ worker'.pc = "scan" /\ worker'.todo = worker.todo
        /\ worker.pc = "take"
    BY <1>0, <1>10 DEF Takes, Workers, Goes, At
  <2> QED BY <2>1, <1>10 DEF Beginning, Takes, At
<1>11. CASE Scans
  <2>1. child' = child /\ call' = call /\ worker'.pc \in {"take", "upload"} /\ call = "running"
        /\ worker'.todo = {s \in Saved \ {MaxSteps} : Complete(s)} \ worker.uploaded
    BY <1>0, <1>11 DEF Scans, Workers, At
  <2> QED BY <2>1 DEF Beginning, Complete
<1>12. CASE Uploads
  <2>1. child' = child /\ call' = call /\ worker'.pc \in {"take", "upload"} /\ call = "running"
        /\ worker'.todo \subseteq worker.todo
    BY <1>0, <1>12 DEF Uploads, Workers, At
  <2> QED BY <2>1 DEF Beginning
<1>13. CASE Completes
  <2>1. child' = child /\ call' = call /\ worker'.pc = "final" /\ call = "running"
        /\ worker'.todo = worker.todo /\ child.dirs[MaxSteps] = "done"
    BY <1>0, <1>13 DEF Completes, Workers, At, Goes, Complete
  <2> QED BY <2>1 DEF Beginning
<1>14. CASE Returns
  <2>1. child' = child /\ call' = "succeeded" /\ worker'.pc = "returned" /\ worker.pc = "final"
        /\ worker'.todo = worker.todo
    BY <1>0, <1>14 DEF Returns, Workers, At, Goes
  <2> QED BY <2>1 DEF Beginning
<1> QED BY <1>1, <1>2, <1>3, <1>4, <1>6, <1>8, <1>9, <1>10, <1>11, <1>12, <1>13, <1>14
        DEF WorkloadMoves, Workload

\* With an event more that names its commit, every one does.
LEMMA AddedNames ==
    ASSUME NEW o \in Outs, NEW n, NEW e, NEW h, Added(o, n, e), Names(e, h),
           \A k \in DOMAIN o.events : Names(o.events[k], h)
    PROVE  \A k \in DOMAIN n.events : Names(n.events[k], h)
<1>1. /\ DOMAIN o.events = 1..Len(o.events) /\ Len(o.events) \in Nat
      /\ DOMAIN n.events = 1..Len(n.events) /\ Len(n.events) \in Nat
  BY DEF Added, Outs
<1>2. CASE n.events = o.events
  BY <1>2
<1>3. CASE /\ Len(n.events) = Len(o.events) + 1
           /\ \A k \in 1..Len(o.events) : n.events[k] = o.events[k]
           /\ n.events[Len(o.events) + 1] = e
  <2> TAKE k \in DOMAIN n.events
  <2>1. k \in 1..Len(o.events) \/ k = Len(o.events) + 1
    BY <1>1, <1>3
  <2> QED BY <2>1, <1>1, <1>3
<1> QED BY <1>2, <1>3 DEF Added

\* An upload is verified before its event is emitted, and the last before the call returns.
LEMMA HubKept ==
    ASSUME WorkloadTypeOK, DirsInv, HubInv, WorkloadMoves
    PROVE  HubInv'
<1> USE StepsAre
<1>0. /\ child \in Children /\ worker \in Workers /\ out \in Outs /\ hub \in Seq(Commits)
      /\ Len(hub) \in Nat /\ DOMAIN hub = 1..Len(hub) /\ pipe \in Pipes
  BY DEF WorkloadTypeOK
<1>a. /\ \A k \in DOMAIN hub : hub[k].whole
      /\ \A n \in DOMAIN out.events : Names(out.events[n], hub)
  BY DEF HubInv
<1>1. ASSUME UNCHANGED <<out, hub>>, call' = "succeeded" => call = "succeeded" /\ worker' = worker
      PROVE  HubInv'
  BY <1>1 DEF HubInv
<1>2. ASSUME call' # "succeeded", hub' = hub, NEW e, Added(out, out', e), e.kind # "checkpoint"
      PROVE  HubInv'
  <2>1. Names(e, hub)
    BY <1>2 DEF Names
  <2>2. \A n \in DOMAIN out'.events : Names(out'.events[n], hub)
    BY <1>0, <1>a, <1>2, <2>1, AddedNames
  <2> QED BY <1>2, <1>a, <2>2 DEF HubInv
\* A commit more, and it is whole.
<1>3. ASSUME NEW s \in Saved, NEW final \in BOOLEAN, child.dirs[s] = "done",
             hub' = Append(hub, Commit(s, final))
      PROVE  /\ DOMAIN hub' = 1..(Len(hub) + 1) /\ Len(hub') = Len(hub) + 1
             /\ hub'[Len(hub')].step = s /\ hub'[Len(hub')].final = final
             /\ \A k \in DOMAIN hub' : hub'[k].whole
             /\ \A n \in DOMAIN out.events : Names(out.events[n], hub')
  <2>1. Commit(s, final) \in Commits /\ Commit(s, final).whole /\ Commit(s, final).step = s
        /\ Commit(s, final).final = final
    BY <1>3 DEF Commit, Commits
  <2>2. /\ hub' \in Seq(Commits) /\ Len(hub') = Len(hub) + 1
        /\ \A k \in 1..Len(hub) : hub'[k] = hub[k]
        /\ hub'[Len(hub) + 1] = Commit(s, final)
    BY <1>0, <1>3, <2>1, AppendProperties
  <2>3. DOMAIN hub' = 1..(Len(hub) + 1)
    BY <2>2, LenProperties
  <2>4. \A k \in DOMAIN hub' : k \in DOMAIN hub \/ k = Len(hub) + 1
    BY <1>0, <2>3
  <2>5. \A k \in DOMAIN hub' : hub'[k].whole
    BY <1>0, <1>a, <2>1, <2>2, <2>4
  <2>6. \A n \in DOMAIN out.events : Names(out.events[n], hub')
    BY <1>0, <1>a, <2>2, <2>3 DEF Names
  <2> QED BY <2>1, <2>2, <2>3, <2>5, <2>6
<1>4. CASE Trains \/ Saves \/ Exits \/ Reads \/ DeadlinePasses
  BY <1>1, <1>4 DEF Trains, Saves, Exits, Reads, DeadlinePasses
<1>5. CASE Begins \/ Aborts \/ Fetches \/ Seals \/ StartsChild \/ Scans
           \/ \E state \in {"cancelled", "failed"} : Cancelled(state)
  BY <1>1, <1>5 DEF Begins, Aborts, Fetches, Seals, StartsChild, Scans, Cancelled, At
<1>6. CASE VerifiesMarker
  <2>1. Added(out, out', Event("log", EOF, EOF)) /\ hub' = hub /\ call' # "succeeded"
    BY <1>0, <1>6, LogAdds DEF VerifiesMarker, At
  <2> QED BY <2>1, <1>2 DEF Event
<1>7. CASE Takes
  <2> DEFINE line == Head(pipe.queue)
             step == ParsedStep(line, pipe.dropped)
             logged == Log(out, step, line)
  <2>0. hub' = hub /\ call' = "running"
    BY <1>7 DEF Takes, At
  <2>1. CASE pipe.queue = <<>> \/ line = EOF
    <3>1. out' = out
      BY <1>7, <2>1 DEF Takes
    <3> QED BY <2>0, <3>1, <1>1
  <2>2. CASE pipe.queue # <<>> /\ line # EOF
    <3>1. line \in 0..MaxSteps /\ pipe.dropped \in BOOLEAN
      BY <1>0, <2>2, HeadTailProperties DEF Pipes
    <3>2. line \in Steps /\ line \in Nat /\ step \in Nat
      BY <3>1, <2>2, ParsedStepIs DEF Steps
    <3>3. Added(out, logged, Event("log", step, line))
      <4> HIDE DEF step, line
      <4> QED BY <1>0, <3>2, LogAdds
    <3>4. CASE step = NoStep
      <4>1. out' = logged
        BY <1>7, <2>2, <3>4 DEF Takes
      <4> HIDE DEF logged, step, line
      <4> QED BY <1>2, <2>0, <3>3, <4>1 DEF Event
    <3>5. CASE step # NoStep
      <4>1. out' = Emit(logged, Event("metric", step, line), FALSE)
        BY <1>7, <2>2, <3>5 DEF Takes
      <4> DEFINE e == Event("metric", step, line)
                 d == Event("log", step, line)
      <4>2. e \in Events /\ e.kind = "metric" /\ d.kind = "log"
        BY <3>2 DEF Event, Events
      <4> HIDE DEF logged, e, d, step, line
      <4>3. logged \in Outs /\ Added(out, logged, d) /\ Added(logged, out', e)
        BY <3>3, <4>1, <4>2, EmitAdds DEF Added, d, e
      <4>4. Names(d, hub) /\ Names(e, hub)
        BY <4>2 DEF Names
      <4>5. \A n \in DOMAIN logged.events : Names(logged.events[n], hub)
        BY <1>0, <1>a, <4>3, <4>4, AddedNames
      <4>6. \A n \in DOMAIN out'.events : Names(out'.events[n], hub)
        BY <4>3, <4>4, <4>5, AddedNames
      <4> QED BY <1>a, <2>0, <4>6 DEF HubInv
    <3> QED BY <3>4, <3>5
  <2> QED BY <2>1, <2>2
<1>8. CASE Uploads
  <2>1. PICK s \in worker.todo : /\ hub' = Append(hub, Commit(s, FALSE))
                                 /\ out' = Emit(out, Event("checkpoint", s, Len(hub')), TRUE)
    BY <1>8 DEF Uploads
  <2>2. s \in Saved /\ child.dirs[s] = "done" /\ call' = "running"
    BY <1>0, <1>8 DEF Workers, DirsInv, Uploads, At
  <2> DEFINE e == Event("checkpoint", s, Len(hub'))
  <2>3. /\ DOMAIN hub' = 1..(Len(hub) + 1) /\ Len(hub') = Len(hub) + 1
        /\ hub'[Len(hub')].step = s
        /\ \A k \in DOMAIN hub' : hub'[k].whole
        /\ \A n \in DOMAIN out.events : Names(out.events[n], hub')
    BY <1>3, <2>1, <2>2
  <2>4. e \in Events /\ Names(e, hub')
    BY <1>0, <2>2, <2>3 DEF Event, Events, Names
  <2>5. Added(out, out', e)
    <3> HIDE DEF e
    <3>1. out' = Emit(out, e, TRUE)
      BY <2>1 DEF e
    <3> QED BY <1>0, <2>4, <3>1, EmitAdds
  <2>6. \A n \in DOMAIN out'.events : Names(out'.events[n], hub')
    <3> HIDE DEF e
    <3> QED BY <1>0, <2>3, <2>4, <2>5, AddedNames
  <2> QED BY <2>2, <2>3, <2>6 DEF HubInv
<1>9. CASE UploadsInVain
  <2>1. out' = out /\ call' = "failed"
    BY <1>9 DEF UploadsInVain
  <2>2. CASE At("upload") /\ hub' = Append(hub, Commit(CHOOSE s \in worker.todo : TRUE, FALSE))
    <3> DEFINE s == CHOOSE t \in worker.todo : TRUE
    <3>1. s \in worker.todo
      BY <2>2 DEF At, WorkloadTypeOK
    <3>2. s \in Saved /\ child.dirs[s] = "done"
      BY <1>0, <3>1 DEF Workers, DirsInv
    <3> HIDE DEF s
    <3>3. hub' = Append(hub, Commit(s, FALSE))
      BY <2>2 DEF s
    <3>4. /\ \A k \in DOMAIN hub' : hub'[k].whole
          /\ \A n \in DOMAIN out.events : Names(out.events[n], hub')
      BY <1>3, <3>2, <3>3
    <3> QED BY <2>1, <3>4 DEF HubInv
  <2>3. CASE At("final") /\ hub' = Append(hub, Commit(MaxSteps, TRUE))
    <3>1. child.dirs[MaxSteps] = "done"
      BY <2>3 DEF At, DirsInv
    <3>2. /\ \A k \in DOMAIN hub' : hub'[k].whole
          /\ \A n \in DOMAIN out.events : Names(out.events[n], hub')
      BY <1>3, <2>3, <3>1
    <3> QED BY <2>1, <3>2 DEF HubInv
  <2> QED BY <1>9, <2>2, <2>3 DEF UploadsInVain
<1>10. CASE Completes
  <2>1. hub' = hub /\ out'.events = out.events /\ call' = "running"
    BY <1>0, <1>10 DEF Completes, Outs, At
  <2> QED BY <1>a, <2>1 DEF HubInv
<1>11. CASE Returns
  <2> DEFINE e == Event("checkpoint", MaxSteps, Len(hub'))
             d == Event("log", MaxSteps, EOF)
             said == Emit(out, e, TRUE)
  <2>1. hub' = Append(hub, Commit(MaxSteps, TRUE)) /\ child.dirs[MaxSteps] = "done"
        /\ worker'.pc = "returned"
    BY <1>0, <1>11 DEF Returns, DirsInv, At, Goes, Workers
  <2>2. /\ DOMAIN hub' = 1..(Len(hub) + 1) /\ Len(hub') = Len(hub) + 1
        /\ hub'[Len(hub')].step = MaxSteps /\ hub'[Len(hub')].final = TRUE
        /\ \A k \in DOMAIN hub' : hub'[k].whole
        /\ \A n \in DOMAIN out.events : Names(out.events[n], hub')
    BY <1>3, <2>1
  <2>3. e \in Events /\ d \in Events /\ Names(e, hub') /\ Names(d, hub')
    BY <1>0, <2>2 DEF Event, Events, Names
  <2>4. out' = said \/ out' = Emit(said, d, TRUE)
    BY <1>11 DEF Returns
  <2> HIDE DEF e, d
  <2>5. Added(out, said, e) /\ said \in Outs
    BY <1>0, <2>3, EmitAdds DEF Added
  <2>6. \A n \in DOMAIN said.events : Names(said.events[n], hub')
    <3> HIDE DEF said
    <3> QED BY <1>0, <2>2, <2>3, <2>5, AddedNames
  <2>7. \A n \in DOMAIN out'.events : Names(out'.events[n], hub')
    <3> HIDE DEF said
    <3>1. CASE out' = Emit(said, d, TRUE)
      <4>1. Added(said, out', d)
        BY <2>3, <2>5, <3>1, EmitAdds
      <4> QED BY <2>3, <2>5, <2>6, <4>1, AddedNames
    <3> QED BY <2>4, <2>6, <3>1
  <2>8. Len(hub') \in DOMAIN hub'
    BY <1>0, <2>2
  <2> QED BY <2>1, <2>2, <2>7, <2>8 DEF HubInv
<1> QED BY <1>4, <1>5, <1>6, <1>7, <1>8, <1>9, <1>10, <1>11 DEF WorkloadMoves, Workload

-----------------------------------------------------------------------------
(* The output of a managed job *)

\* It is the call's last commit, and what the run names once it is stored.
OutputInv ==
    managed =>
        /\ page # NoPage /\ page.state = "succeeded" =>
               call = "succeeded" /\ page.output = Len(hub)
        /\ record.output # 0 => call = "succeeded" /\ record.output = Len(hub)
        /\ page # NoPage /\ page.stage = "stored" =>
               page.state = "succeeded" /\ record.output # 0 /\ run.revision = record.output
        /\ record.outcome = "succeeded" =>
               page = NoPage /\ record.output # 0 /\ run.revision = record.output
        /\ \A checkpoint \in ToSet(run.checkpoints) :
               checkpoint.of \in DOMAIN hub /\ hub[checkpoint.of].step = checkpoint.step

\* The checkpoints of a page stored name their commits as its events do.
LEMMA ShownUpToNames ==
    ASSUME NEW r, Fit(r), NEW events, out \in Outs,
           \A n \in DOMAIN out.events : Names(out.events[n], hub),
           \A c \in ToSet(r.checkpoints) : c.of \in DOMAIN hub /\ hub[c.of].step = c.step
    PROVE  \A n \in 0..Len(out.events) : \A c \in ToSet(ShownUpTo(r, events)[n].checkpoints) :
               c.of \in DOMAIN hub /\ hub[c.of].step = c.step
<1> DEFINE L == Len(out.events)
           f == ShownUpTo(r, events)
           T == {n \in 0..L : \A c \in ToSet(f[n].checkpoints) :
                                   c.of \in DOMAIN hub /\ hub[c.of].step = c.step}
<1>1. L \in Nat /\ DOMAIN out.events = 1..L
  BY DEF Outs
<1>2. f[0] = r /\ \A n \in 1..L : f[n] = IF n \in events THEN Shown(f[n - 1], n) ELSE f[n - 1]
  BY <1>1, ShownUpToIs
<1>3. \A n \in 0..L : Fit(f[n])
  BY <1>1, ShownUpToFits
<1> HIDE DEF f
<1>4. 0 \in T
  BY <1>1, <1>2
<1>5. \A n \in 0..(L - 1) : n \in T => n + 1 \in T
  <2> SUFFICES ASSUME NEW n \in 0..(L - 1), n \in T PROVE n + 1 \in T
    OBVIOUS
  <2>1. n + 1 \in 1..L /\ n + 1 - 1 = n /\ n \in 0..L /\ n + 1 \in 0..L
    BY <1>1
  <2>2. CASE f[n + 1] = f[n]
    BY <2>1, <2>2
  <2>3. CASE f[n + 1] = Shown(f[n], n + 1)
    <3> DEFINE e == out.events[n + 1]
    <3>1. e \in Events /\ Names(e, hub)
      BY <1>1, <2>1 DEF Outs
    <3> HIDE DEF e
    <3>2. ToSet(f[n + 1].checkpoints) \subseteq ToSet(f[n].checkpoints) \cup
             (IF e.kind = "checkpoint" THEN {[step |-> e.step, of |-> e.of]} ELSE {})
      <4>1. f[n] \in Runs /\ OncePerStep(f[n].points) /\ Ordered(f[n].checkpoints) /\ Contiguous(f[n].console)
        BY <1>3, <2>1 DEF Fit
      <4>2. e.step \in Nat /\ e.of \in Nat /\ e.kind \in {"metric", "checkpoint", "log"}
        BY <3>1 DEF Events
      <4> DEFINE x == f[n]
                 step == e.step
                 of == e.of
      <4>3. CASE e.kind = "metric"
        <5>1. f[n + 1] = AppendMetric(x, step, of)
          BY <2>3, <4>3 DEF Shown, e
        <5> HIDE DEF x, step, of
        <5>2. AppendMetric(x, step, of).checkpoints = x.checkpoints
          BY <4>1, <4>2, MetricAppended DEF x, step, of
        <5> QED BY <5>1, <5>2 DEF x
      <4>4. CASE e.kind = "checkpoint"
        <5>1. f[n + 1] = AppendCheckpoint(x, step, of)
          BY <2>3, <4>4 DEF Shown, e
        <5> HIDE DEF x, step, of
        <5>2. ToSet(AppendCheckpoint(x, step, of).checkpoints)
                 = ToSet(x.checkpoints) \cup {[step |-> step, of |-> of]}
          <6>1. x \in Runs /\ step \in Nat /\ of \in Nat /\ Ordered(x.checkpoints)
            BY <4>1, <4>2 DEF x, step, of
          <6> QED BY <6>1, CheckpointAppended, Zenon
        <5> QED BY <5>1, <5>2, <4>4 DEF x, step, of
      <4>5. CASE e.kind = "log"
        <5>1. f[n + 1] = AppendConsole(x, of)
          BY <2>3, <4>5 DEF Shown, e
        <5> HIDE DEF x, step, of
        <5>2. AppendConsole(x, of).checkpoints = x.checkpoints
          BY <4>1, <4>2, LineAppended DEF x, step, of
        <5> QED BY <5>1, <5>2 DEF x
      <4> QED BY <4>2, <4>3, <4>4, <4>5
    <3> QED BY <2>1, <3>1, <3>2 DEF Names
  <2> QED BY <1>2, <2>1, <2>2, <2>3
<1>6. \A n \in 0..L : n \in T
  <2> HIDE DEF T, L
  <2> QED BY <1>1, <1>4, <1>5, UpTo
<1> QED BY <1>6 DEF f

\* The output is taken from a call that has succeeded, whose last commit stays the last.
LEMMA OutputKept ==
    ASSUME EventsBase, EventsBase', DirsInv, HubInv, OutputInv, EventsNext
    PROVE  OutputInv'
<1>0. /\ out \in Outs /\ hub \in Seq(Commits) /\ Len(hub) \in Nat /\ Fit(run)
      /\ record \in [cursor : Nat, gap : BOOLEAN, outcome : States, output : Nat]
      /\ \A n \in DOMAIN out.events : Names(out.events[n], hub)
      /\ page # NoPage => page \in Pages
      /\ ~managed => page = NoPage
  BY DEF EventsBase, EventsTypeOK, WorkloadTypeOK, HubInv, Apart
<1>a. NoPage.stage = "none"
  BY DEF NoPage
<1> SUFFICES ASSUME managed' PROVE OutputInv'
  BY DEF OutputInv
<1>1. CASE managed' # managed
  BY <1>1 DEF EventsNext, Works, Tails, AsksCall, Ingests, StoresResult, Concludes, Cancels, Expires,
         Restarts, CallStops, Sends, TimesOut, Handles, BeginsReading, GoesOnReading, TurnsPage
<1> SUFFICES ASSUME managed PROVE OutputInv'
  BY <1>1
<1>b. /\ page # NoPage /\ page.state = "succeeded" => call = "succeeded" /\ page.output = Len(hub)
      /\ record.output # 0 => call = "succeeded" /\ record.output = Len(hub)
      /\ page # NoPage /\ page.stage = "stored" =>
             page.state = "succeeded" /\ record.output # 0 /\ run.revision = record.output
      /\ record.outcome = "succeeded" =>
             page = NoPage /\ record.output # 0 /\ run.revision = record.output
      /\ \A c \in ToSet(run.checkpoints) : c.of \in DOMAIN hub /\ hub[c.of].step = c.step
  BY DEF OutputInv
<1>c. workload' = workload => out' = out /\ hub' = hub /\ call' = call
  BY DEF workload
<1>2. CASE Works \/ CallStops
  <2>1. UNCHANGED <<run, record, page>>
    BY <1>2 DEF Works, CallStops, monitor
  <2>2. Extends(hub, hub') /\ hub' \in Seq(Commits)
    BY <1>2, NothingTakenBack DEF Works, CallStops, EventsBase, EventsTypeOK, WorkloadTypeOK
  <2>3. call = "succeeded" => call' = call /\ hub' = hub
    <3>1. CASE Works
      BY <3>1 DEF HubInv, Works, Workload, Trains, Saves, Exits, Reads, DeadlinePasses, Begins, Aborts,
                  Fetches, Seals, StartsChild, Scans, VerifiesMarker, Takes, Uploads, UploadsInVain,
                  Completes, Returns, At
    <3>2. CASE CallStops
      BY <3>2 DEF CallStops
    <3> QED BY <1>2, <3>1, <3>2
  <2>4. \A k \in DOMAIN hub : k \in DOMAIN hub' /\ hub'[k] = hub[k]
    <3>1. /\ DOMAIN hub = 1..Len(hub) /\ Len(hub) \in Nat
          /\ DOMAIN hub' = 1..Len(hub') /\ Len(hub') \in Nat
      BY <1>0, <2>2, LenProperties
    <3> QED BY <2>2, <3>1 DEF Extends
  <2> QED BY <1>b, <2>1, <2>3, <2>4 DEF OutputInv
<1>3. CASE Tails
  <2>1. PICK shown, cut : page' = Page(shown, cut)
    BY <1>3 DEF Tails
  <2>2. page'.state = "unknown" /\ page'.stage = "tailed"
    BY <2>1 DEF Page
  <2>3. UNCHANGED <<workload, run, record>> /\ record.outcome = "pending"
    BY <1>3 DEF Tails
  <2> QED BY <1>b, <1>c, <2>2, <2>3 DEF OutputInv
<1>4. CASE AsksCall
  <2>1. UNCHANGED <<workload, run, record>> /\ page.stage = "tailed"
    BY <1>4 DEF AsksCall
  <2>2. page \in Pages /\ page # NoPage
    BY <1>0, <1>a, <2>1
  <2>3. page' # NoPage => /\ page'.stage = "polled"
                          /\ page'.state = "succeeded" => call = "succeeded" /\ page'.output = Len(hub)
    <3>1. CASE page' = [page EXCEPT !.stage = "polled"]
      BY <1>b, <2>2, <3>1 DEF Pages
    <3>2. CASE call # "succeeded" /\ page' = [page EXCEPT !.stage = "polled", !.state = call]
      BY <2>2, <3>2 DEF Pages
    <3>3. CASE call = "succeeded" /\ page' = [WithResult(page) EXCEPT !.stage = "polled"]
      BY <2>2, <3>3 DEF Pages, WithResult
    <3> QED BY <1>4, <3>1, <3>2, <3>3 DEF AsksCall
  <2>4. record.outcome # "succeeded"
    BY <1>b, <2>2
  <2> QED BY <1>b, <1>c, <2>1, <2>3, <2>4 DEF OutputInv
<1>5. CASE Ingests
  <2>1. UNCHANGED workload /\ page.stage = "polled"
    BY <1>5 DEF Ingests
  <2>2. page \in Pages /\ page # NoPage /\ record.outcome # "succeeded"
    BY <1>0, <1>a, <1>b, <2>1
  <2>3. CASE Persisted(page) /\ page' = [page EXCEPT !.stage = "persisted"]
    <3>1. record'.output = record.output /\ record'.outcome = record.outcome
      BY <1>0, <2>3 DEF Persisted
    <3>2. page'.state = page.state /\ page'.output = page.output /\ page'.stage = "persisted"
      BY <2>2, <2>3 DEF Pages
    <3>3. \A c \in ToSet(run'.checkpoints) : c.of \in DOMAIN hub /\ hub[c.of].step = c.step
      <4>1. Len(out.events) \in 0..Len(out.events)
        BY <1>0 DEF Outs
      <4>2. \A n \in 0..Len(out.events) : \A c \in ToSet(ShownUpTo(run, page.events)[n].checkpoints) :
               c.of \in DOMAIN hub /\ hub[c.of].step = c.step
        BY <1>0, <1>b, ShownUpToNames
      <4> QED BY <2>3, <4>1, <4>2 DEF Persisted
    <3> QED BY <1>b, <1>c, <2>1, <2>2, <3>1, <3>2, <3>3 DEF OutputInv
  <2>4. CASE page' = NoPage /\ UNCHANGED <<run, record>>
    BY <1>b, <1>c, <2>1, <2>4 DEF OutputInv
  <2>5. CASE page' = NoPage /\ record' = [record EXCEPT !.outcome = FirstOutcome("failed")] /\ UNCHANGED run
    <3>1. record'.output = record.output /\ record'.outcome # "succeeded"
      BY <1>0, <2>2, <2>5 DEF FirstOutcome
    <3> QED BY <1>b, <1>c, <2>1, <2>5, <3>1 DEF OutputInv
  <2> QED BY <1>5, <2>3, <2>4, <2>5 DEF Ingests
<1>6. CASE StoresResult
  <2>1. UNCHANGED workload /\ page.stage = "persisted" /\ page.state = "succeeded"
    BY <1>6 DEF StoresResult
  <2>2. page \in Pages /\ page # NoPage /\ record.outcome # "succeeded"
        /\ call = "succeeded" /\ page.output = Len(hub)
    BY <1>0, <1>a, <1>b, <2>1
  <2>3. CASE page' = NoPage /\ UNCHANGED <<run, record>>
    BY <1>b, <1>c, <2>1, <2>3 DEF OutputInv
  <2>4. CASE /\ run' = AppendCheckpoint(run, MaxSteps, page.output)
             /\ record' = [record EXCEPT !.output = page.output]
             /\ page' = [page EXCEPT !.stage = "stored"]
    <3>1. Len(hub) \in DOMAIN hub /\ hub[Len(hub)].step = MaxSteps
      BY <2>2 DEF HubInv
    <3>2. Len(hub) # 0
      <4>1. DOMAIN hub = 1..Len(hub)
        BY <1>0, LenProperties
      <4> QED BY <3>1, <4>1, <1>0
    <3>3. /\ ToSet(run'.checkpoints) = ToSet(run.checkpoints) \cup {[step |-> MaxSteps, of |-> Len(hub)]}
          /\ run'.revision = Len(hub)
      <4>1. run \in Runs /\ MaxSteps \in Nat /\ Len(hub) \in Nat /\ Ordered(run.checkpoints)
        BY <1>0, StepsAre DEF Fit
      <4> DEFINE of == Len(hub)
      <4> HIDE DEF of
      <4>2. /\ ToSet(AppendCheckpoint(run, MaxSteps, of).checkpoints)
                  = ToSet(run.checkpoints) \cup {[step |-> MaxSteps, of |-> of]}
            /\ AppendCheckpoint(run, MaxSteps, of).revision = of
        <5>1. of \in Nat
          BY <4>1 DEF of
        <5> QED BY <4>1, <5>1, CheckpointAppended, Zenon
      <4>3. run' = AppendCheckpoint(run, MaxSteps, of)
        BY <2>2, <2>4 DEF of
      <4> QED BY <4>2, <4>3 DEF of
    <3>4. record'.output = Len(hub) /\ record'.outcome = record.outcome
      BY <1>0, <2>2, <2>4
    <3>5. page'.stage = "stored" /\ page'.state = "succeeded" /\ page'.output = page.output
      BY <2>1, <2>2, <2>4 DEF Pages
    <3> QED BY <1>b, <1>c, <2>1, <2>2, <3>1, <3>2, <3>3, <3>4, <3>5 DEF OutputInv
  <2> QED BY <1>6, <2>3, <2>4 DEF StoresResult
<1>7. CASE Concludes
  <2>1. UNCHANGED <<workload, run>> /\ page' = NoPage
    BY <1>7 DEF Concludes
  <2>2. record'.output = record.output
    BY <1>0, <1>7 DEF Concludes
  <2>3. record'.outcome = "succeeded" =>
            \/ record.outcome = "succeeded"
            \/ page # NoPage /\ page.stage = "stored"
    BY <1>0, <1>7, <1>a DEF Concludes, FirstOutcome
  <2> QED BY <1>b, <1>c, <2>1, <2>2, <2>3 DEF OutputInv
<1>8. CASE Cancels \/ Expires
  <2>1. /\ UNCHANGED <<workload, run, page>>
        /\ record' = [record EXCEPT !.outcome = "cancelled"]
    BY <1>8 DEF Cancels, Expires
  <2>2. record'.output = record.output /\ record'.outcome # "succeeded"
    BY <1>0, <2>1
  <2> QED BY <1>b, <1>c, <2>1, <2>2 DEF OutputInv
<1>9. CASE Restarts
  BY <1>b, <1>c, <1>9 DEF Restarts, OutputInv
<1>10. CASE Sends \/ TimesOut \/ BeginsReading \/ GoesOnReading
  <2>1. UNCHANGED <<workload, run, record, page>>
    BY <1>10 DEF Sends, TimesOut, BeginsReading, GoesOnReading, TurnsPage, monitor
  <2> QED BY <1>b, <1>c, <2>1 DEF OutputInv
<1>11. ASSUME NEW i \in DOMAIN Reports, Handles(i) PROVE FALSE
  BY <1>11 DEF Handles, EventsBase, Apart
<1> QED BY <1>2, <1>3, <1>4, <1>5, <1>6, <1>7, <1>8, <1>9, <1>10, <1>11 DEF EventsNext

\* Which is what OutputIsWhole asks for.
LEMMA OutputHolds ==
    ASSUME EventsBase, HubInv, OutputInv
    PROVE  OutputIsWhole
BY DEF OutputIsWhole, OutputInv, HubInv

-----------------------------------------------------------------------------
(* The reader of the console *)

\* Whoever was never told of a loss has every line up to where he is, which is no further
\* than the last.
ReaderInv ==
    /\ reader.cursor <= LastNumber(run.console)
    /\ ~reader.told => reader.got = 1..reader.cursor

\* The console's end only moves on: with an event shown.
LEMMA ShownGrows ==
    ASSUME NEW r, Fit(r), NEW n \in DOMAIN out.events, out \in Outs
    PROVE  LastNumber(r.console) <= LastNumber(Shown(r, n).console)
<1>1. out.events[n] \in Events
  BY DEF Outs
<1> DEFINE e == out.events[n]
           of == e.of
           step == e.step
<1>2. of \in Nat /\ step \in Nat /\ e.kind \in {"metric", "checkpoint", "log"}
  BY <1>1 DEF Events
<1>3. r \in Runs /\ OncePerStep(r.points) /\ Ordered(r.checkpoints) /\ Contiguous(r.console)
      /\ LastNumber(r.console) \in Nat
  <2>1. r.console \in Seq(Numbered)
    BY DEF Fit, Runs
  <2> QED BY <2>1, LastNumberIs DEF Fit
<1>4. CASE e.kind = "metric"
  <2>1. Shown(r, n) = AppendMetric(r, step, of)
    BY <1>4 DEF Shown
  <2> HIDE DEF of, step
  <2>2. AppendMetric(r, step, of).console = r.console
    BY <1>2, <1>3, MetricAppended
  <2> QED BY <1>3, <2>1, <2>2
<1>5. CASE e.kind = "checkpoint"
  <2>1. Shown(r, n) = AppendCheckpoint(r, step, of)
    BY <1>5 DEF Shown
  <2> HIDE DEF of, step
  <2>2. AppendCheckpoint(r, step, of).console = r.console
    BY <1>2, <1>3, CheckpointAppended
  <2> QED BY <1>3, <2>1, <2>2
<1>6. CASE e.kind = "log"
  <2>1. Shown(r, n) = AppendConsole(r, of)
    BY <1>6 DEF Shown
  <2> HIDE DEF of
  <2>2. LastNumber(AppendConsole(r, of).console) = LastNumber(r.console) + 1
    BY <1>2, <1>3, LineAppended
  <2> QED BY <1>3, <2>1, <2>2
<1> QED BY <1>2, <1>4, <1>5, <1>6

\* A page of them.
LEMMA ShownUpToGrows ==
    ASSUME NEW r, Fit(r), NEW events, out \in Outs
    PROVE  \A n \in 0..Len(out.events) :
               LastNumber(r.console) <= LastNumber(ShownUpTo(r, events)[n].console)
<1> DEFINE L == Len(out.events)
           f == ShownUpTo(r, events)
           T == {n \in 0..L : LastNumber(r.console) <= LastNumber(f[n].console)}
<1>1. L \in Nat /\ DOMAIN out.events = 1..L
  BY DEF Outs
<1>2. f[0] = r /\ \A n \in 1..L : f[n] = IF n \in events THEN Shown(f[n - 1], n) ELSE f[n - 1]
  BY <1>1, ShownUpToIs
<1>3. \A n \in 0..L : Fit(f[n])
  BY <1>1, ShownUpToFits
<1> HIDE DEF f
<1>a. \A q : Fit(q) => LastNumber(q.console) \in Nat
  <2> SUFFICES ASSUME NEW q, Fit(q) PROVE LastNumber(q.console) \in Nat
    OBVIOUS
  <2>1. q.console \in Seq(Numbered) /\ Contiguous(q.console)
    BY DEF Fit, Runs
  <2> QED BY <2>1, LastNumberIs
<1>4. 0 \in T
  BY <1>1, <1>2, <1>a
<1>5. \A n \in 0..(L - 1) : n \in T => n + 1 \in T
  <2> SUFFICES ASSUME NEW n \in 0..(L - 1), n \in T PROVE n + 1 \in T
    OBVIOUS
  <2>1. n + 1 \in 1..L /\ n + 1 - 1 = n /\ n \in 0..L /\ n + 1 \in 0..L
    BY <1>1
  <2>2. LastNumber(f[n].console) <= LastNumber(f[n + 1].console)
    <3>1. CASE f[n + 1] = f[n]
      BY <3>1, <1>3, <1>a, <2>1
    <3>2. CASE f[n + 1] = Shown(f[n], n + 1)
      BY <3>2, <1>1, <1>3, <2>1, ShownGrows
    <3> QED BY <1>2, <2>1, <3>1, <3>2
  <2>3. Fit(f[n]) /\ Fit(f[n + 1])
    BY <1>3, <2>1
  <2> QED BY <1>a, <2>1, <2>2, <2>3
<1>6. \A n \in 0..L : n \in T
  <2> HIDE DEF T, L
  <2> QED BY <1>1, <1>4, <1>5, UpTo
<1> QED BY <1>6 DEF f

\* A report.
LEMMA ReportedGrows ==
    ASSUME Fit(run), NEW i \in DOMAIN Reports
    PROVE  LastNumber(run.console) <= LastNumber(Reported(run, Reports[i]).console)
<1> DEFINE e == Reports[i]
           of == e.of
           step == e.step
<1>1. of \in Nat /\ step \in Nat /\ e.kind \in {"metric", "checkpoint", "log", "step"}
  BY ReportIs
<1>2. run \in Runs /\ OncePerStep(run.points) /\ Ordered(run.checkpoints) /\ Contiguous(run.console)
      /\ LastNumber(run.console) \in Nat
  <2>1. run.console \in Seq(Numbered)
    BY DEF Fit, Runs
  <2> QED BY <2>1, LastNumberIs DEF Fit
<1>3. CASE e.kind = "metric"
  <2>1. Reported(run, e) = AppendMetric(run, step, of)
    BY <1>3 DEF Reported
  <2> HIDE DEF of, step
  <2>2. AppendMetric(run, step, of).console = run.console
    BY <1>1, <1>2, MetricAppended
  <2> QED BY <1>2, <2>1, <2>2
<1>4. CASE e.kind = "checkpoint"
  <2>1. Reported(run, e) = AppendCheckpoint(run, step, of)
    BY <1>4 DEF Reported
  <2> HIDE DEF of, step
  <2>2. AppendCheckpoint(run, step, of).console = run.console
    BY <1>1, <1>2, CheckpointAppended
  <2> QED BY <1>2, <2>1, <2>2
<1>5. CASE e.kind = "log"
  <2> DEFINE m == AppendConsole(run, of)
  <2>1. Reported(run, e) = [m EXCEPT !.step = Later(m.step, step)]
    BY <1>5 DEF Reported
  <2> HIDE DEF of, step
  <2>2. LastNumber(m.console) = LastNumber(run.console) + 1 /\ m \in Runs
    BY <1>1, <1>2, LineAppended
  <2> HIDE DEF m
  <2>3. Reported(run, e).console = m.console
    BY <2>1, <2>2 DEF Runs
  <2> QED BY <1>2, <2>2, <2>3
<1>6. CASE e.kind = "step"
  BY <1>2, <1>6 DEF Reported, Patched, Runs
<1> QED BY <1>1, <1>3, <1>4, <1>5, <1>6

\* A reader moves with its answers, the console's end only away from it.
LEMMA ReaderKept ==
    ASSUME EventsBase, EventsBase', ReaderInv, EventsNext
    PROVE  ReaderInv'
<1>0. /\ out \in Outs /\ Fit(run) /\ Fit(run')
      /\ page # NoPage => page \in Pages
      /\ reader \in [cursor : Nat, got : SUBSET Nat, told : BOOLEAN]
      /\ reader' \in [cursor : Nat, got : SUBSET Nat, told : BOOLEAN]
  BY DEF EventsBase, EventsTypeOK, WorkloadTypeOK
<1>a. \A q : Fit(q) => LastNumber(q.console) \in Nat /\ q.console \in Seq(Numbered) /\ Contiguous(q.console)
  <2> SUFFICES ASSUME NEW q, Fit(q)
               PROVE  LastNumber(q.console) \in Nat /\ q.console \in Seq(Numbered) /\ Contiguous(q.console)
    OBVIOUS
  <2>1. q.console \in Seq(Numbered) /\ Contiguous(q.console)
    BY DEF Fit, Runs
  <2> QED BY <2>1, LastNumberIs
<1>1. ASSUME reader' = reader, LastNumber(run.console) <= LastNumber(run'.console)
      PROVE  ReaderInv'
  <2>1. LastNumber(run.console) \in Nat /\ LastNumber(run'.console) \in Nat /\ reader.cursor \in Nat
    BY <1>0, <1>a
  <2> QED BY <1>1, <2>1 DEF ReaderInv
<1>2. CASE UNCHANGED <<run, reader>>
  BY <1>0, <1>1, <1>2, <1>a
<1>3. CASE Ingests
  <2>1. reader' = reader
    BY <1>3 DEF Ingests
  <2>2. CASE Persisted(page)
    <3>1. Len(out.events) \in 0..Len(out.events)
      BY <1>0 DEF Outs
    <3>2. LastNumber(run.console) <= LastNumber(run'.console)
      BY <1>0, <2>2, <3>1, ShownUpToGrows DEF Persisted
    <3> QED BY <1>1, <2>1, <3>2
  <2> QED BY <1>2, <1>3, <2>1, <2>2 DEF Ingests
<1>4. CASE StoresResult
  <2>1. reader' = reader /\ page.stage = "persisted"
    BY <1>4 DEF StoresResult
  <2>2. CASE run' = AppendCheckpoint(run, MaxSteps, page.output)
    <3>1. page.output \in Nat
      BY <1>0, <2>1 DEF Pages, NoPage
    <3> DEFINE of == page.output
    <3> HIDE DEF of
    <3>2. AppendCheckpoint(run, MaxSteps, of).console = run.console
      <4>1. of \in Nat /\ MaxSteps \in Nat /\ run \in Runs /\ Ordered(run.checkpoints)
        BY <1>0, <3>1, StepsAre DEF of, Fit
      <4> QED BY <4>1, CheckpointAppended
    <3>3. LastNumber(run.console) <= LastNumber(run'.console)
      BY <1>0, <1>a, <2>2, <3>2 DEF of
    <3> QED BY <1>1, <2>1, <3>3
  <2> QED BY <1>2, <1>4, <2>1, <2>2 DEF StoresResult
<1>5. ASSUME NEW i \in DOMAIN Reports, Handles(i) PROVE ReaderInv'
  <2>1. reader' = reader
    BY <1>5 DEF Handles
  <2>2. CASE run' = Reported(run, Reports[i])
    BY <1>0, <1>1, <2>1, <2>2, ReportedGrows
  <2> QED BY <1>2, <1>5, <2>1, <2>2 DEF Handles
<1>6. CASE BeginsReading
  <2> DEFINE c == run.console
             a == NewestPage(c, ReadLimit)
  <2>1. run' = run /\ reader.got = {} /\ c # <<>> /\ c \in Seq(Numbered) /\ Contiguous(c)
        /\ ReadLimit \in Nat \ {0}
    BY <1>0, <1>6, <1>a, EventsAssumption DEF BeginsReading, TurnsPage
  <2>2. reader' = [cursor |-> a.next, got |-> reader.got \cup Numbers(a.lines),
                   told |-> reader.told \/ a.truncated]
    BY <1>6 DEF BeginsReading, TurnsPage, Numbers
  <2> HIDE DEF a
  <2>3. /\ a.truncated \in BOOLEAN /\ a.next = LastNumber(c)
        /\ ~a.truncated => Numbers(a.lines) = 1..a.next
    <3> HIDE DEF c
    <3> QED BY <2>1, NewestPageIs DEF a
  <2>4. reader'.cursor <= LastNumber(run'.console)
    BY <1>0, <1>a, <2>1, <2>2, <2>3
  <2>5. ~reader'.told => reader'.got = 1..reader'.cursor
    BY <2>1, <2>2, <2>3
  <2> QED BY <2>4, <2>5 DEF ReaderInv
<1>7. CASE GoesOnReading
  <2> DEFINE c == run.console
             after == reader.cursor
             a == PageAfter(c, after, ReadLimit)
  <2>1. run' = run /\ c # <<>> /\ c \in Seq(Numbered) /\ Contiguous(c)
        /\ ReadLimit \in Nat \ {0} /\ after \in Nat /\ after <= LastNumber(c)
    BY <1>0, <1>7, <1>a, EventsAssumption DEF GoesOnReading, TurnsPage, ReaderInv
  <2>2. reader' = [cursor |-> a.next, got |-> reader.got \cup Numbers(a.lines),
                   told |-> reader.told \/ a.truncated]
    BY <1>7 DEF GoesOnReading, TurnsPage, Numbers
  <2> HIDE DEF a
  <2>3. /\ a.truncated \in BOOLEAN /\ a.next <= LastNumber(c) /\ a.next \in Nat
        /\ ~a.truncated => after <= a.next /\ Numbers(a.lines) = (after + 1)..a.next
    <3> HIDE DEF c, after
    <3> QED BY <2>1, PageAfterIs DEF a
  <2>4. reader'.cursor <= LastNumber(run'.console)
    BY <2>1, <2>2, <2>3
  <2>5. ~reader'.told => reader'.got = 1..reader'.cursor
    <3> SUFFICES ASSUME ~reader'.told PROVE reader'.got = 1..reader'.cursor
      OBVIOUS
    <3>1. ~reader.told /\ ~a.truncated
      BY <2>2
    <3>2. reader.got = 1..after
      BY <3>1 DEF ReaderInv
    <3>3. reader'.got = (1..after) \cup ((after + 1)..a.next) /\ reader'.cursor = a.next
      BY <2>2, <2>3, <3>1, <3>2
    <3>4. (1..after) \cup ((after + 1)..a.next) = 1..a.next
      <4> HIDE DEF after
      <4> QED BY <2>1, <2>3, <3>1
    <3> QED BY <3>3, <3>4
  <2> QED BY <2>4, <2>5 DEF ReaderInv
<1>8. CASE Works \/ Tails \/ AsksCall \/ Concludes \/ Cancels \/ Expires \/ Restarts \/ CallStops
           \/ Sends \/ TimesOut
  BY <1>2, <1>8 DEF Works, Tails, AsksCall, Concludes, Cancels, Expires, Restarts, CallStops, Sends,
                    TimesOut
<1> QED BY <1>3, <1>4, <1>5, <1>6, <1>7, <1>8 DEF EventsNext

-----------------------------------------------------------------------------
(* The way of a line: from LeRobot through the pipe into the events *)

Kind(events, kind) == {k \in DOMAIN events : events[k].kind = kind}

\* The metrics are of ascending steps, none after the last the worker has seen.
MetricsInv ==
    /\ worker.last \in Logged \cup {0}
    /\ \A n \in Kind(out.events, "metric") : out.events[n].step <= worker.last
    /\ \A m, n \in Kind(out.events, "metric") : m < n => out.events[m].step < out.events[n].step

\* What one more event changes.
LEMMA AddedKinds ==
    ASSUME NEW o \in Outs, NEW n, NEW e, Added(o, n, e)
    PROVE  /\ n \in Outs /\ DOMAIN o.events = 1..Len(o.events) /\ Len(o.events) \in Nat
           /\ \A k \in 1..Len(o.events) : k \in DOMAIN n.events /\ n.events[k] = o.events[k]
           /\ \/ n.truncated /\ n.events = o.events
              \/ /\ n.truncated = o.truncated /\ DOMAIN n.events = 1..(Len(o.events) + 1)
                 /\ Len(n.events) = Len(o.events) + 1
                 /\ n.events[Len(o.events) + 1] = e
                 /\ \A kind : Kind(n.events, kind) = Kind(o.events, kind)
                                  \cup (IF e.kind = kind THEN {Len(o.events) + 1} ELSE {})
<1>1. /\ DOMAIN o.events = 1..Len(o.events) /\ Len(o.events) \in Nat
      /\ DOMAIN n.events = 1..Len(n.events) /\ Len(n.events) \in Nat /\ n \in Outs
  BY DEF Added, Outs
<1>2. CASE n.truncated /\ n.events = o.events
  BY <1>1, <1>2
<1>3. CASE /\ n.truncated = o.truncated /\ Len(n.events) = Len(o.events) + 1
           /\ \A k \in 1..Len(o.events) : n.events[k] = o.events[k]
           /\ n.events[Len(o.events) + 1] = e
  <2>1. DOMAIN n.events = 1..(Len(o.events) + 1)
    BY <1>1, <1>3
  <2>2. \A k : k \in DOMAIN n.events <=> k \in DOMAIN o.events \/ k = Len(o.events) + 1
    BY <1>1, <2>1
  <2>3. Len(o.events) + 1 \notin DOMAIN o.events
    BY <1>1
  <2>4. ASSUME NEW kind
        PROVE  Kind(n.events, kind) = Kind(o.events, kind)
                                  \cup (IF e.kind = kind THEN {Len(o.events) + 1} ELSE {})
    BY <1>1, <1>3, <2>2, <2>3 DEF Kind
  <2> QED BY <1>1, <1>3, <2>1, <2>2, <2>4
<1> QED BY <1>2, <1>3 DEF Added

\* A turn of the loop takes nothing, the end of the pipe, or a line, of which it makes a
\* log event and, of a step it finds on the schedule, a metric event.
LEMMA TakesIs ==
    ASSUME WorkloadTypeOK, Takes
    PROVE  /\ UNCHANGED <<child, hub, call, expired>> /\ call = "running" /\ worker.pc = "take"
           /\ LoopGoesOn
           /\ worker'.pc = "scan" /\ worker'.todo = worker.todo /\ worker'.uploaded = worker.uploaded
           /\ \/ pipe.queue = <<>> /\ UNCHANGED <<pipe, out>> /\ worker'.last = worker.last
              \/ /\ pipe.queue # <<>> /\ pipe'.queue = Tail(pipe.queue) /\ pipe'.unread = pipe.unread
                 /\ pipe'.dropped = pipe.dropped /\ pipe'.reader = pipe.reader
                 /\ \/ Head(pipe.queue) = EOF /\ out' = out /\ worker'.last = worker.last
                    \/ /\ Head(pipe.queue) \in Steps
                       /\ \E step \in Nat, logged \in Outs :
                             /\ step = ParsedStep(Head(pipe.queue), pipe.dropped)
                             /\ Added(out, logged, Event("log", step, Head(pipe.queue)))
                             /\ \/ step = NoStep /\ out' = logged /\ worker'.last = worker.last
                                \/ /\ step \in Schedule(Head(pipe.queue), pipe.dropped)
                                   /\ Added(logged, out', Event("metric", step, Head(pipe.queue)))
                                   /\ worker'.last = step
<1> USE StepsAre
<1>0. pipe \in Pipes /\ worker \in Workers /\ out \in Outs
  BY DEF WorkloadTypeOK
<1>1. UNCHANGED <<child, hub, call, expired>> /\ call = "running" /\ worker.pc = "take" /\ LoopGoesOn
  BY DEF Takes, At
<1>a. worker' = [worker EXCEPT !.pc = "scan"] => /\ worker'.pc = "scan" /\ worker'.todo = worker.todo
          /\ worker'.uploaded = worker.uploaded /\ worker'.last = worker.last
  BY <1>0 DEF Workers
<1> DEFINE line == Head(pipe.queue)
           step == ParsedStep(line, pipe.dropped)
           logged == Log(out, step, line)
<1>2. CASE pipe.queue = <<>>
  BY <1>1, <1>2, <1>a DEF Takes, Goes
<1>3. CASE pipe.queue # <<>>
  <2>0. pipe' = [pipe EXCEPT !.queue = Tail(pipe.queue)]
    BY <1>3 DEF Takes
  <2>1. /\ pipe'.queue = Tail(pipe.queue) /\ pipe'.unread = pipe.unread
        /\ pipe'.dropped = pipe.dropped /\ pipe'.reader = pipe.reader
    BY <1>0, <2>0 DEF Pipes
  <2>2. CASE line = EOF
    <3>1. out' = out /\ worker' = [worker EXCEPT !.pc = "scan"]
      BY <1>3, <2>2 DEF Takes, Goes
    <3> QED BY <1>1, <1>3, <1>a, <2>1, <2>2, <3>1
  <2>3. CASE line # EOF
    <3>1. line \in 0..MaxSteps /\ pipe.dropped \in BOOLEAN
      BY <1>0, <1>3, HeadTailProperties DEF Pipes
    <3>2. /\ line \in Steps /\ line \in Nat /\ step \in Nat
          /\ step # NoStep => step \in Schedule(line, pipe.dropped)
      BY <3>1, <2>3, ParsedStepIs DEF Steps
    <3>3. Added(out, logged, Event("log", step, line)) /\ logged \in Outs
      <4> HIDE DEF step, line
      <4> QED BY <1>0, <3>2, LogAdds DEF Added
    <3>4. CASE step = NoStep
      <4>1. out' = logged /\ worker' = [worker EXCEPT !.pc = "scan"]
        BY <1>3, <2>3, <3>4 DEF Takes, Goes
      <4> HIDE DEF logged, step, line
      <4>2. \E st \in Nat, lo \in Outs :
               /\ st = step /\ Added(out, lo, Event("log", st, line))
               /\ \/ st = NoStep /\ out' = lo /\ worker'.last = worker.last
                  \/ /\ st \in Schedule(line, pipe.dropped)
                     /\ Added(lo, out', Event("metric", st, line)) /\ worker'.last = st
        BY <1>a, <3>2, <3>3, <3>4, <4>1
      <4> QED BY <1>1, <1>3, <1>a, <2>1, <3>2, <4>1, <4>2 DEF line, step
    <3>5. CASE step # NoStep
      <4> DEFINE e == Event("metric", step, line)
      <4>1. out' = Emit(logged, e, FALSE) /\ worker' = [worker EXCEPT !.pc = "scan", !.last = step]
        BY <1>3, <2>3, <3>5 DEF Takes
      <4>2. e \in Events
        BY <3>2 DEF Event, Events
      <4>3. Added(logged, out', e)
        <5> HIDE DEF e, logged
        <5> QED BY <3>3, <4>1, <4>2, EmitAdds
      <4>4. /\ worker'.pc = "scan" /\ worker'.todo = worker.todo
            /\ worker'.uploaded = worker.uploaded /\ worker'.last = step
        <5> HIDE DEF step
        <5> QED BY <1>0, <4>1 DEF Workers
      <4> HIDE DEF logged, step, line
      <4>5. \E st \in Nat, lo \in Outs :
               /\ st = step /\ Added(out, lo, Event("log", st, line))
               /\ \/ st = NoStep /\ out' = lo /\ worker'.last = worker.last
                  \/ /\ st \in Schedule(line, pipe.dropped)
                     /\ Added(lo, out', Event("metric", st, line)) /\ worker'.last = st
        BY <3>2, <3>3, <3>5, <4>3, <4>4
      <4> QED BY <1>1, <1>3, <2>1, <3>2, <4>4, <4>5 DEF line, step
    <3> QED BY <3>4, <3>5
  <2> QED BY <2>2, <2>3
<1> QED BY <1>2, <1>3

\* The events of any other step.
LEMMA ReturnsIs ==
    ASSUME WorkloadTypeOK, Returns
    PROVE  /\ UNCHANGED <<child, pipe, expired>> /\ worker.pc = "final" /\ call = "running"
           /\ worker'.pc = "returned" /\ worker'.last = worker.last
           /\ worker'.todo = worker.todo /\ worker'.uploaded = worker.uploaded
           /\ call' = "succeeded"
           /\ \E said \in Outs :
                 /\ Added(out, said, Event("checkpoint", MaxSteps, Len(hub')))
                 /\ \/ ~said.truncated /\ out' = said
                    \/ said.truncated /\ Added(said, out', Event("log", MaxSteps, EOF))
<1> USE StepsAre
<1>0. worker \in Workers /\ out \in Outs /\ hub \in Seq(Commits)
  BY DEF WorkloadTypeOK
<1> DEFINE e == Event("checkpoint", MaxSteps, Len(hub'))
           d == Event("log", MaxSteps, EOF)
           said == Emit(out, e, TRUE)
<1>1. hub' = Append(hub, Commit(MaxSteps, TRUE)) /\ Commit(MaxSteps, TRUE) \in Commits
  BY DEF Returns, Commit, Commits
<1>2. Len(hub') \in Nat
  BY <1>0, <1>1, AppendProperties, LenProperties
<1>3. e \in Events /\ d \in Events
  BY <1>2 DEF Event, Events
<1>4. out' = IF said.truncated THEN Emit(said, d, TRUE) ELSE said
  BY DEF Returns
<1>5. worker' = [worker EXCEPT !.pc = "returned"] /\ UNCHANGED <<child, pipe, expired>>
      /\ worker.pc = "final" /\ call = "running" /\ call' = "succeeded"
  BY DEF Returns, Goes, At
<1>6. Added(out, said, e) /\ said \in Outs
  <2> HIDE DEF e
  <2> QED BY <1>0, <1>3, EmitAdds DEF Added
<1> HIDE DEF said, e, d
<1>7. said.truncated => Added(said, out', d)
  BY <1>3, <1>4, <1>6, EmitAdds
<1>8. /\ worker'.pc = "returned" /\ worker'.last = worker.last
      /\ worker'.todo = worker.todo /\ worker'.uploaded = worker.uploaded
  BY <1>0, <1>5 DEF Workers
<1> QED BY <1>4, <1>5, <1>6, <1>7, <1>8 DEF e, d

\* Dividing, as far as the schedule needs it.
LEMMA DivMod ==
    ASSUME NEW K \in Nat \ {0}, NEW a \in Nat
    PROVE  a = K * (a \div K) + (a % K) /\ a % K \in 0..(K - 1) /\ a \div K \in Nat
OBVIOUS

\* Division leaves one remainder.
LEMMA ModUnique ==
    ASSUME NEW K \in Nat \ {0}, NEW q \in Nat, NEW r \in 0..(K - 1)
    PROVE  (K * q + r) % K = r
OBVIOUS

\* After a multiple of K the next one comes K later.
LEMMA ModStep ==
    ASSUME NEW K \in Nat \ {0}, NEW a \in Nat, a % K = 0
    PROVE  /\ (a + K) % K = 0
           /\ \A s \in Nat : a < s /\ s < a + K => s % K # 0
<1> DEFINE q == a \div K
           r == a % K
<1>1. a = K * q + r /\ r = 0 /\ q \in Nat
  BY DivMod
<1> HIDE DEF q, r
<1>2. \A p \in Nat, m \in 0..(K - 1) : (K * p + m) % K = m
  BY ModUnique
<1>3. (a + K) % K = 0
  <2>1. a + K = K * (q + 1) + 0 /\ 0 \in 0..(K - 1) /\ q + 1 \in Nat
    BY <1>1
  <2>2. (K * (q + 1) + 0) % K = 0
    BY <1>2, <2>1, Zenon
  <2> QED BY <2>1, <2>2, Zenon
<1>4. ASSUME NEW s \in Nat, a < s, s < a + K PROVE s % K # 0
  <2> DEFINE m == s - a
  <2>1. s = K * q + m /\ m \in 0..(K - 1) /\ m # 0
    BY <1>1, <1>4
  <2> HIDE DEF m
  <2>2. (K * q + m) % K = m
    BY <1>1, <1>2, <2>1, Zenon
  <2> QED BY <2>1, <2>2, Zenon
<1> QED BY <1>3, <1>4

\* The first event of all.
LEMMA VerifiesMarkerIs ==
    ASSUME WorkloadTypeOK, VerifiesMarker
    PROVE  /\ UNCHANGED <<child, pipe, hub, call, expired>> /\ call = "running"
           /\ worker.pc = "marker" /\ worker' = [worker EXCEPT !.pc = "inputs"]
           /\ Added(out, out', Event("log", EOF, EOF))
<1>1. Added(out, Log(out, EOF, EOF), Event("log", EOF, EOF))
  BY LogAdds DEF WorkloadTypeOK, EOF
<1> QED BY <1>1 DEF VerifiesMarker, At, Goes

\* A checkpoint's upload, and its event.
LEMMA UploadsIs ==
    ASSUME WorkloadTypeOK, Uploads
    PROVE  /\ UNCHANGED <<child, pipe, call, expired>> /\ call = "running" /\ worker.pc = "upload"
           /\ \E s \in worker.todo :
                 /\ worker'.todo = worker.todo \ {s} /\ worker'.uploaded = worker.uploaded \cup {s}
                 /\ worker'.last = worker.last
                 /\ worker'.pc = IF worker.todo = {s} THEN "take" ELSE "upload"
                 /\ Added(out, out', Event("checkpoint", s, Len(hub')))
<1> USE StepsAre
<1>0. worker \in Workers /\ out \in Outs /\ hub \in Seq(Commits)
  BY DEF WorkloadTypeOK
<1>1. PICK s \in worker.todo :
          /\ hub' = Append(hub, Commit(s, FALSE))
          /\ out' = Emit(out, Event("checkpoint", s, Len(hub')), TRUE)
          /\ worker' = [worker EXCEPT !.todo = @ \ {s}, !.uploaded = @ \cup {s},
                                      !.pc = IF worker.todo = {s} THEN "take" ELSE "upload"]
  BY DEF Uploads
<1>2. s \in Saved /\ s \in Nat
  BY <1>0 DEF Workers
<1>3. Commit(s, FALSE) \in Commits
  BY <1>2 DEF Commit, Commits
<1>4. Len(hub') \in Nat
  BY <1>0, <1>1, <1>3, AppendProperties, LenProperties
<1>5. Event("checkpoint", s, Len(hub')) \in Events
  BY <1>2, <1>4 DEF Event, Events
<1> DEFINE e == Event("checkpoint", s, Len(hub'))
<1>6. Added(out, out', e)
  <2> HIDE DEF e
  <2> QED BY <1>0, <1>1, <1>5, EmitAdds DEF e
<1>7. /\ worker'.todo = worker.todo \ {s} /\ worker'.uploaded = worker.uploaded \cup {s}
      /\ worker'.last = worker.last
      /\ worker'.pc = IF worker.todo = {s} THEN "take" ELSE "upload"
  BY <1>0, <1>1 DEF Workers
<1> QED BY <1>6, <1>7 DEF Uploads, At

\* No other step tells of anything, nor does it change what the worker has seen.
LEMMA QuietIs ==
    ASSUME WorkloadTypeOK, WorkloadMoves,
           ~Takes, ~Returns, ~VerifiesMarker, ~Uploads
    PROVE  /\ out'.events = out.events /\ worker'.last = worker.last
           /\ ~Completes => out' = out
<1>0. worker \in Workers /\ out \in Outs
  BY DEF WorkloadTypeOK
<1>1. CASE Completes
  BY <1>0, <1>1 DEF Completes, Goes, Workers, Outs
<1>2. CASE Scans
  BY <1>0, <1>2 DEF Scans, Workers
<1>3. CASE Begins \/ Fetches \/ Seals \/ StartsChild
  BY <1>0, <1>3 DEF Begins, Fetches, Seals, StartsChild, Goes, Workers
<1>4. CASE \/ Trains \/ Saves \/ Exits \/ Reads \/ Aborts \/ UploadsInVain \/ DeadlinePasses
           \/ \E state \in {"cancelled", "failed"} : Cancelled(state)
  BY <1>4 DEF Trains, Saves, Exits, Reads, Aborts, UploadsInVain, DeadlinePasses, Cancelled
<1> QED BY <1>1, <1>2, <1>3, <1>4 DEF WorkloadMoves, Workload

\* What an event is made of.
LEMMA EventsAre ==
    ASSUME NEW o \in Outs
    PROVE  \A k \in DOMAIN o.events : /\ k \in Nat /\ o.events[k] \in Events
                                     /\ o.events[k].step \in Nat /\ o.events[k].of \in Nat
<1>1. o.events \in Seq(Events)
  BY DEF Outs
<1>2. DOMAIN o.events = 1..Len(o.events) /\ Len(o.events) \in Nat
  BY <1>1
<1>3. \A k \in 1..Len(o.events) : o.events[k] \in Events
  BY <1>1, ElementOfSeq
<1> QED BY <1>2, <1>3 DEF Events

\* What an event more is to the events of a kind.
LEMMA AddedOf ==
    ASSUME NEW o \in Outs, NEW n, NEW e, Added(o, n, e), NEW kind
    PROVE  /\ n \in Outs /\ Len(o.events) \in Nat
           /\ \A k \in Kind(o.events, kind) :
                 k \in 1..Len(o.events) /\ n.events[k] = o.events[k]
           /\ e.kind # kind => Kind(n.events, kind) = Kind(o.events, kind)
           /\ e.kind = kind =>
                 \/ /\ n.truncated /\ Kind(n.events, kind) = Kind(o.events, kind)
                 \/ /\ n.truncated = o.truncated /\ n.events[Len(o.events) + 1] = e
                    /\ Kind(n.events, kind) = Kind(o.events, kind) \cup {Len(o.events) + 1}
           /\ ~n.truncated => ~o.truncated
<1>1. /\ n \in Outs /\ DOMAIN o.events = 1..Len(o.events) /\ Len(o.events) \in Nat
      /\ \A k \in 1..Len(o.events) : k \in DOMAIN n.events /\ n.events[k] = o.events[k]
  BY AddedKinds
<1>2. CASE n.truncated /\ n.events = o.events
  BY <1>1, <1>2 DEF Kind
<1>3. CASE /\ n.truncated = o.truncated
           /\ n.events[Len(o.events) + 1] = e
           /\ \A knd : Kind(n.events, knd) = Kind(o.events, knd)
                                  \cup (IF e.kind = knd THEN {Len(o.events) + 1} ELSE {})
  <2>1. Kind(n.events, kind) = Kind(o.events, kind)
                                  \cup (IF e.kind = kind THEN {Len(o.events) + 1} ELSE {})
    BY <1>3
  <2>2. \A k \in Kind(o.events, kind) : k \in DOMAIN o.events
    BY DEF Kind
  <2> QED BY <1>1, <1>3, <2>1, <2>2
<1> QED BY <1>2, <1>3, AddedKinds

\* What one more event of a kind changes in it.
LEMMA AddedOne ==
    ASSUME NEW o \in Outs, NEW n, NEW kind, NEW step, NEW of, Added(o, n, Event(kind, step, of))
    PROVE  /\ Len(o.events) \in Nat
           /\ \A k \in Kind(o.events, kind) :
                 k \in 1..Len(o.events) /\ n.events[k] = o.events[k]
           /\ \/ /\ n.truncated /\ Kind(n.events, kind) = Kind(o.events, kind)
              \/ /\ n.truncated = o.truncated
                 /\ n.events[Len(o.events) + 1] = Event(kind, step, of)
                 /\ Kind(n.events, kind) = Kind(o.events, kind) \cup {Len(o.events) + 1}
<1> DEFINE e == Event(kind, step, of)
<1>1. e.kind = kind /\ Added(o, n, e)
  BY DEF Event
<1> HIDE DEF e
<1>2. \/ /\ n.truncated /\ Kind(n.events, kind) = Kind(o.events, kind)
      \/ /\ n.truncated = o.truncated /\ n.events[Len(o.events) + 1] = e
         /\ Kind(n.events, kind) = Kind(o.events, kind) \cup {Len(o.events) + 1}
  BY <1>1, AddedOf
<1>3. /\ Len(o.events) \in Nat
      /\ \A k \in Kind(o.events, kind) :
                 k \in 1..Len(o.events) /\ n.events[k] = o.events[k]
  BY <1>1, AddedKinds DEF Kind
<1> QED BY <1>2, <1>3 DEF e

\* An event that is no metric leaves the metrics what they were.
LEMMA MetricsAside ==
    ASSUME out \in Outs, worker'.last = worker.last, MetricsInv,
           NEW e, Added(out, out', e), e.kind # "metric"
    PROVE  MetricsInv'
<1>1. /\ Kind(out'.events, "metric") = Kind(out.events, "metric")
      /\ \A k \in Kind(out.events, "metric") : out'.events[k] = out.events[k]
  BY AddedOf
<1>2. worker'.last \in Logged \cup {0}
  BY DEF MetricsInv
<1>3. \A n \in Kind(out'.events, "metric") : out'.events[n].step <= worker'.last
  BY <1>1 DEF MetricsInv
<1>4. \A m, n \in Kind(out'.events, "metric") : m < n => out'.events[m].step < out'.events[n].step
  BY <1>1 DEF MetricsInv
<1> QED BY <1>2, <1>3, <1>4 DEF MetricsInv

\* A metric is emitted once for a scheduled step, after those of the steps before.
LEMMA MetricsKept ==
    ASSUME WorkloadTypeOK, WorkloadTypeOK', MetricsInv, WorkloadMoves
    PROVE  MetricsInv'
<1> USE StepsAre
<1>0. out \in Outs /\ out' \in Outs /\ worker \in Workers
  BY DEF WorkloadTypeOK
<1>1. CASE Takes
  <2>1. CASE out' = out /\ worker'.last = worker.last
    BY <2>1 DEF MetricsInv
  <2>2. ASSUME NEW step \in Nat, NEW logged \in Outs, NEW line \in Nat, NEW lost,
               Added(out, logged, Event("log", step, line)),
               step \in Schedule(line, lost),
               Added(logged, out', Event("metric", step, line)), worker'.last = step
        PROVE  MetricsInv'
    <3>1. /\ Kind(logged.events, "metric") = Kind(out.events, "metric")
          /\ \A k \in Kind(out.events, "metric") : logged.events[k] = out.events[k]
      BY <1>0, <2>2, AddedOf DEF Event
    <3> DEFINE e == Event("metric", step, line)
               L == Len(logged.events)
    <3>2. e.kind = "metric" /\ e.step = step
      BY DEF Event
    <3>3. step \in Logged /\ worker.last < step /\ worker.last \in Nat
      BY <1>0, <2>2 DEF Schedule, Workers
    <3>a. Added(logged, out', e)
      BY <2>2
    <3>4. /\ L \in Nat
          /\ \A k \in Kind(logged.events, "metric") :
                 k \in 1..L /\ out'.events[k] = logged.events[k]
          /\ \/ Kind(out'.events, "metric") = Kind(logged.events, "metric")
             \/ /\ Kind(out'.events, "metric") = Kind(logged.events, "metric") \cup {L + 1}
                /\ out'.events[L + 1] = e
      <4>2. Added(logged, out', Event("metric", step, line))
        BY <3>a
      <4> HIDE DEF L
      <4> QED BY <4>2, AddedOne DEF L
    <3> HIDE DEF e
    <3>5. \A k \in Kind(logged.events, "metric") :
             out'.events[k].step <= worker.last /\ out'.events[k].step \in Nat
      <4>1. \A k \in Kind(out.events, "metric") : out.events[k].step \in Nat
        BY <1>0, EventsAre DEF Kind
      <4> QED BY <3>1, <3>4, <4>1 DEF MetricsInv
    <3>6. \A m, n \in Kind(logged.events, "metric") :
             m < n => out'.events[m].step < out'.events[n].step
      BY <3>1, <3>4 DEF MetricsInv
    <3> HIDE DEF L
    <3>7. \A n \in Kind(out'.events, "metric") : out'.events[n].step <= worker'.last
      BY <2>2, <3>2, <3>3, <3>4, <3>5
    <3>8. ASSUME NEW m \in Kind(out'.events, "metric"), NEW n \in Kind(out'.events, "metric"), m < n
          PROVE  out'.events[m].step < out'.events[n].step
      <4>1. CASE m = L + 1
        <5>1. n \in 1..L \/ n = L + 1
          BY <3>4
        <5> QED BY <3>4, <3>8, <4>1, <5>1
      <4>2. CASE m \in Kind(logged.events, "metric") /\ n \in Kind(logged.events, "metric")
        BY <3>6, <3>8, <4>2
      <4>3. CASE m \in Kind(logged.events, "metric") /\ n = L + 1 /\ out'.events[L + 1] = e
        <5>1. out'.events[n].step = step
          BY <3>2, <4>3
        <5>2. out'.events[m].step <= worker.last /\ out'.events[m].step \in Nat
          BY <3>5, <4>3
        <5> QED BY <3>3, <5>1, <5>2
      <4> QED BY <3>4, <4>1, <4>2, <4>3
    <3>9. worker'.last \in Logged \cup {0}
      BY <2>2, <3>3
    <3> QED BY <3>7, <3>8, <3>9 DEF MetricsInv
  <2>3. ASSUME NEW step \in Nat, NEW line \in Nat,
               Added(out, out', Event("log", step, line)), worker'.last = worker.last
        PROVE  MetricsInv'
    <3>1. Event("log", step, line).kind # "metric"
      BY DEF Event
    <3> QED BY <1>0, <2>3, <3>1, MetricsAside
  <2> QED BY <1>1, <2>1, <2>2, <2>3, TakesIs
<1>2. CASE Returns
  <2>1. PICK said \in Outs :
                 /\ Added(out, said, Event("checkpoint", MaxSteps, Len(hub')))
                 /\ \/ ~said.truncated /\ out' = said
                    \/ said.truncated /\ Added(said, out', Event("log", MaxSteps, EOF))
    BY <1>2, ReturnsIs
  <2>2. worker'.last = worker.last
    BY <1>2, ReturnsIs
  <2>3. /\ Kind(said.events, "metric") = Kind(out.events, "metric")
        /\ \A k \in Kind(out.events, "metric") : said.events[k] = out.events[k]
    BY <1>0, <2>1, AddedOf DEF Event
  <2>4. Added(said, out', Event("log", MaxSteps, EOF)) =>
        /\ Kind(out'.events, "metric") = Kind(said.events, "metric")
        /\ \A k \in Kind(said.events, "metric") : out'.events[k] = said.events[k]
    BY <2>1, AddedOf DEF Event
  <2>5. /\ Kind(out'.events, "metric") = Kind(out.events, "metric")
        /\ \A k \in Kind(out.events, "metric") : out'.events[k] = out.events[k]
    BY <2>1, <2>3, <2>4
  <2> QED BY <2>2, <2>5 DEF MetricsInv
<1>3. CASE VerifiesMarker
  <2>1. worker'.last = worker.last /\ Added(out, out', Event("log", EOF, EOF))
    BY <1>0, <1>3, VerifiesMarkerIs DEF Workers
  <2> QED BY <1>0, <2>1, MetricsAside DEF Event
<1>4. CASE Uploads
  <2>1. PICK s : worker'.last = worker.last /\ Added(out, out', Event("checkpoint", s, Len(hub')))
    BY <1>4, UploadsIs
  <2> QED BY <1>0, <2>1, MetricsAside DEF Event
<1>5. CASE ~Takes /\ ~Returns /\ ~VerifiesMarker /\ ~Uploads
  <2>1. out'.events = out.events /\ worker'.last = worker.last
    BY <1>5, QuietIs
  <2> QED BY <2>1 DEF MetricsInv
<1> QED BY <1>1, <1>2, <1>3, <1>4, <1>5

\* With none dropped, the lines on their way are those of the scheduled steps the worker
\* has not seen and LeRobot has done, in order; the end of the pipe may be among them.
InLine(queue, unread, last, step) ==
    /\ \A i, j \in 1..Len(queue) : i < j /\ queue[j] # EOF => queue[i] < queue[j]
    /\ \A i \in 1..Len(queue) : \A j \in 1..Len(unread) : queue[i] < unread[j]
    /\ \A i, j \in 1..Len(unread) : i < j => unread[i] < unread[j]
    /\ \A i \in 1..Len(queue) : queue[i] # EOF =>
           queue[i] \in Logged /\ last < queue[i] /\ queue[i] <= step
    /\ \A j \in 1..Len(unread) : unread[j] \in Logged /\ last < unread[j] /\ unread[j] <= step
    /\ \A s \in Logged : last < s /\ s <= step =>
           (\E i \in 1..Len(queue) : queue[i] = s) \/ (\E j \in 1..Len(unread) : unread[j] = s)

\* The elements of a sequence of steps.
LEMMA SeqIs ==
    /\ \A q \in Seq(0..MaxSteps) : Len(q) \in Nat /\ \A i \in 1..Len(q) : q[i] \in 0..MaxSteps /\ q[i] \in Nat
    /\ \A u \in Seq(Steps) : Len(u) \in Nat /\ \A j \in 1..Len(u) : u[j] \in Steps /\ u[j] \in Nat
<1>1. ASSUME NEW q \in Seq(0..MaxSteps)
      PROVE  Len(q) \in Nat /\ \A i \in 1..Len(q) : q[i] \in 0..MaxSteps /\ q[i] \in Nat
  <2>1. Len(q) \in Nat /\ \A i \in 1..Len(q) : q[i] \in 0..MaxSteps
    BY LenProperties, ElementOfSeq
  <2> QED BY <2>1, StepsAre
<1>2. ASSUME NEW u \in Seq(Steps)
      PROVE  Len(u) \in Nat /\ \A j \in 1..Len(u) : u[j] \in Steps /\ u[j] \in Nat
  <2>1. Len(u) \in Nat /\ \A j \in 1..Len(u) : u[j] \in Steps
    BY ElementOfSeq
  <2> QED BY <2>1, StepsAre
<1> QED BY <1>1, <1>2

\* LeRobot prints a line.
LEMMA LinePrinted ==
    ASSUME NEW q \in Seq(0..MaxSteps), NEW u \in Seq(Steps), NEW last \in 0..MaxSteps,
           NEW step \in 0..MaxSteps, step + 1 <= MaxSteps, last <= step,
           InLine(q, u, last, step)
    PROVE  InLine(q, IF step + 1 \in Logged THEN Append(u, step + 1) ELSE u, last, step + 1)
<1>0. /\ EOF = 0 /\ \A x \in Logged : x \in Nat /\ x \in Steps /\ x # EOF
      /\ Len(q) \in Nat /\ \A i \in 1..Len(q) : q[i] \in 0..MaxSteps /\ q[i] \in Nat
      /\ Len(u) \in Nat /\ \A j \in 1..Len(u) : u[j] \in Steps /\ u[j] \in Nat
  <2>1. EOF = 0 /\ \A x \in Logged : x \in Nat /\ x \in Steps /\ x # EOF
    BY DEF Logged, Steps, EOF
  <2> QED BY <2>1, SeqIs
<1>1. CASE step + 1 \notin Logged
  <2>1. \A s \in Logged : s <= step + 1 => s <= step
    BY <1>0, <1>1
  <2> QED BY <1>0, <1>1, <2>1 DEF InLine
<1>2. CASE step + 1 \in Logged
  <2> DEFINE v == Append(u, step + 1)
  <2>1. /\ Len(v) = Len(u) + 1
        /\ \A j \in 1..Len(u) : v[j] = u[j] /\ v[Len(u) + 1] = step + 1
    <3>1. step + 1 \in Steps
      BY <1>0, <1>2
    <3> QED BY <1>0, <3>1, AppendProperties, LenProperties
  <2>a. v[Len(u) + 1] = step + 1
    <3>1. step + 1 \in Steps
      BY <1>0, <1>2
    <3> QED BY <3>1, AppendProperties
  <2> HIDE DEF v
  <2>2. \A i \in 1..Len(q) : q[i] <= step /\ q[i] \in Nat
    BY <1>0 DEF InLine
  <2>3. \A j \in 1..Len(u) : u[j] <= step
    BY <1>0 DEF InLine
  <2>4. \A i \in 1..Len(q) : \A j \in 1..Len(v) : q[i] < v[j]
    <3> TAKE i \in 1..Len(q)
    <3> TAKE j \in 1..Len(v)
    <3>1. CASE j \in 1..Len(u)
      BY <1>0, <2>1, <3>1 DEF InLine
    <3>2. CASE j = Len(u) + 1
      BY <1>0, <2>a, <2>2, <3>2
    <3> QED BY <1>0, <2>1, <3>1, <3>2
  <2>5. ASSUME NEW i \in 1..Len(v), NEW j \in 1..Len(v), i < j PROVE v[i] < v[j]
    <3>0. i \in 1..Len(u) /\ (j \in 1..Len(u) \/ j = Len(u) + 1)
      BY <1>0, <2>1, <2>5
    <3>1. CASE j \in 1..Len(u)
      BY <1>0, <2>1, <2>5, <3>0, <3>1 DEF InLine
    <3>2. CASE j = Len(u) + 1
      BY <1>0, <2>1, <2>a, <2>3, <3>0, <3>2
    <3> QED BY <3>0, <3>1, <3>2
  <2>6. \A j \in 1..Len(v) : v[j] \in Logged /\ last < v[j] /\ v[j] <= step + 1
    <3> TAKE j \in 1..Len(v)
    <3>1. CASE j \in 1..Len(u)
      BY <1>0, <2>1, <3>1 DEF InLine
    <3>2. CASE j = Len(u) + 1
      BY <1>0, <1>2, <2>1, <2>a, <3>2
    <3> QED BY <1>0, <2>1, <3>1, <3>2
  <2>7. ASSUME NEW s \in Logged, last < s, s <= step + 1
        PROVE  (\E i \in 1..Len(q) : q[i] = s) \/ (\E j \in 1..Len(v) : v[j] = s)
    <3>1. CASE s <= step
      <4>1. (\E i \in 1..Len(q) : q[i] = s) \/ (\E j \in 1..Len(u) : u[j] = s)
        BY <2>7, <3>1 DEF InLine
      <4> QED BY <1>0, <2>1, <4>1
    <3>2. CASE s = step + 1
      <4>1. Len(u) + 1 \in 1..Len(v)
        BY <1>0, <2>1
      <4> QED BY <2>a, <3>2, <4>1
    <3> QED BY <1>0, <2>7, <3>1, <3>2
  <2>8. \A i \in 1..Len(q) : q[i] # EOF => q[i] \in Logged /\ last < q[i] /\ q[i] <= step + 1
    BY <1>0, <2>2 DEF InLine
  <2>9. InLine(q, v, last, step + 1)
    BY <2>4, <2>5, <2>6, <2>7, <2>8 DEF InLine
  <2> QED BY <1>2, <2>9 DEF v
<1> QED BY <1>1, <1>2

\* The reader hands a line on.
LEMMA LineRead ==
    ASSUME NEW q \in Seq(0..MaxSteps), NEW u \in Seq(Steps), NEW last \in 0..MaxSteps,
           NEW step \in 0..MaxSteps, u # <<>>, InLine(q, u, last, step)
    PROVE  InLine(Append(q, Head(u)), Tail(u), last, step)
<1> DEFINE h == Head(u)
           p == Append(q, h)
           t == Tail(u)
<1>0. /\ EOF = 0 /\ \A x \in Logged : x \in Nat /\ x \in Steps /\ x # EOF
      /\ Len(q) \in Nat /\ \A i \in 1..Len(q) : q[i] \in 0..MaxSteps /\ q[i] \in Nat
      /\ Len(u) \in Nat /\ \A j \in 1..Len(u) : u[j] \in Steps /\ u[j] \in Nat
  <2>1. EOF = 0 /\ \A x \in Logged : x \in Nat /\ x \in Steps /\ x # EOF
    BY DEF Logged, Steps, EOF
  <2> QED BY <2>1, SeqIs
<1>1. /\ h = u[1] /\ t \in Seq(Steps) /\ Len(t) = Len(u) - 1 /\ 1 \in 1..Len(u)
      /\ \A j \in 1..(Len(u) - 1) : t[j] = u[j + 1] /\ j + 1 \in 1..Len(u)
  BY <1>0, HeadTailProperties, EmptySeq, LenProperties
<1>2. h \in 0..MaxSteps
  <2>1. u[1] \in Steps
    BY <1>0, <1>1
  <2> QED BY <1>1, <2>1, StepsAre
<1>3. /\ Len(p) = Len(q) + 1 /\ \A i \in 1..Len(q) : p[i] = q[i]
  BY <1>0, <1>2, AppendProperties, LenProperties
<1>4. p[Len(q) + 1] = h
  BY <1>0, <1>2, AppendProperties
<1> HIDE DEF h, p, t
<1>5. ASSUME NEW i \in 1..Len(p), NEW j \in 1..Len(p), i < j, p[j] # EOF PROVE p[i] < p[j]
  <2>0. i \in 1..Len(q) /\ (j \in 1..Len(q) \/ j = Len(q) + 1)
    BY <1>0, <1>3, <1>5
  <2>1. CASE j \in 1..Len(q)
    BY <1>3, <1>5, <2>0, <2>1 DEF InLine
  <2>2. CASE j = Len(q) + 1
    BY <1>1, <1>3, <1>4, <2>0, <2>2 DEF InLine
  <2> QED BY <2>0, <2>1, <2>2
<1>6. \A i \in 1..Len(p) : \A j \in 1..Len(t) : p[i] < t[j]
  <2> TAKE i \in 1..Len(p)
  <2> TAKE j \in 1..Len(t)
  <2>1. CASE i \in 1..Len(q)
    BY <1>0, <1>1, <1>3, <2>1 DEF InLine
  <2>2. CASE i = Len(q) + 1
    <3>1. j + 1 \in 1..Len(u) /\ t[j] = u[j + 1] /\ 1 < j + 1
      BY <1>0, <1>1
    <3>2. u[1] < u[j + 1]
      BY <1>1, <3>1 DEF InLine
    <3> QED BY <1>1, <1>4, <2>2, <3>1, <3>2
  <2> QED BY <1>0, <1>3, <2>1, <2>2
<1>7. ASSUME NEW i \in 1..Len(t), NEW j \in 1..Len(t), i < j PROVE t[i] < t[j]
  <2>1. /\ i + 1 \in 1..Len(u) /\ j + 1 \in 1..Len(u) /\ i + 1 < j + 1
        /\ t[i] = u[i + 1] /\ t[j] = u[j + 1]
    BY <1>0, <1>1, <1>7
  <2> QED BY <2>1 DEF InLine
<1>8. \A i \in 1..Len(p) : p[i] # EOF => p[i] \in Logged /\ last < p[i] /\ p[i] <= step
  <2> TAKE i \in 1..Len(p)
  <2>1. CASE i \in 1..Len(q)
    BY <1>0, <1>3, <2>1 DEF InLine
  <2>2. CASE i = Len(q) + 1
    BY <1>0, <1>1, <1>4, <2>2 DEF InLine
  <2> QED BY <1>0, <1>3, <2>1, <2>2
<1>9. \A j \in 1..Len(t) : t[j] \in Logged /\ last < t[j] /\ t[j] <= step
  BY <1>0, <1>1 DEF InLine
<1>10. ASSUME NEW s \in Logged, last < s, s <= step
       PROVE  (\E i \in 1..Len(p) : p[i] = s) \/ (\E j \in 1..Len(t) : t[j] = s)
  <2>1. CASE \E i \in 1..Len(q) : q[i] = s
    BY <1>0, <1>3, <2>1
  <2>2. ASSUME NEW j \in 1..Len(u), u[j] = s
        PROVE  (\E i \in 1..Len(p) : p[i] = s) \/ (\E k \in 1..Len(t) : t[k] = s)
    <3>1. CASE j = 1
      BY <1>0, <1>1, <1>3, <1>4, <2>2, <3>1
    <3>2. CASE j # 1
      <4>1. j - 1 \in 1..Len(t) /\ t[j - 1] = s
        BY <1>0, <1>1, <2>2, <3>2
      <4> QED BY <4>1
    <3> QED BY <3>1, <3>2
  <2> QED BY <1>0, <1>10, <2>1, <2>2 DEF InLine
<1>11. InLine(p, t, last, step)
  BY <1>5, <1>6, <1>7, <1>8, <1>9, <1>10 DEF InLine
<1> QED BY <1>11 DEF p, t, h

\* It says that the pipe has ended.
LEMMA EndRead ==
    ASSUME NEW q \in Seq(0..MaxSteps), NEW last \in 0..MaxSteps,
           NEW step \in 0..MaxSteps, InLine(q, <<>>, last, step)
    PROVE  InLine(Append(q, EOF), <<>>, last, step)
<1> DEFINE p == Append(q, EOF)
<1>0. /\ Len(q) \in Nat /\ EOF \in 0..MaxSteps /\ Len(<<>>) = 0 /\ EOF = 0
  BY StepsAre, LenProperties, EmptySeq
<1>1. /\ Len(p) = Len(q) + 1 /\ \A i \in 1..Len(q) : p[i] = q[i]
  BY <1>0, AppendProperties, LenProperties
<1>2. p[Len(q) + 1] = EOF
  BY <1>0, AppendProperties
<1> HIDE DEF p
<1>3. \A i \in 1..Len(p) : p[i] # EOF => i \in 1..Len(q)
  BY <1>0, <1>1, <1>2
<1>4. \A i, j \in 1..Len(p) : i < j /\ p[j] # EOF => p[i] < p[j]
  BY <1>0, <1>1, <1>3 DEF InLine
<1>5. \A i \in 1..Len(p) : p[i] # EOF => p[i] \in Logged /\ last < p[i] /\ p[i] <= step
  BY <1>0, <1>1, <1>3 DEF InLine
<1>6. \A s \in Logged : last < s /\ s <= step => \E i \in 1..Len(p) : p[i] = s
  <2>1. \A s \in Logged : last < s /\ s <= step => \E i \in 1..Len(q) : q[i] = s
    BY <1>0 DEF InLine
  <2> QED BY <1>0, <1>1, <2>1
<1>7. InLine(p, <<>>, last, step)
  BY <1>0, <1>4, <1>5, <1>6 DEF InLine
<1> QED BY <1>7 DEF p

\* The loop takes it, or a line, which is that of the next step on the schedule.
LEMMA EndTaken ==
    ASSUME NEW q \in Seq(0..MaxSteps), NEW u \in Seq(Steps), NEW last \in 0..MaxSteps,
           NEW step \in 0..MaxSteps, q # <<>>, Head(q) = EOF, InLine(q, u, last, step)
    PROVE  InLine(Tail(q), u, last, step)
<1> DEFINE t == Tail(q)
<1>0. /\ EOF = 0 /\ \A x \in Logged : x \in Nat /\ x \in Steps /\ x # EOF
      /\ Len(q) \in Nat /\ \A i \in 1..Len(q) : q[i] \in 0..MaxSteps /\ q[i] \in Nat
  <2>1. EOF = 0 /\ \A x \in Logged : x \in Nat /\ x \in Steps /\ x # EOF
    BY DEF Logged, Steps, EOF
  <2> QED BY <2>1, SeqIs
<1>1. /\ q[1] = EOF /\ Len(t) = Len(q) - 1 /\ 1 \in 1..Len(q)
      /\ \A j \in 1..(Len(q) - 1) : t[j] = q[j + 1] /\ j + 1 \in 1..Len(q)
  BY <1>0, HeadTailProperties, EmptySeq, LenProperties
<1> HIDE DEF t
<1>2. \A i \in 1..Len(t) : i + 1 \in 1..Len(q) /\ t[i] = q[i + 1]
  BY <1>0, <1>1
<1>a. ASSUME NEW i \in 1..Len(t), NEW j \in 1..Len(t), i < j, t[j] # EOF PROVE t[i] < t[j]
  <2>1. i + 1 < j + 1
    BY <1>0, <1>1, <1>a
  <2> QED BY <1>2, <1>a, <2>1 DEF InLine
<1>b. /\ \A i \in 1..Len(t) : \A j \in 1..Len(u) : t[i] < u[j]
      /\ \A i \in 1..Len(t) : t[i] # EOF => t[i] \in Logged /\ last < t[i] /\ t[i] <= step
  BY <1>2 DEF InLine
<1>3. ASSUME NEW s \in Logged, last < s, s <= step, NEW i \in 1..Len(q), q[i] = s
      PROVE  \E j \in 1..Len(t) : t[j] = s
  <2>1. i # 1
    BY <1>0, <1>1, <1>3
  <2>2. i - 1 \in 1..Len(t) /\ t[i - 1] = s
    BY <1>0, <1>1, <1>3, <2>1
  <2> QED BY <2>2
<1>4. InLine(t, u, last, step)
  BY <1>a, <1>b, <1>3 DEF InLine
<1> QED BY <1>4 DEF t

\* With none dropped, the line taken is that of the next scheduled step.
LEMMA LineTaken ==
    ASSUME NEW q \in Seq(0..MaxSteps), NEW u \in Seq(Steps), NEW last \in Logged \cup {0},
           NEW step \in 0..MaxSteps, q # <<>>, Head(q) # EOF, InLine(q, u, last, step)
    PROVE  /\ Head(q) = last + LogEvery /\ Head(q) \in Logged
           /\ \A s \in Logged : last < s => Head(q) <= s
           /\ InLine(Tail(q), u, Head(q), step)
<1> DEFINE t == Tail(q)
           h == Head(q)
<1>0. /\ EOF = 0 /\ \A x \in Logged : x \in Nat /\ x \in Steps /\ x # EOF
      /\ Len(q) \in Nat /\ \A i \in 1..Len(q) : q[i] \in 0..MaxSteps /\ q[i] \in Nat
      /\ Len(u) \in Nat /\ \A j \in 1..Len(u) : u[j] \in Steps /\ u[j] \in Nat
  <2>1. EOF = 0 /\ \A x \in Logged : x \in Nat /\ x \in Steps /\ x # EOF
    BY DEF Logged, Steps, EOF
  <2> QED BY <2>1, SeqIs
<1>1. /\ h = q[1] /\ Len(t) = Len(q) - 1 /\ 1 \in 1..Len(q)
      /\ \A j \in 1..(Len(q) - 1) : t[j] = q[j + 1] /\ j + 1 \in 1..Len(q)
  BY <1>0, HeadTailProperties, EmptySeq, LenProperties
<1>a. h # EOF
  OBVIOUS
<1> HIDE DEF t, h
<1>2. h \in Logged /\ last < h /\ h <= step /\ h \in Nat /\ last \in Nat
  <2>1. h \in Logged /\ last < h /\ h <= step
    BY <1>1, <1>a DEF InLine
  <2> QED BY <1>0, <2>1
<1>3. \A i \in 2..Len(q) : q[i] # EOF => h < q[i]
  BY <1>0, <1>1 DEF InLine
<1>4. \A j \in 1..Len(u) : h < u[j]
  BY <1>0, <1>1 DEF InLine
<1>5. \A s \in Logged : last < s /\ s <= step => h <= s
  <2> TAKE s \in Logged
  <2> HAVE last < s /\ s <= step
  <2>1. s # EOF /\ s \in Nat
    BY <1>0
  <2>2. ASSUME NEW i \in 1..Len(q), q[i] = s PROVE h <= s
    <3>1. i = 1 \/ i \in 2..Len(q)
      BY <1>0
    <3>2. i \in 2..Len(q) => h < s
      BY <1>3, <2>1, <2>2
    <3> QED BY <1>1, <1>2, <2>1, <2>2, <3>1, <3>2
  <2>3. CASE \E j \in 1..Len(u) : u[j] = s
    BY <1>0, <1>2, <1>4, <2>1, <2>3
  <2> QED BY <2>2, <2>3 DEF InLine
<1>6. \A s \in Logged : last < s => h <= s
  BY <1>2, <1>5
<1>7. h = last + LogEvery
  <2>0. LogEvery \in Nat \ {0} /\ MaxSteps \in Nat
    BY WorkloadAssumption
  <2>1. last % LogEvery = 0
    <3>1. 0 % LogEvery = 0
      <4>1. 0 = LogEvery * (0 \div LogEvery) + (0 % LogEvery) /\ 0 % LogEvery \in 0..(LogEvery - 1)
            /\ 0 \div LogEvery \in Nat
        BY <2>0, DivMod
      <4>2. (LogEvery * 0 + 0) % LogEvery = 0
        BY <2>0, ModUnique
      <4>3. LogEvery * 0 + 0 = 0
        BY <2>0
      <4> QED BY <4>2, <4>3
    <3> QED BY <3>1 DEF Logged
  <2>2. /\ (last + LogEvery) % LogEvery = 0
        /\ \A s \in Nat : last < s /\ s < last + LogEvery => s % LogEvery # 0
    BY <1>2, <2>0, <2>1, ModStep
  <2>3. h % LogEvery = 0
    BY <1>2 DEF Logged
  <2>4. ~(h < last + LogEvery)
    BY <1>2, <2>2, <2>3
  <2>5. last + LogEvery \in 1..MaxSteps
    BY <1>2, <2>0, <2>4
  <2>6. last + LogEvery \in Logged
    BY <2>2, <2>5 DEF Logged, Steps
  <2> QED BY <1>2, <1>6, <2>0, <2>4, <2>5, <2>6
<1>b. \A i \in 1..Len(t) : i + 1 \in 1..Len(q) /\ i + 1 \in 2..Len(q) /\ t[i] = q[i + 1]
  BY <1>0, <1>1
<1>8. ASSUME NEW i \in 1..Len(t), NEW j \in 1..Len(t), i < j, t[j] # EOF PROVE t[i] < t[j]
  <2>1. i + 1 < j + 1
    BY <1>0, <1>1, <1>8
  <2> QED BY <1>b, <1>8, <2>1 DEF InLine
<1>c. \A i \in 1..Len(t) : \A j \in 1..Len(u) : t[i] < u[j]
  BY <1>b DEF InLine
<1>9. \A i \in 1..Len(t) : t[i] # EOF => t[i] \in Logged /\ h < t[i] /\ t[i] <= step
  BY <1>b, <1>3 DEF InLine
<1>10. \A j \in 1..Len(u) : u[j] \in Logged /\ h < u[j] /\ u[j] <= step
  BY <1>0, <1>4 DEF InLine
<1>11. ASSUME NEW s \in Logged, h < s, s <= step, NEW i \in 1..Len(q), q[i] = s
       PROVE  \E j \in 1..Len(t) : t[j] = s
  <2>1. i # 1
    BY <1>1, <1>2, <1>11
  <2>2. i - 1 \in 1..Len(t) /\ t[i - 1] = s
    BY <1>0, <1>1, <1>11, <2>1
  <2> QED BY <2>2
<1>12. \A i, j \in 1..Len(u) : i < j => u[i] < u[j]
  BY DEF InLine
<1>13. \A s \in Logged : h < s /\ s <= step =>
           (\E i \in 1..Len(t) : t[i] = s) \/ (\E j \in 1..Len(u) : u[j] = s)
  <2> TAKE s \in Logged
  <2> HAVE h < s /\ s <= step
  <2>1. last < s
    BY <1>2
  <2>2. (\E i \in 1..Len(q) : q[i] = s) \/ (\E j \in 1..Len(u) : u[j] = s)
    BY <2>1 DEF InLine
  <2> QED BY <1>11, <2>2
<1>14. InLine(t, u, h, step)
  BY <1>8, <1>c, <1>9, <1>10, <1>12, <1>13 DEF InLine
<1> QED BY <1>2, <1>6, <1>7, <1>14 DEF t, h

Looping == {"take", "scan", "upload"}

\* The pipe's reader lives as long as somebody may write to it, and then until it has
\* read all there is.
PipeInv ==
    /\ pipe.reader = "alive" \/ child.state = "running" => call = "running" /\ worker.pc \in Looping
    /\ worker.pc \in Beginning =>
          /\ pipe.unread = <<>> /\ pipe.queue = <<>> /\ ~pipe.dropped
          /\ worker.last = 0 /\ worker.uploaded = {}
    /\ call = "running" /\ worker.pc \in Looping =>
          /\ pipe.reader # "none"
          /\ pipe.reader = "dead" => child.state # "running" /\ pipe.unread = <<>>
          /\ ~pipe.dropped => /\ worker.last <= child.step
                              /\ InLine(pipe.queue, pipe.unread, worker.last, child.step)

\* Whatever else moves.
LEMMA PipeAside ==
    ASSUME WorkloadTypeOK, PipeInv,
           child' = child, pipe' = pipe, worker'.last = worker.last, call' = call,
           worker.pc \in Looping => worker'.pc \in Looping,
           worker.pc \in Beginning <=> worker'.pc \in Beginning,
           worker.pc \notin Looping => worker'.pc \notin Looping,
           worker.pc \in Beginning => worker'.uploaded = worker.uploaded
    PROVE  PipeInv'
<1>1. Looping \cap Beginning = {}
  BY DEF Looping, Beginning
<1> QED BY <1>1 DEF PipeInv

\* The worker's call ends.
LEMMA PipeEnds ==
    ASSUME WorkloadTypeOK, PipeInv, UNCHANGED worker, call' # "running",
           child' = [child EXCEPT !.state = IF ChildAlive THEN "killed" ELSE @],
           pipe' = [pipe EXCEPT !.reader = "dead"]
    PROVE  PipeInv'
<1>1. child \in Children /\ pipe \in Pipes
  BY DEF WorkloadTypeOK
<1>2. child'.state # "running"
  BY <1>1 DEF ChildAlive, Children
<1>3. /\ pipe'.reader = "dead" /\ pipe'.unread = pipe.unread /\ pipe'.queue = pipe.queue
      /\ pipe'.dropped = pipe.dropped
  BY <1>1 DEF Pipes
<1> QED BY <1>2, <1>3 DEF PipeInv

\* With none dropped, a line is taken for the step it is of.
LEMMA NextLine ==
    ASSUME WorkloadTypeOK, MetricsInv, PipeInv, Takes,
           pipe.queue # <<>>, Head(pipe.queue) # EOF, ~pipe.dropped
    PROVE  LET line == Head(pipe.queue) IN
           /\ line \in Logged /\ line \in Nat /\ worker.last < line
           /\ \A s \in Logged : worker.last < s => line <= s
           /\ line <= child.step /\ InLine(Tail(pipe.queue), pipe.unread, line, child.step)
           /\ worker'.last = line
           /\ \E logged \in Outs : /\ Added(out, logged, Event("log", line, line))
                                  /\ Added(logged, out', Event("metric", line, line))
<1> DEFINE line == Head(pipe.queue)
<1>a. /\ pipe.queue \in Seq(0..MaxSteps) /\ pipe.unread \in Seq(Steps) /\ pipe.dropped \in BOOLEAN
      /\ worker.last \in 0..MaxSteps /\ child.step \in 0..MaxSteps /\ MaxSteps \in Nat
  BY StepsAre DEF WorkloadTypeOK, Children, Pipes, Workers
<1>b. worker.pc \in Looping /\ call = "running"
  BY TakesIs DEF Looping
<1>1. InLine(pipe.queue, pipe.unread, worker.last, child.step)
  BY <1>b DEF PipeInv
<1>2. /\ line = worker.last + LogEvery /\ line \in Logged
      /\ \A s \in Logged : worker.last < s => line <= s
      /\ InLine(Tail(pipe.queue), pipe.unread, line, child.step)
  BY <1>a, <1>1, LineTaken DEF MetricsInv
<1>3. line <= child.step
  <2>1. line = pipe.queue[1] /\ 1 \in 1..Len(pipe.queue)
    BY <1>a, HeadTailProperties, EmptySeq, LenProperties
  <2>2. \A i \in 1..Len(pipe.queue) : pipe.queue[i] # EOF => pipe.queue[i] <= child.step
    BY <1>1 DEF InLine
  <2> QED BY <2>1, <2>2
<1>c. line # EOF
  OBVIOUS
<1>4. PICK step \in Nat, logged \in Outs :
            /\ step = ParsedStep(line, pipe.dropped)
            /\ Added(out, logged, Event("log", step, line))
            /\ \/ step = NoStep /\ out' = logged /\ worker'.last = worker.last
               \/ /\ step \in Schedule(line, pipe.dropped)
                  /\ Added(logged, out', Event("metric", step, line)) /\ worker'.last = step
  BY <1>c, TakesIs
<1> HIDE DEF line
<1>5. line \in Steps /\ line \in Nat /\ worker.last < line
  BY <1>a, <1>2, StepsAre, WorkloadAssumption
<1>6. Schedule(line, pipe.dropped) = {line}
  BY <1>2, <1>5 DEF Schedule
<1>7. step # NoStep
  <2>1. ParsedStep(line, pipe.dropped) = CHOOSE s \in {line} : \A t \in {line} : s <= t
    BY <1>6 DEF ParsedStep
  <2>2. line <= line
    BY <1>5
  <2>3. ParsedStep(line, pipe.dropped) = line
    BY <2>1, <2>2
  <2> QED BY <1>a, <1>4, <1>5, <2>3 DEF NoStep, Steps
<1>8. step = line
  BY <1>4, <1>6, <1>7
<1>9. \E lo \in Outs : Added(out, lo, Event("log", line, line)) /\ Added(lo, out', Event("metric", line, line))
  BY <1>4, <1>7, <1>8
<1> QED BY <1>2, <1>3, <1>4, <1>5, <1>7, <1>8, <1>9 DEF line

\* Lines reach the worker in the order in which they were printed.
LEMMA PipeKept ==
    ASSUME WorkloadTypeOK, WorkloadTypeOK', DirsInv, MetricsInv, PipeInv, WorkloadMoves
    PROVE  PipeInv'
<1>0. /\ child \in Children /\ pipe \in Pipes /\ worker \in Workers
      /\ child' \in Children /\ pipe' \in Pipes /\ worker' \in Workers
  BY DEF WorkloadTypeOK
<1>a. /\ pipe.queue \in Seq(0..MaxSteps) /\ pipe.unread \in Seq(Steps)
      /\ worker.last \in 0..MaxSteps /\ child.step \in 0..MaxSteps
      /\ 0 \in Nat /\ MaxSteps \in Nat
  BY <1>0, StepsAre DEF Children, Pipes, Workers
<1>b. Looping \cap Beginning = {} /\ "final" \notin Looping \cup Beginning
      /\ "returned" \notin Looping \cup Beginning
  BY DEF Looping, Beginning
<1>1. CASE Trains
  <2> DEFINE unread == IF child.step + 1 \in Logged THEN Append(pipe.unread, child.step + 1) ELSE pipe.unread
  <2>1. /\ child' = [child EXCEPT !.step = child.step + 1] /\ child.state = "running" /\ child.step + 1 <= MaxSteps
        /\ UNCHANGED <<worker, call>>
    BY <1>1, <1>a DEF Trains, ChildAlive
  <2>2. pipe' = IF child.step + 1 \in Logged
               THEN [pipe EXCEPT !.unread = Append(pipe.unread, child.step + 1)] ELSE pipe
    BY <1>1 DEF Trains
  <2>3. child'.step = child.step + 1 /\ child'.state = "running"
    BY <1>0, <2>1 DEF Children
  <2>4. pipe'.unread = unread /\ pipe'.queue = pipe.queue /\ pipe'.dropped = pipe.dropped
        /\ pipe'.reader = pipe.reader
    BY <1>0, <2>2 DEF Pipes
  <2> HIDE DEF unread
  <2>5. /\ call = "running" /\ worker.pc \in Looping /\ pipe.reader # "none" /\ pipe.reader # "dead"
    BY <2>1 DEF PipeInv
  <2>6. ASSUME ~pipe.dropped
        PROVE  worker.last <= child'.step /\ InLine(pipe'.queue, pipe'.unread, worker.last, child'.step)
    <3>1. worker.last <= child.step /\ InLine(pipe.queue, pipe.unread, worker.last, child.step)
      BY <2>5, <2>6 DEF PipeInv
    <3>2. InLine(pipe.queue, unread, worker.last, child.step + 1)
      BY <1>a, <2>1, <3>1, LinePrinted DEF unread
    <3> QED BY <1>a, <2>3, <2>4, <3>1, <3>2
  <2> QED BY <1>b, <2>1, <2>3, <2>4, <2>5, <2>6 DEF PipeInv
<1>2. CASE Saves \/ Exits
  <2>1. /\ child.state = "running" /\ UNCHANGED <<pipe, worker, call>> /\ child'.step = child.step
    BY <1>0, <1>2 DEF Saves, Exits, ChildAlive, Children
  <2>2. /\ call = "running" /\ worker.pc \in Looping /\ pipe.reader # "none" /\ pipe.reader # "dead"
    BY <2>1 DEF PipeInv
  <2> QED BY <1>b, <2>1, <2>2 DEF PipeInv
<1>3. CASE Reads
  <2> DEFINE room == Len(pipe.queue) < QueueMax
  <2>1. pipe.reader = "alive" /\ UNCHANGED <<child, worker, call>>
    BY <1>3 DEF Reads
  <2>2. call = "running" /\ worker.pc \in Looping
    BY <2>1 DEF PipeInv
  <2>3. CASE /\ pipe.unread # <<>>
             /\ pipe' = [pipe EXCEPT !.unread = Tail(@),
                                  !.queue = IF room THEN Append(@, Head(pipe.unread)) ELSE @,
                                  !.dropped = @ \/ ~room]
    <3>1. /\ pipe'.unread = Tail(pipe.unread) /\ pipe'.reader = "alive"
          /\ pipe'.queue = IF room THEN Append(pipe.queue, Head(pipe.unread)) ELSE pipe.queue
          /\ pipe'.dropped = (pipe.dropped \/ ~room)
      BY <1>0, <2>1, <2>3 DEF Pipes
    <3>2. ASSUME ~pipe'.dropped
          PROVE  worker.last <= child.step /\ InLine(pipe'.queue, pipe'.unread, worker.last, child.step)
      <4>1. room /\ ~pipe.dropped
        BY <3>1, <3>2
      <4>2. worker.last <= child.step /\ InLine(pipe.queue, pipe.unread, worker.last, child.step)
        BY <2>2, <4>1 DEF PipeInv
      <4>3. InLine(Append(pipe.queue, Head(pipe.unread)), Tail(pipe.unread), worker.last, child.step)
        BY <1>a, <2>3, <4>2, LineRead
      <4> QED BY <3>1, <4>1, <4>2, <4>3
    <3> QED BY <1>b, <2>1, <2>2, <3>1, <3>2 DEF PipeInv
  <2>4. CASE /\ pipe.unread = <<>> /\ ~ChildAlive
             /\ pipe' = [pipe EXCEPT !.reader = "dead",
                                  !.queue = IF room THEN Append(@, EOF) ELSE @]
    <3>1. /\ pipe'.unread = <<>> /\ pipe'.reader = "dead" /\ child.state # "running"
          /\ pipe'.queue = IF room THEN Append(pipe.queue, EOF) ELSE pipe.queue
          /\ pipe'.dropped = pipe.dropped
      BY <1>0, <2>1, <2>4 DEF Pipes, ChildAlive
    <3>2. ASSUME ~pipe.dropped
          PROVE  worker.last <= child.step /\ InLine(pipe'.queue, pipe'.unread, worker.last, child.step)
      <4>1. worker.last <= child.step /\ InLine(pipe.queue, <<>>, worker.last, child.step)
        BY <2>2, <2>4, <3>2 DEF PipeInv
      <4>2. InLine(Append(pipe.queue, EOF), <<>>, worker.last, child.step)
        BY <1>a, <4>1, EndRead
      <4> QED BY <3>1, <4>1, <4>2
    <3> QED BY <1>b, <2>1, <2>2, <3>1, <3>2 DEF PipeInv
  <2> QED BY <1>3, <2>3, <2>4 DEF Reads
<1>4. CASE Takes
  <2>1. /\ UNCHANGED <<child, call>> /\ call = "running" /\ worker.pc = "take" /\ worker'.pc = "scan"
        /\ worker.pc \in Looping /\ worker'.pc \in Looping
    BY <1>4, TakesIs DEF Looping
  <2>2. CASE pipe.queue = <<>> /\ UNCHANGED <<pipe, out>> /\ worker'.last = worker.last
    <3>1. worker.pc \notin Beginning /\ worker'.pc \notin Beginning
      BY <1>b, <2>1
    <3> QED BY <2>1, <2>2, <3>1, PipeAside
  <2>3. CASE /\ pipe.queue # <<>> /\ pipe'.queue = Tail(pipe.queue) /\ pipe'.unread = pipe.unread
             /\ pipe'.dropped = pipe.dropped /\ pipe'.reader = pipe.reader
    <3>1. ASSUME ~pipe.dropped
          PROVE  worker'.last <= child.step /\ InLine(pipe'.queue, pipe'.unread, worker'.last, child.step)
      <4>1. worker.last <= child.step /\ InLine(pipe.queue, pipe.unread, worker.last, child.step)
        BY <2>1, <3>1 DEF PipeInv
      <4>2. CASE Head(pipe.queue) = EOF
        <5>1. worker'.last = worker.last
          <6>1. EOF \notin Steps
            BY DEF Steps, EOF
          <6> QED BY <1>4, <2>3, <4>2, <6>1, TakesIs
        <5> QED BY <1>a, <2>3, <4>1, <4>2, <5>1, EndTaken
      <4>3. CASE Head(pipe.queue) # EOF
        <5>1. /\ Head(pipe.queue) <= child.step /\ worker'.last = Head(pipe.queue)
              /\ InLine(Tail(pipe.queue), pipe.unread, Head(pipe.queue), child.step)
          BY <1>4, <2>3, <3>1, <4>3, NextLine
        <5> QED BY <2>3, <5>1
      <4> QED BY <4>2, <4>3
    <3> QED BY <1>b, <2>1, <2>3, <3>1 DEF PipeInv
  <2> QED BY <1>4, <2>2, <2>3, TakesIs
<1>5. CASE Begins
  <2>1. call = "pending" /\ worker.pc = "spec" /\ worker' = [worker EXCEPT !.pc = "marker"]
        /\ UNCHANGED <<child, pipe>> /\ call' = "running"
    BY <1>5 DEF Begins, Goes, DirsInv
  <2>2. worker'.pc = "marker" /\ worker'.last = worker.last /\ worker'.uploaded = worker.uploaded
        /\ "marker" \in Beginning /\ "spec" \in Beginning
    BY <1>0, <2>1 DEF Workers, Beginning
  <2> QED BY <1>b, <2>1, <2>2 DEF PipeInv
<1>6. CASE VerifiesMarker \/ Fetches \/ Seals
  <2>1. /\ UNCHANGED <<child, pipe, call>>
        /\ worker.pc \in Beginning /\ worker.pc \notin Looping
        /\ \E pc \in Beginning : worker' = [worker EXCEPT !.pc = pc]
    BY <1>6 DEF VerifiesMarker, Fetches, Seals, Goes, At, Beginning, Looping
  <2>2. worker'.pc \in Beginning /\ worker'.last = worker.last /\ worker'.uploaded = worker.uploaded
    BY <1>0, <2>1 DEF Workers
  <2> QED BY <1>b, <2>1, <2>2, PipeAside
<1>7. CASE StartsChild
  <2>1. /\ worker.pc = "sealed" /\ call = "running" /\ UNCHANGED call
        /\ child' = [child EXCEPT !.state = "running"] /\ pipe' = [pipe EXCEPT !.reader = "alive"]
        /\ worker' = [worker EXCEPT !.pc = "take"]
    BY <1>7 DEF StartsChild, Goes, At
  <2>2. /\ child'.step = child.step /\ worker'.pc = "take" /\ worker'.last = worker.last
        /\ pipe'.reader = "alive" /\ pipe'.unread = pipe.unread /\ pipe'.queue = pipe.queue
        /\ pipe'.dropped = pipe.dropped
    BY <1>0, <2>1 DEF Children, Pipes, Workers
  <2>3. /\ pipe.unread = <<>> /\ pipe.queue = <<>> /\ ~pipe.dropped /\ worker.last = 0 /\ child.step = 0
    BY <2>1 DEF PipeInv, DirsInv, Beginning
  <2>4. InLine(<<>>, <<>>, 0, 0)
    BY StepsAre, EmptySeq, LenProperties DEF InLine
  <2> QED BY <1>b, <2>1, <2>2, <2>3, <2>4 DEF PipeInv, Looping
<1>8. CASE Aborts \/ UploadsInVain \/ \E state \in {"cancelled", "failed"} : Cancelled(state)
  <2>1. /\ UNCHANGED worker /\ call' # "running"
        /\ child' = [child EXCEPT !.state = IF ChildAlive THEN "killed" ELSE @]
        /\ pipe' = [pipe EXCEPT !.reader = "dead"]
    BY <1>8 DEF Aborts, UploadsInVain, Cancelled
  <2> QED BY <2>1, PipeEnds
<1>9. CASE Scans
  <2>1. /\ UNCHANGED <<child, pipe, call>> /\ worker.pc = "scan"
        /\ worker'.last = worker.last /\ worker'.pc \in {"take", "upload"}
    BY <1>0, <1>9 DEF Scans, At, Workers
  <2>2. worker.pc \in Looping /\ worker'.pc \in Looping
        /\ worker.pc \notin Beginning /\ worker'.pc \notin Beginning
    BY <2>1 DEF Looping, Beginning
  <2> QED BY <2>1, <2>2, PipeAside
<1>10. CASE Uploads
  <2>1. /\ UNCHANGED <<child, pipe, call>> /\ worker.pc = "upload"
        /\ worker'.last = worker.last /\ worker'.pc \in {"take", "upload"}
    BY <1>10, UploadsIs
  <2>2. worker.pc \in Looping /\ worker'.pc \in Looping
        /\ worker.pc \notin Beginning /\ worker'.pc \notin Beginning
    BY <2>1 DEF Looping, Beginning
  <2> QED BY <2>1, <2>2, PipeAside
<1>11. CASE Completes \/ Returns
  <2>1. /\ UNCHANGED <<child, pipe>>
        /\ worker'.pc \in {"final", "returned"}
        /\ worker'.last = worker.last
    BY <1>0, <1>11 DEF Completes, Returns, Goes, Workers
  <2>2. pipe.reader # "alive" /\ child.state # "running"
    <3>1. CASE Completes
      BY <3>1 DEF Completes, LoopGoesOn, ChildAlive
    <3>2. CASE Returns
      BY <1>b, <3>2 DEF Returns, At, PipeInv
    <3> QED BY <1>11, <3>1, <3>2
  <2> QED BY <1>b, <2>1, <2>2 DEF PipeInv
<1>12. CASE DeadlinePasses
  BY <1>12 DEF DeadlinePasses, PipeInv
<1> QED BY <1>1, <1>2, <1>3, <1>4, <1>5, <1>6, <1>7, <1>8, <1>9, <1>10, <1>11, <1>12
        DEF WorkloadMoves, Workload

\* After the pipe has ended, with LeRobot gone, the loop turns once more, and looks for
\* every checkpoint: none is left to upload at its end.
LastTurnInv ==
    /\ worker.uploaded \cup worker.todo \subseteq Saved \ {MaxSteps}
    /\ worker.pc # "upload" => worker.todo = {}
    /\ worker.pc \in {"final", "returned"} => worker.uploaded = Saved \ {MaxSteps}
    /\ call = "running" /\ worker.pc \in Looping /\ pipe.reader = "dead" /\ child.state = "exited" =>
          \/ worker.pc = "scan" \/ pipe.queue # <<>>
          \/ Saved \ {MaxSteps} \subseteq worker.uploaded \cup worker.todo

\* The loop does not end before its last look for checkpoints.
LEMMA LastTurnKept ==
    ASSUME WorkloadTypeOK, WorkloadTypeOK', DirsInv, PipeInv, PipeInv', LastTurnInv, WorkloadMoves
    PROVE  LastTurnInv'
<1>0. /\ child \in Children /\ pipe \in Pipes /\ worker \in Workers
      /\ child' \in Children /\ pipe' \in Pipes /\ worker' \in Workers
  BY DEF WorkloadTypeOK
<1>b. Looping \cap Beginning = {} /\ "final" \notin Looping \cup Beginning
      /\ "returned" \notin Looping \cup Beginning
  BY DEF Looping, Beginning
<1>1. CASE Trains \/ Saves \/ Exits
  <2>1. child.state = "running" /\ UNCHANGED <<worker, call>> /\ pipe'.reader = pipe.reader
    BY <1>0, <1>1 DEF Trains, Saves, Exits, ChildAlive, Pipes
  <2>2. pipe'.reader # "dead"
    BY <1>0, <2>1 DEF PipeInv
  <2> QED BY <2>1, <2>2 DEF LastTurnInv
<1>2. CASE Reads
  <2>1. UNCHANGED <<child, worker, call>>
    BY <1>2 DEF Reads
  <2>2. ASSUME pipe'.reader = "dead" PROVE pipe'.queue # <<>>
    <3> DEFINE room == Len(pipe.queue) < QueueMax
    <3>1. pipe.reader = "alive"
      BY <1>2 DEF Reads
    <3>2. pipe' = [pipe EXCEPT !.reader = "dead", !.queue = IF room THEN Append(@, EOF) ELSE @]
      BY <1>0, <1>2, <2>2, <3>1 DEF Reads, Pipes
    <3>3. pipe'.queue = IF room THEN Append(pipe.queue, EOF) ELSE pipe.queue
      BY <1>0, <3>2 DEF Pipes
    <3>4. pipe.queue \in Seq(0..MaxSteps) /\ EOF \in 0..MaxSteps /\ Len(pipe.queue) \in Nat
          /\ QueueMax \in Nat \ {0}
      BY <1>0, StepsAre, WorkloadAssumption, LenProperties DEF Pipes
    <3>5. CASE room
      <4>1. Len(Append(pipe.queue, EOF)) = Len(pipe.queue) + 1
        BY <3>4, AppendProperties
      <4>2. Len(pipe'.queue) # 0
        BY <3>3, <3>4, <3>5, <4>1
      <4> QED BY <4>2, EmptySeq, LenProperties
    <3>6. CASE ~room
      <4>1. Len(pipe'.queue) # 0
        BY <3>3, <3>4, <3>6
      <4> QED BY <4>1, EmptySeq, LenProperties
    <3> QED BY <3>5, <3>6
  <2> QED BY <2>1, <2>2 DEF LastTurnInv
<1>3. CASE Takes
  <2>1. /\ worker'.pc = "scan" /\ worker'.todo = worker.todo /\ worker'.uploaded = worker.uploaded
        /\ worker.pc = "take"
    BY <1>3, TakesIs
  <2> QED BY <2>1 DEF LastTurnInv
<1>4. CASE Begins \/ VerifiesMarker \/ Fetches \/ Seals
  <2>1. /\ \E pc \in Beginning : worker' = [worker EXCEPT !.pc = pc]
        /\ worker.pc # "upload"
    BY <1>4 DEF Begins, VerifiesMarker, Fetches, Seals, Goes, At, Beginning, DirsInv
  <2>2. worker'.pc \in Beginning /\ worker'.todo = worker.todo /\ worker'.uploaded = worker.uploaded
    BY <1>0, <2>1 DEF Workers
  <2> QED BY <1>b, <2>1, <2>2 DEF LastTurnInv
<1>5. CASE StartsChild
  <2>1. /\ worker.pc = "sealed" /\ pipe' = [pipe EXCEPT !.reader = "alive"]
        /\ worker' = [worker EXCEPT !.pc = "take"]
    BY <1>5 DEF StartsChild, Goes, At
  <2>2. pipe'.reader = "alive" /\ worker'.pc = "take" /\ worker'.todo = worker.todo
        /\ worker'.uploaded = worker.uploaded
    BY <1>0, <2>1 DEF Pipes, Workers
  <2> QED BY <2>1, <2>2 DEF LastTurnInv
<1>6. CASE Aborts \/ UploadsInVain \/ \E state \in {"cancelled", "failed"} : Cancelled(state)
  <2>1. UNCHANGED worker /\ call' # "running"
    BY <1>6 DEF Aborts, UploadsInVain, Cancelled
  <2> QED BY <2>1 DEF LastTurnInv
<1>7. CASE Scans
  <2> DEFINE found == {s \in Saved \ {MaxSteps} : Complete(s)} \ worker.uploaded
  <2>1. /\ UNCHANGED <<child, pipe, call>>
        /\ worker' = [worker EXCEPT !.pc = IF found = {} THEN "take" ELSE "upload", !.todo = found]
    BY <1>7 DEF Scans
  <2> HIDE DEF found
  <2>2. /\ worker'.todo = found /\ worker'.uploaded = worker.uploaded
        /\ worker'.pc = IF found = {} THEN "take" ELSE "upload"
    BY <1>0, <2>1 DEF Workers
  <2>3. found \subseteq Saved \ {MaxSteps}
    BY DEF found
  <2>4. ASSUME child.state = "exited" PROVE Saved \ {MaxSteps} \subseteq worker.uploaded \cup found
    <3>1. child.step = MaxSteps /\ \A s \in Saved : s < MaxSteps => child.dirs[s] = "done"
      BY <2>4 DEF DirsInv
    <3>2. \A s \in Saved \ {MaxSteps} : s < MaxSteps
      BY StepsAre
    <3> QED BY <3>1, <3>2 DEF found, Complete
  <2> QED BY <2>1, <2>2, <2>3, <2>4 DEF LastTurnInv
<1>8. CASE Uploads
  <2>1. /\ UNCHANGED <<child, pipe, call>> /\ worker.pc = "upload" /\ call = "running"
        /\ \E s \in worker.todo :
              /\ worker'.todo = worker.todo \ {s} /\ worker'.uploaded = worker.uploaded \cup {s}
              /\ worker'.pc = IF worker.todo = {s} THEN "take" ELSE "upload"
    BY <1>8, UploadsIs
  <2>2. PICK s \in worker.todo :
              /\ worker'.todo = worker.todo \ {s} /\ worker'.uploaded = worker.uploaded \cup {s}
              /\ worker'.pc = IF worker.todo = {s} THEN "take" ELSE "upload"
    BY <2>1
  <2>3. /\ worker'.uploaded \cup worker'.todo = worker.uploaded \cup worker.todo
        /\ worker'.pc \in {"take", "upload"}
        /\ worker'.pc # "upload" => worker'.todo = {}
    BY <2>2
  <2>4. worker.pc \in Looping
    BY <2>1 DEF Looping
  <2> QED BY <2>1, <2>3, <2>4 DEF LastTurnInv
<1>9. CASE Completes
  <2>1. /\ worker.pc = "take" /\ call = "running" /\ ~LoopGoesOn /\ child.state = "exited"
        /\ worker' = [worker EXCEPT !.pc = "final"]
    BY <1>9 DEF Completes, At, Goes
  <2>2. /\ worker'.pc = "final" /\ worker'.todo = worker.todo /\ worker'.uploaded = worker.uploaded
    BY <1>0, <2>1 DEF Workers
  <2>3. pipe.queue = <<>> /\ pipe.reader = "dead" /\ worker.pc \in Looping
    BY <1>0, <2>1 DEF LoopGoesOn, PipeInv, Pipes, Looping
  <2>4. worker.uploaded = Saved \ {MaxSteps}
    BY <2>1, <2>3 DEF LastTurnInv
  <2> QED BY <1>b, <2>1, <2>2, <2>4 DEF LastTurnInv
<1>10. CASE Returns
  <2>1. /\ worker.pc = "final" /\ worker'.pc = "returned"
        /\ worker'.todo = worker.todo /\ worker'.uploaded = worker.uploaded
    BY <1>10, ReturnsIs
  <2> QED BY <1>b, <2>1 DEF LastTurnInv
<1>11. CASE DeadlinePasses
  BY <1>11 DEF DeadlinePasses, LastTurnInv
<1> QED BY <1>1, <1>2, <1>3, <1>4, <1>5, <1>6, <1>7, <1>8, <1>9, <1>10, <1>11
        DEF WorkloadMoves, Workload

\* The steps that events of a kind tell of, the points that the metrics are.
StepsOf(events, kind) == {events[k].step : k \in Kind(events, kind)}
PointsOf(events) == {[step |-> events[k].step, of |-> events[k].of] : k \in Kind(events, "metric")}

\* What is scheduled before a step and up to one, with the system's line before it all.
Before(step) == {s \in Logged \cup {EOF} : s < step}
Until(step) == {s \in Logged \cup {EOF} : s <= step}

\* As long as no event was left out, every checkpoint that was uploaded is told of;
UploadsTold ==
    ~out.truncated =>
        StepsOf(out.events, "checkpoint")
            = worker.uploaded \cup (IF worker.pc = "returned" THEN {MaxSteps} ELSE {})

\* as long as no line was dropped either, so is every scheduled step the worker has seen,
MetricsTold ==
    ~out.truncated /\ ~pipe.dropped =>
        PointsOf(out.events) = {[step |-> s, of |-> s] : s \in {t \in Logged : t <= worker.last}}

\* and every line, in its place;
Placed(events) ==
    \A n \in Kind(events, "log") :
        Cardinality(Before(events[n].of)) = Cardinality({m \in Kind(events, "log") : m < n})
LinesTold ==
    ~out.truncated =>
        /\ worker.pc \in {"spec", "marker"} => Kind(out.events, "log") = {}
        /\ ~pipe.dropped =>
              /\ worker.pc \notin {"spec", "marker"} =>
                    Cardinality(Kind(out.events, "log")) = Cardinality(Until(worker.last))
              /\ Placed(out.events)

\* and what was dropped is known at the end, as an event left out.
LossTold ==
    ~out.truncated /\ worker.pc \in {"final", "returned"} =>
        ~pipe.dropped /\ \A s \in Logged : s <= worker.last

\* What an event more is to them.
LEMMA ToldMore ==
    ASSUME NEW o \in Outs, NEW n, NEW kind, NEW step, NEW of, Added(o, n, Event(kind, step, of)),
           ~n.truncated
    PROVE  /\ ~o.truncated
           /\ StepsOf(n.events, kind) = StepsOf(o.events, kind) \cup {step}
           /\ \A other : other # kind => StepsOf(n.events, other) = StepsOf(o.events, other)
           /\ kind = "metric" => PointsOf(n.events) = PointsOf(o.events) \cup {[step |-> step, of |-> of]}
           /\ kind # "metric" => PointsOf(n.events) = PointsOf(o.events)
<1> DEFINE e == Event(kind, step, of)
           L == Len(o.events)
<1>1. e.kind = kind /\ e.step = step /\ e.of = of /\ Added(o, n, e)
  BY DEF Event
<1> HIDE DEF e
<1>2. /\ L \in Nat /\ DOMAIN o.events = 1..L
      /\ \A k \in 1..L : k \in DOMAIN n.events /\ n.events[k] = o.events[k]
      /\ n.truncated = o.truncated /\ n.events[L + 1] = e
      /\ \A other : Kind(n.events, other) = Kind(o.events, other)
                                  \cup (IF e.kind = other THEN {L + 1} ELSE {})
  <2>1. /\ L \in Nat /\ DOMAIN o.events = 1..L
        /\ \A k \in 1..L : k \in DOMAIN n.events /\ n.events[k] = o.events[k]
        /\ \/ n.truncated /\ n.events = o.events
           \/ /\ n.truncated = o.truncated /\ n.events[L + 1] = e
              /\ \A knd : Kind(n.events, knd) = Kind(o.events, knd)
                                  \cup (IF e.kind = knd THEN {L + 1} ELSE {})
    BY <1>1, AddedKinds
  <2> QED BY <2>1
<1> HIDE DEF L
<1>3. ASSUME NEW other
      PROVE  /\ \A k \in Kind(o.events, other) : n.events[k] = o.events[k]
             /\ Kind(n.events, other) = Kind(o.events, other) \cup (IF kind = other THEN {L + 1} ELSE {})
  <2>1. \A k \in Kind(o.events, other) : k \in 1..L
    BY <1>2 DEF Kind
  <2> QED BY <1>1, <1>2, <2>1
<1>4. ASSUME NEW other
      PROVE  StepsOf(n.events, other) = StepsOf(o.events, other)
                             \cup (IF other = kind THEN {step} ELSE {})
  BY <1>1, <1>2, <1>3 DEF StepsOf
<1>5. PointsOf(n.events) = PointsOf(o.events)
                             \cup (IF kind = "metric" THEN {[step |-> step, of |-> of]} ELSE {})
  BY <1>1, <1>2, <1>3 DEF PointsOf
<1> QED BY <1>2, <1>4, <1>5

\* What no event says, nothing has happened of.
LEMMA QuietStays ==
    ASSUME WorkloadTypeOK, DirsInv, PipeInv, WorkloadMoves,
           ~Takes, ~Returns, ~VerifiesMarker, ~Uploads
    PROVE  /\ worker'.uploaded = worker.uploaded
           /\ ~out'.truncated => ~out.truncated
           /\ ~pipe'.dropped => ~pipe.dropped
           /\ worker'.pc = "returned" <=> worker.pc = "returned"
           /\ worker'.pc \in {"spec", "marker"} <=> worker.pc \in {"spec", "marker"}
           /\ worker'.pc \in {"final", "returned"} /\ ~Completes =>
                 worker.pc \in {"final", "returned"} /\ pipe'.dropped = pipe.dropped
<1>0. worker \in Workers /\ out \in Outs /\ pipe \in Pipes
  BY DEF WorkloadTypeOK
<1>1. CASE Completes
  <2>1. worker' = [worker EXCEPT !.pc = "final"] /\ worker.pc = "take" /\ pipe' = pipe
        /\ out' = [out EXCEPT !.truncated = @ \/ pipe.dropped]
    BY <1>1 DEF Completes, Goes, At
  <2>2. worker'.pc = "final" /\ worker'.uploaded = worker.uploaded
    BY <1>0, <2>1 DEF Workers
  <2>3. out'.truncated = (out.truncated \/ pipe.dropped)
    BY <1>0, <2>1 DEF Outs
  <2> QED BY <1>1, <2>1, <2>2, <2>3
<1>2. CASE Scans
  <2>1. worker.pc = "scan" /\ worker'.pc \in {"take", "upload"} /\ UNCHANGED <<pipe, out>>
        /\ worker'.uploaded = worker.uploaded
    BY <1>0, <1>2 DEF Scans, At, Workers
  <2> QED BY <2>1
<1>3. CASE Begins \/ Fetches \/ Seals \/ StartsChild
  <2>1. \/ worker.pc = "spec" /\ worker' = [worker EXCEPT !.pc = "marker"]
        \/ /\ worker.pc \in {"inputs", "fetched", "sealed"}
           /\ \E pc \in {"fetched", "sealed", "take"} : worker' = [worker EXCEPT !.pc = pc]
    BY <1>3 DEF Begins, Fetches, Seals, StartsChild, Goes, At, DirsInv
  <2>2. /\ worker'.uploaded = worker.uploaded
        /\ \/ worker.pc = "spec" /\ worker'.pc = "marker"
           \/ /\ worker.pc \in {"inputs", "fetched", "sealed"}
              /\ worker'.pc \in {"fetched", "sealed", "take"}
    BY <1>0, <2>1 DEF Workers
  <2>3. out' = out /\ pipe'.dropped = pipe.dropped
    BY <1>0, <1>3 DEF Begins, Fetches, Seals, StartsChild, Pipes
  <2> QED BY <2>2, <2>3
<1>4. CASE Reads
  <2>1. UNCHANGED <<worker, out>> /\ worker.pc \in Looping
    BY <1>4 DEF Reads, PipeInv
  <2>2. ~pipe'.dropped => ~pipe.dropped
    BY <1>0, <1>4 DEF Reads, Pipes
  <2> QED BY <2>1, <2>2 DEF Looping
<1>5. CASE \/ Trains \/ Saves \/ Exits \/ Aborts \/ UploadsInVain \/ DeadlinePasses
           \/ \E state \in {"cancelled", "failed"} : Cancelled(state)
  <2>1. UNCHANGED <<worker, out>> /\ pipe'.dropped = pipe.dropped
    BY <1>0, <1>5 DEF Trains, Saves, Exits, Aborts, UploadsInVain, DeadlinePasses, Cancelled, Pipes
  <2> QED BY <2>1
<1> QED BY <1>1, <1>2, <1>3, <1>4, <1>5 DEF WorkloadMoves, Workload

\* A checkpoint is uploaded and told of in one step.
LEMMA UploadsToldKept ==
    ASSUME WorkloadTypeOK, DirsInv, PipeInv, UploadsTold, WorkloadMoves
    PROVE  UploadsTold'
<1>0. worker \in Workers /\ out \in Outs /\ pipe \in Pipes
  BY DEF WorkloadTypeOK
<1> SUFFICES ASSUME ~out'.truncated
             PROVE  StepsOf(out'.events, "checkpoint")
            = worker'.uploaded \cup (IF worker'.pc = "returned" THEN {MaxSteps} ELSE {})
  BY DEF UploadsTold
<1>1. CASE Takes
  <2>1. worker.pc = "take" /\ worker'.pc = "scan" /\ worker'.uploaded = worker.uploaded
    BY <1>1, TakesIs
  <2>2. ~out.truncated /\ StepsOf(out'.events, "checkpoint") = StepsOf(out.events, "checkpoint")
    <3>1. CASE out' = out
      BY <3>1
    <3>2. ASSUME NEW step \in Nat, NEW logged \in Outs, NEW line \in Nat,
                 Added(out, logged, Event("log", step, line)),
                 out' = logged \/ Added(logged, out', Event("metric", step, line))
          PROVE  ~out.truncated /\ StepsOf(out'.events, "checkpoint") = StepsOf(out.events, "checkpoint")
      <4>1. /\ ~logged.truncated
            /\ StepsOf(out'.events, "checkpoint") = StepsOf(logged.events, "checkpoint")
        <5>1. CASE out' = logged
          BY <5>1
        <5>2. CASE Added(logged, out', Event("metric", step, line))
          <6>1. /\ ~logged.truncated
                /\ StepsOf(out'.events, "checkpoint") = StepsOf(logged.events, "checkpoint")
            BY <5>2, ToldMore
          <6> QED BY <6>1
        <5> QED BY <3>2, <5>1, <5>2
      <4>2. /\ ~out.truncated
            /\ StepsOf(logged.events, "checkpoint") = StepsOf(out.events, "checkpoint")
        BY <1>0, <3>2, <4>1, ToldMore
      <4> QED BY <4>1, <4>2
    <3>3. \/ out' = out
          \/ \E step \in Nat, logged \in Outs :
                /\ Added(out, logged, Event("log", step, Head(pipe.queue)))
                /\ out' = logged \/ Added(logged, out', Event("metric", step, Head(pipe.queue)))
                /\ Head(pipe.queue) \in Nat
      <4>1. \A s \in Steps : s \in Nat
        BY StepsAre
      <4> QED BY <1>1, <4>1, TakesIs
    <3> QED BY <3>1, <3>2, <3>3
  <2> QED BY <2>1, <2>2 DEF UploadsTold
<1>2. CASE Returns
  <2>1. PICK said \in Outs :
                 /\ Added(out, said, Event("checkpoint", MaxSteps, Len(hub')))
                 /\ \/ ~said.truncated /\ out' = said
                    \/ said.truncated /\ Added(said, out', Event("log", MaxSteps, EOF))
    BY <1>2, ReturnsIs
  <2>2. out' = said /\ ~said.truncated
    BY <2>1, ToldMore
  <2>3. ~out.truncated /\ StepsOf(out'.events, "checkpoint") = StepsOf(out.events, "checkpoint") \cup {MaxSteps}
    BY <1>0, <2>1, <2>2, ToldMore
  <2>4. worker.pc = "final" /\ worker'.pc = "returned" /\ worker'.uploaded = worker.uploaded
    BY <1>2, ReturnsIs
  <2> QED BY <2>3, <2>4 DEF UploadsTold
<1>3. CASE VerifiesMarker
  <2>1. /\ worker.pc = "marker" /\ worker' = [worker EXCEPT !.pc = "inputs"]
        /\ Added(out, out', Event("log", EOF, EOF))
    BY <1>3, VerifiesMarkerIs
  <2>2. worker'.pc = "inputs" /\ worker'.uploaded = worker.uploaded
    BY <1>0, <2>1 DEF Workers
  <2>3. ~out.truncated /\ StepsOf(out'.events, "checkpoint") = StepsOf(out.events, "checkpoint")
    BY <1>0, <2>1, ToldMore
  <2> QED BY <2>1, <2>2, <2>3 DEF UploadsTold
<1>4. CASE Uploads
  <2>1. worker.pc = "upload"
    BY <1>4, UploadsIs
  <2>2. PICK s \in worker.todo :
            /\ worker'.uploaded = worker.uploaded \cup {s}
            /\ worker'.pc = IF worker.todo = {s} THEN "take" ELSE "upload"
            /\ Added(out, out', Event("checkpoint", s, Len(hub')))
    BY <1>4, UploadsIs
  <2>3. ~out.truncated /\ StepsOf(out'.events, "checkpoint") = StepsOf(out.events, "checkpoint") \cup {s}
    BY <1>0, <2>2, ToldMore
  <2> QED BY <2>1, <2>2, <2>3 DEF UploadsTold
<1>5. CASE ~Takes /\ ~Returns /\ ~VerifiesMarker /\ ~Uploads
  <2>1. /\ out'.events = out.events /\ worker'.uploaded = worker.uploaded /\ ~out.truncated
        /\ worker'.pc = "returned" <=> worker.pc = "returned"
    BY <1>5, QuietIs, QuietStays
  <2> QED BY <2>1 DEF UploadsTold
<1> QED BY <1>1, <1>2, <1>3, <1>4, <1>5

\* The events of a turn of the loop, if nothing is left out and nothing was dropped.
LEMMA TakesTold ==
    ASSUME WorkloadTypeOK, MetricsInv, PipeInv, Takes, ~out'.truncated, ~pipe'.dropped
    PROVE  /\ ~pipe.dropped /\ ~out.truncated
           /\ \/ out' = out /\ worker'.last = worker.last
              \/ \E line \in Logged, logged \in Outs :
                    /\ line \in Nat /\ worker.last < line /\ worker'.last = line
                    /\ \A s \in Logged : worker.last < s => line <= s
                    /\ ~logged.truncated
                    /\ Added(out, logged, Event("log", line, line))
                    /\ Added(logged, out', Event("metric", line, line))
<1>0. out \in Outs
  BY DEF WorkloadTypeOK
<1>1. pipe'.dropped = pipe.dropped
  BY TakesIs
<1>2. CASE out' = out /\ worker'.last = worker.last
  BY <1>1, <1>2
<1>3. CASE pipe.queue # <<>> /\ Head(pipe.queue) \in Steps
  <2> DEFINE line == Head(pipe.queue)
  <2>1. line # EOF
    BY <1>3 DEF Steps, EOF
  <2>2. /\ line \in Logged /\ line \in Nat /\ worker.last < line
        /\ \A s \in Logged : worker.last < s => line <= s
        /\ worker'.last = line
        /\ \E logged \in Outs : /\ Added(out, logged, Event("log", line, line))
                                /\ Added(logged, out', Event("metric", line, line))
    BY <1>1, <1>3, <2>1, NextLine
  <2> HIDE DEF line
  <2>3. PICK logged \in Outs : /\ Added(out, logged, Event("log", line, line))
                               /\ Added(logged, out', Event("metric", line, line))
    BY <2>2
  <2>4. ~logged.truncated
    BY <2>3, ToldMore
  <2>5. ~out.truncated
    BY <1>0, <2>3, <2>4, ToldMore
  <2> QED BY <1>1, <2>2, <2>3, <2>4, <2>5
<1> QED BY <1>2, <1>3, TakesIs

\* A metric line is taken and told of in one step.
LEMMA MetricsToldKept ==
    ASSUME WorkloadTypeOK, DirsInv, MetricsInv, PipeInv, MetricsTold, WorkloadMoves
    PROVE  MetricsTold'
<1>0. worker \in Workers /\ out \in Outs /\ pipe \in Pipes /\ worker.last \in Nat
  BY StepsAre DEF WorkloadTypeOK, Workers
<1> SUFFICES ASSUME ~out'.truncated, ~pipe'.dropped
             PROVE  PointsOf(out'.events)
                        = {[step |-> s, of |-> s] : s \in {t \in Logged : t <= worker'.last}}
  BY DEF MetricsTold
<1>1. CASE Takes
  <2>0. ~pipe.dropped /\ ~out.truncated
    BY <1>1, TakesTold
  <2>1. CASE out' = out /\ worker'.last = worker.last
    BY <2>0, <2>1 DEF MetricsTold
  <2>2. ASSUME NEW line \in Logged, NEW logged \in Outs,
               line \in Nat, worker.last < line, worker'.last = line,
               \A s \in Logged : worker.last < s => line <= s,
               ~logged.truncated,
               Added(out, logged, Event("log", line, line)),
               Added(logged, out', Event("metric", line, line))
        PROVE  PointsOf(out'.events)
                        = {[step |-> s, of |-> s] : s \in {t \in Logged : t <= worker'.last}}
    <3>1. PointsOf(logged.events) = PointsOf(out.events)
      BY <1>0, <2>2, ToldMore
    <3>2. PointsOf(out'.events) = PointsOf(logged.events) \cup {[step |-> line, of |-> line]}
      BY <2>2, ToldMore
    <3>3. PointsOf(out.events) = {[step |-> s, of |-> s] : s \in {t \in Logged : t <= worker.last}}
      BY <2>0 DEF MetricsTold
    <3>4. {t \in Logged : t <= line} = {t \in Logged : t <= worker.last} \cup {line}
      <4>1. \A t \in Logged : t \in Nat
        BY StepsAre
      <4>2. \A t \in Logged : t <= line <=> t <= worker.last \/ t = line
        BY <1>0, <2>2, <4>1
      <4> QED BY <2>2, <4>2
    <3> QED BY <2>2, <3>1, <3>2, <3>3, <3>4
  <2> QED BY <1>1, <2>1, <2>2, TakesTold
<1>2. CASE Returns
  <2>1. PICK said \in Outs :
                 /\ Added(out, said, Event("checkpoint", MaxSteps, Len(hub')))
                 /\ \/ ~said.truncated /\ out' = said
                    \/ said.truncated /\ Added(said, out', Event("log", MaxSteps, EOF))
    BY <1>2, ReturnsIs
  <2>2. out' = said /\ ~said.truncated
    BY <2>1, ToldMore
  <2>3. ~out.truncated /\ PointsOf(out'.events) = PointsOf(out.events)
    BY <1>0, <2>1, <2>2, ToldMore
  <2>4. worker'.last = worker.last /\ pipe' = pipe
    BY <1>2, ReturnsIs
  <2> QED BY <2>3, <2>4 DEF MetricsTold
<1>3. CASE VerifiesMarker
  <2>1. /\ worker' = [worker EXCEPT !.pc = "inputs"] /\ pipe' = pipe
        /\ Added(out, out', Event("log", EOF, EOF))
    BY <1>3, VerifiesMarkerIs
  <2>2. worker'.last = worker.last
    BY <1>0, <2>1 DEF Workers
  <2>3. ~out.truncated /\ PointsOf(out'.events) = PointsOf(out.events)
    BY <1>0, <2>1, ToldMore
  <2> QED BY <2>1, <2>2, <2>3 DEF MetricsTold
<1>4. CASE Uploads
  <2>1. PICK s \in worker.todo :
            /\ worker'.last = worker.last /\ Added(out, out', Event("checkpoint", s, Len(hub')))
    BY <1>4, UploadsIs
  <2>2. ~out.truncated /\ PointsOf(out'.events) = PointsOf(out.events)
    BY <1>0, <2>1, ToldMore
  <2>3. pipe' = pipe
    BY <1>4, UploadsIs
  <2> QED BY <2>1, <2>2, <2>3 DEF MetricsTold
<1>5. CASE ~Takes /\ ~Returns /\ ~VerifiesMarker /\ ~Uploads
  <2>1. /\ out'.events = out.events /\ ~out.truncated /\ ~pipe.dropped /\ worker'.last = worker.last
    BY <1>5, QuietIs, QuietStays
  <2> QED BY <2>1 DEF MetricsTold
<1> QED BY <1>1, <1>2, <1>3, <1>4, <1>5

\* One more line, with as many before it as there should be.
LEMMA LinePlaced ==
    ASSUME NEW o \in Outs, NEW n, NEW step, NEW line, Added(o, n, Event("log", step, line)),
           ~n.truncated, Placed(o.events),
           Cardinality(Before(line)) = Cardinality(Kind(o.events, "log"))
    PROVE  /\ Placed(n.events)
           /\ Cardinality(Kind(n.events, "log")) = Cardinality(Kind(o.events, "log")) + 1
<1> DEFINE L == Len(o.events)
           K == Kind(o.events, "log")
           e == Event("log", step, line)
<1>1. /\ L \in Nat /\ Kind(n.events, "log") = K \cup {L + 1}
      /\ n.events[L + 1] = e
      /\ \A k \in K : k \in 1..L /\ n.events[k] = o.events[k]
  BY AddedOne
<1>2. e.of = line
  BY DEF Event
<1> HIDE DEF K, L, e
<1>3. IsFiniteSet(K)
  <2>1. IsFiniteSet(1..L)
    BY <1>1, FS_Interval
  <2> QED BY <1>1, <2>1, FS_Subset
<1>4. L + 1 \notin K
  BY <1>1
<1>5. Cardinality(Kind(n.events, "log")) = Cardinality(K) + 1
  BY <1>1, <1>3, <1>4, FS_AddElement
<1>6. ASSUME NEW k \in Kind(n.events, "log")
      PROVE  Cardinality(Before(n.events[k].of)) = Cardinality({m \in Kind(n.events, "log") : m < k})
  <2>1. CASE k \in K
    <3>1. {m \in Kind(n.events, "log") : m < k} = {m \in K : m < k}
      BY <1>1, <2>1
    <3>2. Cardinality(Before(o.events[k].of)) = Cardinality({m \in K : m < k})
      BY <2>1 DEF Placed, K
    <3> QED BY <1>1, <2>1, <3>1, <3>2
  <2>2. CASE k = L + 1
    <3>1. {m \in Kind(n.events, "log") : m < k} = K
      BY <1>1, <2>2
    <3> QED BY <1>1, <1>2, <2>2, <3>1 DEF K
  <2> QED BY <1>1, <2>1, <2>2
<1> QED BY <1>5, <1>6 DEF Placed, K

\* One that is no line leaves them in their places.
LEMMA LinesAside ==
    ASSUME NEW o \in Outs, NEW n, NEW kind, NEW step, NEW of, kind # "log",
           Added(o, n, Event(kind, step, of)), ~n.truncated
    PROVE  /\ ~o.truncated /\ Kind(n.events, "log") = Kind(o.events, "log")
           /\ Placed(o.events) => Placed(n.events)
<1> DEFINE e == Event(kind, step, of)
<1>1. e.kind # "log" /\ Added(o, n, e)
  BY DEF Event
<1> HIDE DEF e
<1>2. /\ Kind(n.events, "log") = Kind(o.events, "log")
      /\ \A k \in Kind(o.events, "log") : n.events[k] = o.events[k]
      /\ ~o.truncated
  BY <1>1, AddedOf
<1> QED BY <1>2 DEF Placed

\* After the step the worker has seen last comes the next on the schedule.
LEMMA NextCounts ==
    ASSUME NEW last \in Nat, NEW line \in Logged, line \in Nat, last < line,
           \A s \in Logged : last < s => line <= s
    PROVE  /\ Before(line) = Until(last)
           /\ Cardinality(Until(line)) = Cardinality(Until(last)) + 1
<1>1. \A s \in Logged \cup {EOF} : s \in Nat /\ (last < s => line <= s)
  BY StepsAre
<1>a. \A s \in Logged \cup {EOF} :
          /\ s < line <=> s <= last
          /\ s <= line <=> s <= last \/ s = line
  BY <1>1
<1>2. Before(line) = Until(last)
  BY <1>a DEF Before, Until
<1>3. Until(line) = Until(last) \cup {line} /\ line \notin Until(last)
  <2> DEFINE T == Logged \cup {EOF}
  <2>1. ~(line <= last) /\ line \in T /\ \A s \in T : s <= line <=> s <= last \/ s = line
    BY <1>a
  <2> HIDE DEF T
  <2>2. {s \in T : s <= line} = {s \in T : s <= last} \cup {line} /\ line \notin {s \in T : s <= last}
    BY <2>1
  <2> QED BY <2>2 DEF Until, T
<1>4. IsFiniteSet(Until(last))
  <2>1. Until(last) \in SUBSET Nat /\ \A s \in Until(last) : s <= last
    BY <1>1 DEF Until
  <2> QED BY <2>1, FS_BoundedSetOfNaturals
<1>5. Cardinality(Until(last) \cup {line}) = Cardinality(Until(last)) + 1
  BY <1>3, <1>4, FS_AddElement
<1> QED BY <1>2, <1>3, <1>5

\* So is a console line, each time as the next.
LEMMA LinesToldKept ==
    ASSUME WorkloadTypeOK, DirsInv, MetricsInv, PipeInv, LinesTold, WorkloadMoves
    PROVE  LinesTold'
<1>0. worker \in Workers /\ out \in Outs /\ pipe \in Pipes /\ worker.last \in Nat
  BY StepsAre DEF WorkloadTypeOK, Workers
<1>1. CASE Takes
  <2>1. worker.pc = "take" /\ worker'.pc = "scan"
    BY <1>1, TakesIs
  <2>2. ASSUME ~out'.truncated, ~pipe'.dropped
        PROVE  /\ Cardinality(Kind(out'.events, "log")) = Cardinality(Until(worker'.last))
               /\ Placed(out'.events)
    <3>0. ~pipe.dropped /\ ~out.truncated
      BY <1>1, <2>2, TakesTold
    <3>a. /\ Cardinality(Kind(out.events, "log")) = Cardinality(Until(worker.last))
          /\ Placed(out.events)
      BY <2>1, <3>0 DEF LinesTold
    <3>1. CASE out' = out /\ worker'.last = worker.last
      BY <3>a, <3>1
    <3>2. ASSUME NEW line \in Logged, NEW logged \in Outs,
                 line \in Nat, worker.last < line, worker'.last = line,
                 \A s \in Logged : worker.last < s => line <= s,
                 ~logged.truncated,
                 Added(out, logged, Event("log", line, line)),
                 Added(logged, out', Event("metric", line, line))
          PROVE  /\ Cardinality(Kind(out'.events, "log")) = Cardinality(Until(worker'.last))
                 /\ Placed(out'.events)
      <4>1. /\ Before(line) = Until(worker.last)
            /\ Cardinality(Until(line)) = Cardinality(Until(worker.last)) + 1
        BY <1>0, <3>2, NextCounts
      <4>2. /\ Placed(logged.events)
            /\ Cardinality(Kind(logged.events, "log")) = Cardinality(Kind(out.events, "log")) + 1
        BY <1>0, <3>2, <3>a, <4>1, LinePlaced
      <4>3. /\ Kind(out'.events, "log") = Kind(logged.events, "log")
            /\ Placed(out'.events)
        BY <2>2, <3>2, <4>2, LinesAside
      <4> QED BY <3>2, <3>a, <4>1, <4>2, <4>3
    <3> QED BY <1>1, <2>2, <3>1, <3>2, TakesTold
  <2> QED BY <2>1, <2>2 DEF LinesTold
<1>2. CASE Returns
  <2>0. worker.pc = "final" /\ worker'.pc = "returned" /\ worker'.last = worker.last /\ pipe' = pipe
    BY <1>2, ReturnsIs
  <2> SUFFICES ASSUME ~out'.truncated, ~pipe.dropped
               PROVE  /\ Cardinality(Kind(out'.events, "log")) = Cardinality(Until(worker.last))
                      /\ Placed(out'.events)
    BY <2>0 DEF LinesTold
  <2>1. PICK said \in Outs :
                 /\ Added(out, said, Event("checkpoint", MaxSteps, Len(hub')))
                 /\ \/ ~said.truncated /\ out' = said
                    \/ said.truncated /\ Added(said, out', Event("log", MaxSteps, EOF))
    BY <1>2, ReturnsIs
  <2>2. out' = said /\ ~said.truncated
    BY <2>1, ToldMore
  <2>3. /\ ~out.truncated /\ Kind(out'.events, "log") = Kind(out.events, "log")
        /\ Placed(out.events) => Placed(out'.events)
    BY <1>0, <2>1, <2>2, LinesAside
  <2> QED BY <2>0, <2>3 DEF LinesTold
<1>3. CASE VerifiesMarker
  <2>1. /\ worker.pc = "marker" /\ worker' = [worker EXCEPT !.pc = "inputs"] /\ pipe' = pipe
        /\ Added(out, out', Event("log", EOF, EOF))
    BY <1>3, VerifiesMarkerIs
  <2>2. worker'.last = worker.last /\ worker'.pc = "inputs" /\ worker.last = 0
    BY <1>0, <2>1 DEF Workers, PipeInv, Beginning
  <2>3. ASSUME ~out'.truncated
        PROVE  /\ Cardinality(Kind(out'.events, "log")) = Cardinality(Until(worker'.last))
               /\ Placed(out'.events)
    <3>1. ~out.truncated
      BY <1>0, <2>1, <2>3, ToldMore
    <3>2. Kind(out.events, "log") = {} /\ Placed(out.events)
      BY <2>1, <3>1 DEF LinesTold, Placed
    <3>3. Before(EOF) = {} /\ Until(0) = {EOF}
      <4>1. \A s \in Logged : s \in Nat /\ s # 0
        BY DEF Logged, Steps
      <4> QED BY <4>1 DEF Before, Until, EOF
    <3>4. Cardinality({}) = 0 /\ Cardinality({EOF}) = 1
      BY FS_EmptySet, FS_Singleton
    <3>5. /\ Placed(out'.events)
          /\ Cardinality(Kind(out'.events, "log")) = Cardinality(Kind(out.events, "log")) + 1
      BY <1>0, <2>1, <2>3, <3>2, <3>3, LinePlaced
    <3> QED BY <2>2, <3>2, <3>3, <3>4, <3>5
  <2> QED BY <2>2, <2>3 DEF LinesTold
<1>4. CASE Uploads
  <2>1. /\ worker.pc = "upload" /\ pipe' = pipe
        /\ \E s \in worker.todo :
              /\ worker'.last = worker.last /\ worker'.pc = IF worker.todo = {s} THEN "take" ELSE "upload"
              /\ Added(out, out', Event("checkpoint", s, Len(hub')))
    BY <1>4, UploadsIs
  <2>2. PICK s : /\ worker'.last = worker.last /\ worker'.pc \in {"take", "upload"}
                 /\ Added(out, out', Event("checkpoint", s, Len(hub')))
    BY <2>1
  <2>3. ASSUME ~out'.truncated
        PROVE  /\ ~out.truncated /\ Kind(out'.events, "log") = Kind(out.events, "log")
               /\ Placed(out.events) => Placed(out'.events)
    BY <1>0, <2>2, <2>3, LinesAside
  <2> QED BY <2>1, <2>2, <2>3 DEF LinesTold
<1>5. CASE ~Takes /\ ~Returns /\ ~VerifiesMarker /\ ~Uploads
  <2>1. /\ out'.events = out.events /\ worker'.last = worker.last
        /\ ~out'.truncated => ~out.truncated
        /\ ~pipe'.dropped => ~pipe.dropped
        /\ worker'.pc \in {"spec", "marker"} <=> worker.pc \in {"spec", "marker"}
    BY <1>5, QuietIs, QuietStays
  <2> QED BY <2>1 DEF LinesTold
<1> QED BY <1>1, <1>2, <1>3, <1>4, <1>5

\* Once the end of the pipe is taken, everything before it has been.
LEMMA LossToldKept ==
    ASSUME WorkloadTypeOK, DirsInv, MetricsInv, PipeInv, LossTold, WorkloadMoves
    PROVE  LossTold'
<1>0. worker \in Workers /\ out \in Outs /\ pipe \in Pipes /\ child \in Children
  BY DEF WorkloadTypeOK
<1>1. CASE Takes \/ VerifiesMarker \/ Uploads
  <2>1. worker'.pc \in {"scan", "inputs", "take", "upload"}
    BY <1>0, <1>1, TakesIs, VerifiesMarkerIs, UploadsIs DEF Workers
  <2> QED BY <2>1 DEF LossTold
<1>2. CASE Returns
  <2>0. worker.pc = "final" /\ worker'.last = worker.last /\ pipe' = pipe
    BY <1>2, ReturnsIs
  <2>1. PICK said \in Outs :
                 /\ Added(out, said, Event("checkpoint", MaxSteps, Len(hub')))
                 /\ \/ ~said.truncated /\ out' = said
                    \/ said.truncated /\ Added(said, out', Event("log", MaxSteps, EOF))
    BY <1>2, ReturnsIs
  <2>2. ASSUME ~out'.truncated PROVE ~out.truncated
    <3>1. out' = said /\ ~said.truncated
      BY <2>1, <2>2, ToldMore
    <3> QED BY <1>0, <2>1, <3>1, ToldMore
  <2> QED BY <2>0, <2>2 DEF LossTold
<1>3. CASE Completes
  <2>1. /\ worker.pc = "take" /\ call = "running" /\ ~LoopGoesOn /\ child.state = "exited"
        /\ worker' = [worker EXCEPT !.pc = "final"] /\ pipe' = pipe
        /\ out' = [out EXCEPT !.truncated = @ \/ pipe.dropped]
    BY <1>3 DEF Completes, At, Goes
  <2>2. worker'.last = worker.last /\ out'.truncated = (out.truncated \/ pipe.dropped)
    BY <1>0, <2>1 DEF Workers, Outs
  <2>3. pipe.queue = <<>> /\ pipe.reader = "dead" /\ worker.pc \in Looping
    BY <1>0, <2>1 DEF LoopGoesOn, PipeInv, Pipes, Looping
  <2>4. ASSUME ~pipe.dropped, NEW s \in Logged PROVE s <= worker.last
    <3>1. InLine(<<>>, <<>>, worker.last, MaxSteps)
      BY <2>1, <2>3, <2>4 DEF PipeInv, DirsInv
    <3>2. s \in Nat /\ s <= MaxSteps /\ worker.last \in Nat
      BY <1>0, StepsAre, WorkloadAssumption DEF Workers
    <3>3. ~ \E i \in 1..Len(<<>>) : TRUE
      BY LenProperties, EmptySeq
    <3>4. ~(worker.last < s)
      BY <3>1, <3>2, <3>3 DEF InLine
    <3> QED BY <3>2, <3>4
  <2> QED BY <2>1, <2>2, <2>4 DEF LossTold
<1>4. CASE ~Takes /\ ~Returns /\ ~VerifiesMarker /\ ~Uploads /\ ~Completes
  <2>1. /\ out' = out /\ worker'.last = worker.last
        /\ worker'.pc \in {"final", "returned"} =>
                 worker.pc \in {"final", "returned"} /\ pipe'.dropped = pipe.dropped
    BY <1>4, QuietIs, QuietStays
  <2> QED BY <2>1 DEF LossTold
<1> QED BY <1>1, <1>2, <1>3, <1>4

\* The events of a kind among the first n.
Told(events, kind, n) == {k \in Kind(events, kind) : k <= n}

\* A run shows the first n of the events, and checkpoints of the steps in over.
Tells(events, r, n, over) ==
    /\ ToSet(r.points) = {[step |-> events[k].step, of |-> events[k].of] : k \in Told(events, "metric", n)}
    /\ {c.step : c \in ToSet(r.checkpoints)}
           = {events[k].step : k \in Told(events, "checkpoint", n)} \cup over
    /\ LastNumber(r.console) = Cardinality(Told(events, "log", n))
    /\ \A line \in ToSet(r.console) :
           \E k \in Told(events, "log", n) :
               events[k].of = line.of /\ line.number = Cardinality(Told(events, "log", k))

\* Those of a kind up to the next event.
LEMMA ToldNext ==
    ASSUME NEW o \in Outs, NEW n \in Nat, n + 1 \in DOMAIN o.events, NEW kind
    PROVE  /\ Told(o.events, kind, n) \subseteq 1..n /\ IsFiniteSet(Told(o.events, kind, n))
           /\ n + 1 \notin Told(o.events, kind, n)
           /\ o.events[n + 1].kind = kind =>
                 Told(o.events, kind, n + 1) = Told(o.events, kind, n) \cup {n + 1}
           /\ o.events[n + 1].kind # kind => Told(o.events, kind, n + 1) = Told(o.events, kind, n)
<1>1. DOMAIN o.events = 1..Len(o.events) /\ Len(o.events) \in Nat
  BY DEF Outs
<1>2. Kind(o.events, kind) \subseteq 1..Len(o.events)
  BY <1>1 DEF Kind
<1>3. Told(o.events, kind, n) \subseteq 1..n
  BY <1>1, <1>2 DEF Told
<1>4. IsFiniteSet(Told(o.events, kind, n))
  <2>1. IsFiniteSet(1..n)
    BY FS_Interval
  <2> QED BY <1>3, <2>1, FS_Subset
<1>5. \A k \in Kind(o.events, kind) : k <= n + 1 <=> k <= n \/ k = n + 1
  BY <1>1, <1>2
<1>6. n + 1 \notin Told(o.events, kind, n)
  BY <1>3
<1>7. n + 1 \in Kind(o.events, kind) <=> o.events[n + 1].kind = kind
  BY DEF Kind
<1>8. n + 1 <= n + 1
  OBVIOUS
<1>9. o.events[n + 1].kind = kind =>
          Told(o.events, kind, n + 1) = Told(o.events, kind, n) \cup {n + 1}
  BY <1>5, <1>7, <1>8 DEF Told
<1>10. o.events[n + 1].kind # kind => Told(o.events, kind, n + 1) = Told(o.events, kind, n)
  BY <1>5, <1>7 DEF Told
<1> QED BY <1>3, <1>4, <1>6, <1>9, <1>10

\* A run that shows the next event too.
LEMMA TellsNext ==
    ASSUME out \in Outs, MetricsInv, NEW r, Fit(r), NEW n \in Nat, n + 1 \in DOMAIN out.events,
           NEW over, Tells(out.events, r, n, over)
    PROVE  Tells(out.events, Shown(r, n + 1), n + 1, over)
<1> DEFINE e == out.events[n + 1]
           t == Shown(r, n + 1)
<1>0. r \in Runs /\ OncePerStep(r.points) /\ Ordered(r.checkpoints) /\ Contiguous(r.console)
  BY DEF Fit
<1>1. e \in Events /\ e.step \in Nat /\ e.of \in Nat
  BY EventsAre
<1>a. e.kind \in {"metric", "checkpoint", "log"}
  BY <1>1 DEF Events
<1>2. CASE e.kind = "metric"
  <2>1. t = AppendMetric(r, e.step, e.of)
    BY <1>2 DEF Shown
  <2> DEFINE step == e.step
             of == e.of
  <2>2. step \in Nat /\ of \in Nat
    BY <1>1
  <2>3. t = AppendMetric(r, step, of)
    BY <2>1
  <2>4. \A k \in Told(out.events, "metric", n) : out.events[k].step # step
    <3>1. n + 1 \in Kind(out.events, "metric")
      BY <1>2 DEF Kind
    <3>2. ASSUME NEW k \in Told(out.events, "metric", n) PROVE out.events[k].step # step
      <4>1. k \in Kind(out.events, "metric") /\ k \in 1..n
        BY ToldNext DEF Told
      <4>2. k < n + 1
        BY <4>1
      <4>3. out.events[k].step < out.events[n + 1].step
        BY <3>1, <4>1, <4>2 DEF MetricsInv
      <4>4. out.events[k].step \in Nat
        BY <4>1, EventsAre DEF Kind
      <4> QED BY <2>2, <4>3, <4>4
    <3> QED BY <3>2
  <2> HIDE DEF t, step, of
  <2>5. /\ ToSet(t.points) = {p \in ToSet(r.points) : p.step # step} \cup {[step |-> step, of |-> of]}
        /\ t.checkpoints = r.checkpoints /\ t.console = r.console
    <3>1. /\ ToSet(AppendMetric(r, step, of).points)
                = {p \in ToSet(r.points) : p.step # step} \cup {[step |-> step, of |-> of]}
          /\ AppendMetric(r, step, of).checkpoints = r.checkpoints
          /\ AppendMetric(r, step, of).console = r.console
      BY <1>0, <2>2, MetricAppended, Zenon
    <3> QED BY <2>3, <3>1
  <2>6. ToSet(r.points) = {[step |-> out.events[k].step, of |-> out.events[k].of] :
                               k \in Told(out.events, "metric", n)}
    BY DEF Tells
  <2>7. {p \in ToSet(r.points) : p.step # step} = ToSet(r.points)
    BY <2>4, <2>6
  <2>8. /\ Told(out.events, "metric", n + 1) = Told(out.events, "metric", n) \cup {n + 1}
        /\ Told(out.events, "checkpoint", n + 1) = Told(out.events, "checkpoint", n)
        /\ Told(out.events, "log", n + 1) = Told(out.events, "log", n)
    BY <1>2, ToldNext
  <2>9. ToSet(t.points) = {[step |-> out.events[k].step, of |-> out.events[k].of] :
                               k \in Told(out.events, "metric", n + 1)}
    BY <2>5, <2>6, <2>7, <2>8 DEF step, of
  <2>10. Tells(out.events, t, n + 1, over)
    BY <2>5, <2>8, <2>9 DEF Tells
  <2> QED BY <2>10 DEF t
<1>3. CASE e.kind = "checkpoint"
  <2>1. t = AppendCheckpoint(r, e.step, e.of)
    BY <1>3 DEF Shown
  <2> DEFINE step == e.step
             of == e.of
  <2>2. step \in Nat /\ of \in Nat
    BY <1>1
  <2>3. t = AppendCheckpoint(r, step, of)
    BY <2>1
  <2> HIDE DEF t, step, of
  <2>5. /\ ToSet(t.checkpoints) = ToSet(r.checkpoints) \cup {[step |-> step, of |-> of]}
        /\ t.points = r.points /\ t.console = r.console
    <3>1. /\ ToSet(AppendCheckpoint(r, step, of).checkpoints)
                = ToSet(r.checkpoints) \cup {[step |-> step, of |-> of]}
          /\ AppendCheckpoint(r, step, of).points = r.points
          /\ AppendCheckpoint(r, step, of).console = r.console
      BY <1>0, <2>2, CheckpointAppended, Zenon
    <3> QED BY <2>3, <3>1
  <2>6. {c.step : c \in ToSet(r.checkpoints)}
            = {out.events[k].step : k \in Told(out.events, "checkpoint", n)} \cup over
    BY DEF Tells
  <2>8. /\ Told(out.events, "checkpoint", n + 1) = Told(out.events, "checkpoint", n) \cup {n + 1}
        /\ Told(out.events, "metric", n + 1) = Told(out.events, "metric", n)
        /\ Told(out.events, "log", n + 1) = Told(out.events, "log", n)
    BY <1>3, ToldNext
  <2>7. {c.step : c \in ToSet(t.checkpoints)} = {c.step : c \in ToSet(r.checkpoints)} \cup {step}
    <3>1. [step |-> step, of |-> of].step = step
      OBVIOUS
    <3> DEFINE new == [step |-> step, of |-> of]
    <3>2. new.step = step /\ ToSet(t.checkpoints) = ToSet(r.checkpoints) \cup {new}
      BY <2>5, <3>1
    <3> HIDE DEF new
    <3> QED BY <3>2
  <2>9. {c.step : c \in ToSet(t.checkpoints)}
            = {out.events[k].step : k \in Told(out.events, "checkpoint", n + 1)} \cup over
    BY <2>6, <2>7, <2>8 DEF step
  <2>10. Tells(out.events, t, n + 1, over)
    BY <2>5, <2>8, <2>9 DEF Tells
  <2> QED BY <2>10 DEF t
<1>4. CASE e.kind = "log"
  <2>1. t = AppendConsole(r, e.of)
    BY <1>4 DEF Shown
  <2> DEFINE of == e.of
             number == LastNumber(r.console) + 1
  <2>2. of \in Nat
    BY <1>1
  <2>3. t = AppendConsole(r, of)
    BY <2>1
  <2> HIDE DEF t, of
  <2>5. /\ LastNumber(t.console) = number
        /\ ToSet(t.console) \subseteq ToSet(r.console) \cup {[number |-> number, of |-> of]}
        /\ t.points = r.points /\ t.checkpoints = r.checkpoints
    <3>1. /\ LastNumber(AppendConsole(r, of).console) = LastNumber(r.console) + 1
          /\ ToSet(AppendConsole(r, of).console) \subseteq ToSet(r.console)
                  \cup {[number |-> LastNumber(r.console) + 1, of |-> of]}
          /\ AppendConsole(r, of).points = r.points
          /\ AppendConsole(r, of).checkpoints = r.checkpoints
      BY <1>0, <2>2, LineAppended, Zenon
    <3> QED BY <2>3, <3>1
  <2>8. /\ Told(out.events, "log", n + 1) = Told(out.events, "log", n) \cup {n + 1}
        /\ n + 1 \notin Told(out.events, "log", n) /\ IsFiniteSet(Told(out.events, "log", n))
        /\ Told(out.events, "metric", n + 1) = Told(out.events, "metric", n)
        /\ Told(out.events, "checkpoint", n + 1) = Told(out.events, "checkpoint", n)
    BY <1>4, ToldNext
  <2>9. Cardinality(Told(out.events, "log", n + 1)) = Cardinality(Told(out.events, "log", n)) + 1
    BY <2>8, FS_AddElement
  <2>10. number = Cardinality(Told(out.events, "log", n + 1))
    BY <2>9 DEF Tells
  <2>11. ASSUME NEW line \in ToSet(t.console)
         PROVE  \E k \in Told(out.events, "log", n + 1) :
                    out.events[k].of = line.of /\ line.number = Cardinality(Told(out.events, "log", k))
    <3>1. CASE line \in ToSet(r.console)
      <4>1. PICK k \in Told(out.events, "log", n) :
                    out.events[k].of = line.of /\ line.number = Cardinality(Told(out.events, "log", k))
        BY <3>1 DEF Tells
      <4> QED BY <2>8, <4>1
    <3>2. CASE line = [number |-> number, of |-> of]
      <4>1. n + 1 \in Told(out.events, "log", n + 1) /\ out.events[n + 1].of = of
        BY <2>8 DEF of
      <4>2. line.of = of /\ line.number = Cardinality(Told(out.events, "log", n + 1))
        BY <2>10, <3>2
      <4> QED BY <4>1, <4>2
    <3> QED BY <2>5, <3>1, <3>2
  <2>12. Tells(out.events, t, n + 1, over)
    BY <2>5, <2>8, <2>10, <2>11 DEF Tells
  <2> QED BY <2>12 DEF t
<1> QED BY <1>a, <1>2, <1>3, <1>4

\* Those after the cursor, with none missing before the last of them, are all up to it.
LEMMA NoneMissing ==
    ASSUME NEW L \in Nat, NEW cursor \in Nat, NEW events \in SUBSET (1..L), events # {},
           \A n \in events : n > cursor,
           \A n \in events : n - 1 = cursor \/ n - 1 \in events
    PROVE  /\ Max(events) \in events /\ \A n \in events : n <= Max(events)
           /\ \A n \in Nat : n > cursor /\ n <= Max(events) => n \in events
<1>1. Max(events) \in events /\ \A n \in events : n <= Max(events)
  <2>1. events \in SUBSET (0..L)
    OBVIOUS
  <2> QED BY <2>1, GreatestOf
<1> DEFINE top == Max(events)
           missing == {n \in 0..L : n > cursor /\ n <= top /\ n \notin events}
<1> HIDE DEF top
<1>2. top \in 1..L /\ top \in events
  BY <1>1 DEF top
<1>3. missing = {}
  <2> SUFFICES ASSUME missing # {} PROVE FALSE
    OBVIOUS
  <2> DEFINE m == Max(missing)
  <2>1. m \in missing /\ \A n \in missing : n <= m
    <3>1. missing \in SUBSET (0..L)
      OBVIOUS
    <3> HIDE DEF missing
    <3> QED BY <3>1, GreatestOf
  <2> HIDE DEF m
  <2>2. m \in 0..L /\ m > cursor /\ m <= top /\ m \notin events
    BY <2>1
  <2>3. m + 1 <= top /\ m + 1 \in 0..L /\ m + 1 > cursor
    BY <1>2, <2>2
  <2>4. m + 1 \in events
    <3>1. m + 1 \notin missing
      BY <2>1, <2>2
    <3> QED BY <2>3, <3>1
  <2>5. m + 1 - 1 = m /\ m # cursor
    BY <2>2
  <2> QED BY <2>2, <2>4, <2>5
<1>4. \A n \in Nat : n > cursor /\ n <= top => n \in events
  BY <1>2, <1>3
<1> QED BY <1>1, <1>4 DEF top

\* A page with no gap takes a run from the cursor to its last event.
LEMMA TellsPage ==
    ASSUME out \in Outs, MetricsInv, NEW r, Fit(r), NEW cursor \in Nat,
           NEW events \in SUBSET (DOMAIN out.events), events # {},
           \A n \in events : n > cursor,
           \A n \in events : n - 1 = cursor \/ n - 1 \in events,
           NEW over, Tells(out.events, r, cursor, over)
    PROVE  Tells(out.events, ShownUpTo(r, events)[Len(out.events)], Max(events), over)
<1> DEFINE L == Len(out.events)
           f == ShownUpTo(r, events)
           top == Max(events)
           Far(n) == IF n <= cursor THEN cursor ELSE IF n <= top THEN n ELSE top
           T == {n \in Nat : Tells(out.events, f[n], Far(n), over)}
<1>1. L \in Nat /\ DOMAIN out.events = 1..L
  BY DEF Outs
<1>2. f[0] = r /\ \A n \in 1..L : f[n] = IF n \in events THEN Shown(f[n - 1], n) ELSE f[n - 1]
  BY <1>1, ShownUpToIs
<1>3. \A n \in 0..L : Fit(f[n])
  BY ShownUpToFits
<1> HIDE DEF f
<1>4. /\ top \in events /\ \A n \in events : n <= top
      /\ \A n \in Nat : n > cursor /\ n <= top => n \in events
  BY <1>1, NoneMissing
<1> HIDE DEF top
<1>5. top \in 1..L /\ top > cursor
  BY <1>1, <1>4
<1>6. 0 \in T
  BY <1>2
<1>7. ASSUME NEW n \in 0..(L - 1), n \in T PROVE n + 1 \in T
  <2>1. n + 1 \in 1..L /\ n + 1 - 1 = n /\ n \in 0..L /\ n \in Nat /\ n + 1 \in Nat
    BY <1>1
  <2>2. Tells(out.events, f[n], Far(n), over)
    BY <1>7
  <2>3. CASE n + 1 \in events
    <3>1. n + 1 > cursor /\ n + 1 <= top
      BY <1>4, <2>3
    <3>2. Far(n) = n /\ Far(n + 1) = n + 1
      BY <1>5, <2>1, <3>1
    <3>3. f[n + 1] = Shown(f[n], n + 1)
      BY <1>2, <2>1, <2>3
    <3>4. Tells(out.events, Shown(f[n], n + 1), n + 1, over)
      <4>1. Fit(f[n]) /\ n + 1 \in DOMAIN out.events /\ Tells(out.events, f[n], n, over)
        BY <1>1, <1>3, <2>1, <2>2, <3>2
      <4> HIDE DEF L
      <4> QED BY <2>1, <4>1, TellsNext
    <3> QED BY <2>1, <3>2, <3>3, <3>4
  <2>4. CASE n + 1 \notin events
    <3>1. n + 1 <= cursor \/ n + 1 > top
      BY <1>4, <1>5, <2>1, <2>4
    <3>2. Far(n + 1) = Far(n)
      BY <1>5, <2>1, <3>1
    <3>3. f[n + 1] = f[n]
      BY <1>2, <2>1, <2>4
    <3> QED BY <2>1, <2>2, <3>2, <3>3
  <2> QED BY <2>3, <2>4
<1>8. \A n \in 0..L : n \in T
  <2> HIDE DEF T, L
  <2> QED BY <1>1, <1>6, <1>7, UpTo
<1>9. L \in 0..L /\ Far(L) = top
  BY <1>1, <1>5
<1>10. Tells(out.events, f[L], top, over)
  BY <1>8, <1>9
<1> QED BY <1>10 DEF f, top

\* The checkpoint of the output, once it is stored.
Stored(output) == IF output # 0 THEN {MaxSteps} ELSE {}

\* A poll read after a cursor: nothing missing before any of its events that it does not
\* tell of, and nothing after it once the call has succeeded.
Follows(p, cursor, o) ==
    /\ \A n \in p.events : n > cursor
    /\ ~p.gap => \A n \in p.events : n - 1 = cursor \/ n - 1 \in p.events
    /\ ~p.more => p.highest = cursor \/ p.highest \in p.events
    /\ p.state = "succeeded" /\ ~p.gap => ~o.truncated /\ Len(o.events) <= p.highest

\* Every event there is has been taken.
CaughtUp(o, cursor) == ~o.truncated /\ cursor = Len(o.events)

\* With no gap told, the run shows what the events up to the cursor say, and that is
\* everything once the job has succeeded.
CursorInv ==
    /\ ~managed => record.outcome = "pending"
    /\ managed =>
        /\ record.cursor <= Len(out.events)
        /\ ~record.gap => Tells(out.events, run, record.cursor, Stored(record.output))
        /\ page # NoPage /\ page.stage \in {"tailed", "polled"} => Follows(page, record.cursor, out)
        /\ page # NoPage /\ page.stage \in {"persisted", "stored"} /\ ~page.more
              /\ page.state = "succeeded" /\ ~record.gap => CaughtUp(out, record.cursor)
        /\ page # NoPage /\ page.stage = "stored" => ~page.more
        /\ record.outcome = "succeeded" /\ ~record.gap => CaughtUp(out, record.cursor)

\* What has been told stays told.
LEMMA TellsStays ==
    ASSUME NEW o \in Outs, NEW q \in Outs, Extends(o.events, q.events), NEW r,
           NEW n \in Nat, n <= Len(o.events), NEW over
    PROVE  Tells(o.events, r, n, over) <=> Tells(q.events, r, n, over)
<1>1. /\ DOMAIN o.events = 1..Len(o.events) /\ Len(o.events) \in Nat
      /\ DOMAIN q.events = 1..Len(q.events) /\ Len(q.events) \in Nat
  BY DEF Outs
<1>2. ASSUME NEW k \in 1..n PROVE k \in DOMAIN o.events /\ k \in DOMAIN q.events
                                  /\ q.events[k] = o.events[k]
  BY <1>1 DEF Extends
<1>3. ASSUME NEW m \in 0..n, NEW kind
      PROVE  Told(o.events, kind, m) = Told(q.events, kind, m) /\ Told(o.events, kind, m) \subseteq 1..n
  <2>1. \A k \in DOMAIN o.events : k <= m => k \in 1..n
    BY <1>1
  <2>2. \A k \in DOMAIN q.events : k <= m => k \in 1..n
    BY <1>1
  <2> QED BY <1>2, <2>1, <2>2 DEF Told, Kind
<1>4. n \in 0..n
  OBVIOUS
<1>5. /\ Told(o.events, "metric", n) = Told(q.events, "metric", n)
      /\ Told(o.events, "checkpoint", n) = Told(q.events, "checkpoint", n)
      /\ Told(o.events, "log", n) = Told(q.events, "log", n)
      /\ \A k \in 1..n : Told(o.events, "log", k) = Told(q.events, "log", k)
  <2>1. \A k \in 1..n : k \in 0..n
    OBVIOUS
  <2> QED BY <1>3, <1>4, <2>1
<1>6. /\ \A k \in Told(o.events, "metric", n) : q.events[k] = o.events[k]
      /\ \A k \in Told(o.events, "checkpoint", n) : q.events[k] = o.events[k]
      /\ \A k \in Told(o.events, "log", n) : q.events[k] = o.events[k] /\ k \in 1..n
  BY <1>2, <1>3, <1>4
<1>7. {[step |-> o.events[k].step, of |-> o.events[k].of] : k \in Told(o.events, "metric", n)}
        = {[step |-> q.events[k].step, of |-> q.events[k].of] : k \in Told(q.events, "metric", n)}
  BY <1>5, <1>6
<1>8. {o.events[k].step : k \in Told(o.events, "checkpoint", n)}
        = {q.events[k].step : k \in Told(q.events, "checkpoint", n)}
  BY <1>5, <1>6
<1>9. ASSUME NEW line
      PROVE  (\E k \in Told(o.events, "log", n) :
                  o.events[k].of = line.of /\ line.number = Cardinality(Told(o.events, "log", k)))
             <=> (\E k \in Told(q.events, "log", n) :
                  q.events[k].of = line.of /\ line.number = Cardinality(Told(q.events, "log", k)))
  BY <1>5, <1>6
<1> QED BY <1>5, <1>7, <1>8, <1>9 DEF Tells

\* A page is read after the cursor.
LEMMA PageFollows ==
    ASSUME out \in Outs, record.cursor \in Nat, NEW shown \in SUBSET (DOMAIN out.events), NEW cut
    PROVE  Follows(Page(shown, cut), record.cursor, out)
<1> DEFINE new == {n \in shown : n > record.cursor}
           Earlier(n) == {m \in new : m < n}
           events == {n \in new : Cardinality(Earlier(n)) < PageLimit}
           p == Page(shown, cut)
           L == Len(out.events)
<1>1. DOMAIN out.events = 1..L /\ L \in Nat
  BY DEF Outs
<1>2. /\ p.events = events /\ p.more = (events # new) /\ p.state = "unknown"
      /\ p.gap = (cut \/ \E n \in new : n - 1 # record.cursor /\ n - 1 \notin new)
      /\ p.highest = IF shown = {} THEN record.cursor ELSE Later(record.cursor, Max(shown))
  BY DEF Page
<1>3. \A n \in new : n \in 1..L
  BY <1>1
<1>a. PageLimit \in Nat
  BY EventsAssumption
<1>4. ASSUME NEW n \in events, n - 1 \in new PROVE n - 1 \in events
  <2>1. n \in 1..L /\ \A m \in new : m \in 1..L
    BY <1>3
  <2>2. Earlier(n - 1) \subseteq Earlier(n)
    <3>1. \A m \in new : m < n - 1 => m < n
      BY <2>1
    <3> HIDE DEF new
    <3> QED BY <3>1
  <2>3. IsFiniteSet(Earlier(n))
    <3>1. Earlier(n) \subseteq 1..L /\ IsFiniteSet(1..L)
      BY <1>1, <2>1, FS_Interval
    <3> QED BY <3>1, FS_Subset
  <2>4. /\ Cardinality(Earlier(n - 1)) <= Cardinality(Earlier(n))
        /\ Cardinality(Earlier(n)) \in Nat /\ Cardinality(Earlier(n - 1)) \in Nat
    <3> HIDE DEF Earlier
    <3> QED BY <2>2, <2>3, FS_Subset, FS_CardinalityType
  <2>5. Cardinality(Earlier(n)) < PageLimit
    OBVIOUS
  <2>6. Cardinality(Earlier(n - 1)) < PageLimit
    <3> HIDE DEF Earlier
    <3> QED BY <1>a, <2>4, <2>5
  <2> QED BY <1>4, <2>6
<1>5. \A n \in events : n \in new /\ n > record.cursor
  OBVIOUS
<1>6. ASSUME ~p.gap, NEW n \in events PROVE n - 1 = record.cursor \/ n - 1 \in events
  <2>1. n - 1 = record.cursor \/ n - 1 \in new
    BY <1>2, <1>5, <1>6
  <2> QED BY <1>4, <2>1
<1>7. ASSUME ~p.more PROVE p.highest = record.cursor \/ p.highest \in events
  <2>1. events = new
    BY <1>2, <1>7
  <2>2. CASE shown = {}
    BY <1>2, <2>2
  <2>3. CASE shown # {}
    <3> DEFINE top == Max(shown)
    <3>1. top \in shown
      <4>1. shown \in SUBSET (0..L)
        BY <1>1
      <4> QED BY <1>1, <2>3, <4>1, GreatestOf
    <3> HIDE DEF top
    <3>2. top \in Nat
      BY <1>1, <3>1
    <3>3. p.highest = Later(record.cursor, top)
      BY <1>2, <2>3 DEF top
    <3>4. CASE top > record.cursor
      <4>1. top \in new /\ p.highest = top
        BY <3>1, <3>2, <3>3, <3>4 DEF Later
      <4> QED BY <2>1, <4>1
    <3>5. CASE ~(top > record.cursor)
      <4>1. p.highest = record.cursor
        BY <3>2, <3>3, <3>5 DEF Later
      <4> QED BY <4>1
    <3> QED BY <3>4, <3>5
  <2> QED BY <2>2, <2>3
<1> HIDE DEF p, events
<1>8. /\ \A n \in p.events : n > record.cursor
      /\ ~p.gap => \A n \in p.events : n - 1 = record.cursor \/ n - 1 \in p.events
      /\ ~p.more => p.highest = record.cursor \/ p.highest \in p.events
      /\ p.state = "unknown"
  BY <1>2, <1>5, <1>6, <1>7 DEF events
<1> QED BY <1>8 DEF Follows, p

\* Nothing to show changes nothing.
LEMMA NothingShown ==
    ASSUME out \in Outs, NEW r
    PROVE  ShownUpTo(r, {})[Len(out.events)] = r
<1> DEFINE L == Len(out.events)
           f == ShownUpTo(r, {})
           T == {n \in Nat : f[n] = r}
<1>1. L \in Nat
  BY DEF Outs
<1>2. f[0] = r /\ \A n \in 1..L : f[n] = f[n - 1]
  BY <1>1, ShownUpToIs
<1> HIDE DEF f
<1>3. 0 \in T
  BY <1>2
<1>4. ASSUME NEW n \in 0..(L - 1), n \in T PROVE n + 1 \in T
  <2>1. n + 1 \in 1..L /\ n + 1 - 1 = n /\ n + 1 \in Nat
    BY <1>1
  <2> QED BY <1>2, <1>4, <2>1
<1>5. \A n \in 0..L : n \in T
  <2> HIDE DEF T, L
  <2> QED BY <1>1, <1>3, <1>4, UpTo
<1>6. L \in 0..L
  BY <1>1
<1> QED BY <1>5, <1>6 DEF f

\* A page stored takes the cursor to its last event.
LEMMA PagePersisted ==
    ASSUME EventsBase, MetricsInv, managed, page # NoPage, Persisted(page),
           record.cursor <= Len(out.events), Follows(page, record.cursor, out),
           ~record.gap => Tells(out.events, run, record.cursor, Stored(record.output))
    PROVE  /\ record'.output = record.output /\ record'.outcome = record.outcome
           /\ record'.gap = (record.gap \/ page.gap)
           /\ record'.cursor \in Nat /\ record'.cursor <= Len(out.events)
           /\ ~record'.gap => Tells(out.events, run', record'.cursor, Stored(record.output))
           /\ page.state = "succeeded" /\ ~page.more /\ ~record'.gap => CaughtUp(out, record'.cursor)
<1> DEFINE L == Len(out.events)
           events == page.events
           cursor == record.cursor
           top == Max(events)
<1>0. /\ out \in Outs /\ Fit(run) /\ page \in Pages /\ events \subseteq DOMAIN out.events
      /\ record \in [cursor : Nat, gap : BOOLEAN, outcome : States, output : Nat]
      /\ DOMAIN out.events = 1..L /\ L \in Nat
  BY DEF EventsBase, EventsTypeOK, WorkloadTypeOK, Outs
<1>1. /\ record'.output = record.output /\ record'.outcome = record.outcome
      /\ record'.gap = (record.gap \/ page.gap)
      /\ record'.cursor = IF events = {} THEN cursor ELSE Later(cursor, top)
      /\ run' = ShownUpTo(run, events)[L]
  BY <1>0 DEF Persisted
<1>2. /\ \A n \in events : n > cursor
      /\ ~page.gap => \A n \in events : n - 1 = cursor \/ n - 1 \in events
      /\ ~page.more => page.highest = cursor \/ page.highest \in events
      /\ page.state = "succeeded" /\ ~page.gap => ~out.truncated /\ L <= page.highest
  BY DEF Follows
<1>3. CASE events = {}
  <2>1. record'.cursor = cursor
    BY <1>1, <1>3
  <2>2. run' = run
    BY <1>0, <1>1, <1>3, NothingShown
  <2>3. ~record'.gap => ~record.gap /\ ~page.gap
    BY <1>0, <1>1
  <2>4. page.state = "succeeded" /\ ~page.more /\ ~record'.gap => CaughtUp(out, record'.cursor)
    BY <1>0, <1>2, <1>3, <2>1, <2>3 DEF CaughtUp
  <2> QED BY <1>0, <1>1, <2>1, <2>2, <2>3, <2>4
<1>4. CASE events # {}
  <2>1. top \in events /\ \A n \in events : n <= top
    <3>1. events \in SUBSET (0..L)
      BY <1>0
    <3> QED BY <1>0, <1>4, <3>1, GreatestOf
  <2>2. \A n \in events : n \in 1..L
    BY <1>0
  <2> HIDE DEF top
  <2>3. record'.cursor = top
    BY <1>0, <1>1, <1>2, <1>4, <2>1, <2>2 DEF Later
  <2>4. ~record'.gap => ~record.gap /\ ~page.gap
    BY <1>0, <1>1
  <2>5. ASSUME ~record'.gap PROVE Tells(out.events, run', top, Stored(record.output))
    <3> HIDE DEF events, cursor
    <3>1. events \in SUBSET (DOMAIN out.events) /\ cursor \in Nat
      BY <1>0 DEF cursor
    <3>2. \A n \in events : n - 1 = cursor \/ n - 1 \in events
      BY <1>2, <2>4, <2>5
    <3>3. Tells(out.events, run, cursor, Stored(record.output))
      BY <2>4, <2>5 DEF cursor
    <3>4. Tells(out.events, ShownUpTo(run, events)[Len(out.events)], Max(events), Stored(record.output))
      BY <1>0, <1>2, <1>4, <3>1, <3>2, <3>3, TellsPage
    <3> QED BY <1>1, <3>4 DEF top
  <2>6. ASSUME page.state = "succeeded", ~page.more, ~record'.gap PROVE CaughtUp(out, top)
    <3>1. ~out.truncated /\ L <= page.highest
      BY <1>2, <2>4, <2>6
    <3>2. page.highest = cursor \/ page.highest \in events
      BY <1>2, <2>6
    <3>3. page.highest <= top /\ page.highest \in Nat
      BY <1>0, <1>2, <2>1, <2>2, <3>2
    <3>4. top = L
      BY <1>0, <2>1, <2>2, <3>1, <3>3
    <3> QED BY <3>1, <3>4 DEF CaughtUp
  <2> QED BY <1>0, <1>1, <2>1, <2>2, <2>3, <2>5, <2>6
<1> QED BY <1>3, <1>4

\* No step of the monitor, however often it starts again, loses or repeats an event untold.
LEMMA CursorKept ==
    ASSUME EventsBase, EventsBase', MetricsInv, HubInv, OutputInv, CursorInv, EventsNext
    PROVE  CursorInv'
<1>0. /\ out \in Outs /\ out' \in Outs /\ hub \in Seq(Commits) /\ Len(hub) \in Nat /\ Fit(run)
      /\ record \in [cursor : Nat, gap : BOOLEAN, outcome : States, output : Nat]
      /\ page # NoPage => page \in Pages
      /\ ~managed => page = NoPage
      /\ Len(out.events) \in Nat /\ Len(out'.events) \in Nat
  BY DEF EventsBase, EventsTypeOK, WorkloadTypeOK, Apart, Outs
<1>a. NoPage.stage = "none"
  BY DEF NoPage
<1>1. managed' = managed
  BY DEF EventsNext, Works, Tails, AsksCall, Ingests, StoresResult, Concludes, Cancels, Expires,
         Restarts, CallStops, Sends, TimesOut, Handles, BeginsReading, GoesOnReading, TurnsPage
<1>2. CASE ~managed
  <2>1. record' = record
    BY <1>0, <1>2, <1>a DEF EventsNext, Works, Tails, AsksCall, Ingests, StoresResult, Concludes,
         Cancels, Expires, Restarts, CallStops, Sends, TimesOut, Handles, BeginsReading,
         GoesOnReading, TurnsPage, monitor
  <2> QED BY <1>1, <1>2, <2>1 DEF CursorInv
<1> SUFFICES ASSUME managed PROVE CursorInv'
  BY <1>2
<1>b. /\ record.cursor <= Len(out.events)
      /\ ~record.gap => Tells(out.events, run, record.cursor, Stored(record.output))
      /\ page # NoPage /\ page.stage \in {"tailed", "polled"} => Follows(page, record.cursor, out)
      /\ page # NoPage /\ page.stage \in {"persisted", "stored"} /\ ~page.more
            /\ page.state = "succeeded" /\ ~record.gap => CaughtUp(out, record.cursor)
      /\ page # NoPage /\ page.stage = "stored" => ~page.more
      /\ record.outcome = "succeeded" /\ ~record.gap => CaughtUp(out, record.cursor)
  BY DEF CursorInv
<1>c. workload' = workload => out' = out
  BY DEF workload
\* What a step that leaves the run, the record and the events alone has to show.
<1>d. ASSUME UNCHANGED <<run, record>>, out' = out,
             page' # NoPage /\ page'.stage \in {"tailed", "polled"} => Follows(page', record.cursor, out),
             page' # NoPage => page'.stage \notin {"persisted", "stored"}
      PROVE  CursorInv'
  BY <1>1, <1>b, <1>d DEF CursorInv
<1>e. ASSUME UNCHANGED <<run, record, page>>, out' = out
      PROVE  CursorInv'
  BY <1>1, <1>b, <1>e DEF CursorInv
<1>3. CASE Works \/ CallStops
  <2>1. UNCHANGED <<run, record, page>> /\ WorkloadMoves
    BY <1>3 DEF Works, CallStops, monitor, WorkloadMoves
  <2>2. Extends(out.events, out'.events)
    BY <1>3, NothingTakenBack DEF Works, CallStops, EventsBase, EventsTypeOK, WorkloadTypeOK
  <2>3. call = "succeeded" => out' = out
    <3>1. CASE Works
      BY <3>1 DEF HubInv, Works, Workload, Trains, Saves, Exits, Reads, DeadlinePasses, Begins, Aborts,
                  Fetches, Seals, StartsChild, Scans, VerifiesMarker, Takes, Uploads, UploadsInVain,
                  Completes, Returns, At
    <3>2. CASE CallStops
      BY <3>2 DEF CallStops
    <3> QED BY <1>3, <3>1, <3>2
  <2>4. CASE out' = out
    BY <1>e, <2>1, <2>4
  <2>5. CASE call # "succeeded"
    <3>1. /\ page # NoPage => page.state # "succeeded"
          /\ record.outcome # "succeeded"
      BY <2>5 DEF OutputInv
    <3>2. Len(out.events) <= Len(out'.events)
      BY <2>2 DEF Extends
    <3>3. record.cursor <= Len(out'.events) /\ record.cursor \in Nat
      BY <1>0, <1>b, <3>2
    <3>4. ~record.gap => Tells(out'.events, run, record.cursor, Stored(record.output))
      BY <1>0, <1>b, <2>2, <3>3, TellsStays
    <3>5. page # NoPage /\ page.stage \in {"tailed", "polled"} => Follows(page, record.cursor, out')
      BY <1>b, <3>1 DEF Follows
    <3> QED BY <1>1, <1>b, <2>1, <3>1, <3>3, <3>4, <3>5 DEF CursorInv
  <2> QED BY <2>3, <2>4, <2>5
<1>4. CASE Tails
  <2>1. PICK shown \in SUBSET (DOMAIN out.events), cut \in BOOLEAN : page' = Page(shown, cut)
    BY <1>4 DEF Tails
  <2>2. page'.stage = "tailed"
    BY <2>1 DEF Page
  <2>3. UNCHANGED <<workload, run, record>>
    BY <1>4 DEF Tails
  <2>4. Follows(page', record.cursor, out)
    BY <1>0, <2>1, PageFollows
  <2> QED BY <1>c, <1>d, <2>2, <2>3, <2>4
<1>5. CASE AsksCall
  <2>1. UNCHANGED <<workload, run, record>> /\ page.stage = "tailed"
    BY <1>5 DEF AsksCall
  <2>2. page \in Pages /\ page # NoPage /\ Follows(page, record.cursor, out)
    BY <1>0, <1>a, <1>b, <2>1
  <2>3. CASE page' = NoPage
    BY <1>c, <1>d, <2>1, <2>3
  <2>4. CASE \/ page' = [page EXCEPT !.stage = "polled"]
             \/ call # "succeeded" /\ page' = [page EXCEPT !.stage = "polled", !.state = call]
    <3>1. /\ page'.events = page.events /\ page'.gap = page.gap /\ page'.more = page.more
          /\ page'.highest = page.highest /\ page'.stage = "polled"
          /\ page'.state = "succeeded" => page.state = "succeeded"
      BY <2>2, <2>4 DEF Pages
    <3>2. Follows(page', record.cursor, out)
      BY <2>2, <3>1 DEF Follows
    <3> QED BY <1>c, <1>d, <2>1, <3>1, <3>2
  <2>5. CASE page' = [WithResult(page) EXCEPT !.stage = "polled"]
    <3>1. /\ page'.events = page.events /\ page'.more = page.more
          /\ page'.gap = (page.gap \/ out.truncated \/ Len(out.events) > page.highest)
          /\ page'.highest = page.highest /\ page'.stage = "polled"
      BY <2>2, <2>5 DEF Pages, WithResult
    <3>2. page.highest \in Nat
      BY <2>2 DEF Pages
    <3>3. ~page'.gap => ~page.gap /\ ~out.truncated /\ Len(out.events) <= page'.highest
      <4>1. Len(out.events) > page.highest \/ Len(out.events) <= page.highest
        BY <1>0, <3>2
      <4>2. ~page'.gap => ~page.gap /\ ~out.truncated /\ ~(Len(out.events) > page.highest)
        BY <3>1, Zenon
      <4> QED BY <3>1, <4>1, <4>2
    <3>4. Follows(page', record.cursor, out)
      BY <2>2, <3>1, <3>3 DEF Follows
    <3> QED BY <1>c, <1>d, <2>1, <3>1, <3>4
  <2> QED BY <1>5, <2>3, <2>4, <2>5 DEF AsksCall
<1>6. CASE Ingests
  <2>1. UNCHANGED workload /\ page.stage = "polled"
    BY <1>6 DEF Ingests
  <2>2. page \in Pages /\ page # NoPage /\ Follows(page, record.cursor, out)
    BY <1>0, <1>a, <1>b, <2>1
  <2>3. CASE Persisted(page) /\ page' = [page EXCEPT !.stage = "persisted"]
    <3>1. /\ record'.output = record.output /\ record'.outcome = record.outcome
          /\ record'.gap = (record.gap \/ page.gap)
          /\ record'.cursor \in Nat /\ record'.cursor <= Len(out.events)
          /\ ~record'.gap => Tells(out.events, run', record'.cursor, Stored(record.output))
          /\ page.state = "succeeded" /\ ~page.more /\ ~record'.gap => CaughtUp(out, record'.cursor)
      BY <1>b, <2>2, <2>3, PagePersisted
    <3>2. page'.state = page.state /\ page'.more = page.more /\ page'.stage = "persisted"
      BY <2>2, <2>3 DEF Pages
    <3>3. record'.outcome # "succeeded"
      BY <2>2, <3>1 DEF OutputInv
    <3> QED BY <1>1, <1>c, <2>1, <3>1, <3>2, <3>3 DEF CursorInv
  <2>4. CASE page' = NoPage /\ UNCHANGED <<run, record>>
    BY <1>c, <1>d, <2>1, <2>4
  <2>5. CASE page' = NoPage /\ record' = [record EXCEPT !.outcome = FirstOutcome("failed")] /\ UNCHANGED run
    <3>1. /\ record'.output = record.output /\ record'.cursor = record.cursor
          /\ record'.gap = record.gap /\ record'.outcome # "succeeded"
      BY <1>0, <2>2, <2>5 DEF FirstOutcome, OutputInv
    <3> QED BY <1>1, <1>b, <1>c, <2>1, <2>5, <3>1 DEF CursorInv
  <2> QED BY <1>6, <2>3, <2>4, <2>5 DEF Ingests
<1>7. CASE StoresResult
  <2>1. UNCHANGED workload /\ page.stage = "persisted" /\ page.state = "succeeded" /\ ~page.more
    BY <1>7 DEF StoresResult
  <2>2. page \in Pages /\ page # NoPage /\ page.output = Len(hub) /\ call = "succeeded"
        /\ record.outcome # "succeeded"
    BY <1>0, <1>a, <2>1 DEF OutputInv
  <2>3. CASE page' = NoPage /\ UNCHANGED <<run, record>>
    BY <1>c, <1>d, <2>1, <2>3
  <2>4. CASE /\ run' = AppendCheckpoint(run, MaxSteps, page.output)
             /\ record' = [record EXCEPT !.output = page.output]
             /\ page' = [page EXCEPT !.stage = "stored"]
    <3>1. /\ record'.output = page.output /\ record'.cursor = record.cursor
          /\ record'.gap = record.gap /\ record'.outcome = record.outcome
      BY <1>0, <2>4
    <3>2. page'.stage = "stored" /\ page'.state = page.state /\ page'.more = page.more
      BY <2>2, <2>4 DEF Pages
    <3>3. page.output \in Nat /\ page.output # 0
      <4>1. Len(hub) \in DOMAIN hub
        BY <2>2 DEF HubInv
      <4>2. DOMAIN hub = 1..Len(hub)
        BY <1>0, LenProperties
      <4> QED BY <1>0, <2>2, <4>1, <4>2
    <3>4. /\ ToSet(run'.checkpoints) = ToSet(run.checkpoints) \cup {[step |-> MaxSteps, of |-> page.output]}
          /\ run'.points = run.points /\ run'.console = run.console
      <4> DEFINE of == page.output
      <4>1. of \in Nat /\ MaxSteps \in Nat /\ run \in Runs /\ Ordered(run.checkpoints)
        BY <1>0, <3>3, StepsAre DEF Fit
      <4>2. run' = AppendCheckpoint(run, MaxSteps, of)
        BY <2>4
      <4> HIDE DEF of
      <4>3. /\ ToSet(AppendCheckpoint(run, MaxSteps, of).checkpoints)
                  = ToSet(run.checkpoints) \cup {[step |-> MaxSteps, of |-> of]}
            /\ AppendCheckpoint(run, MaxSteps, of).points = run.points
            /\ AppendCheckpoint(run, MaxSteps, of).console = run.console
        BY <4>1, CheckpointAppended, Zenon
      <4> QED BY <4>2, <4>3 DEF of
    <3>5. {c.step : c \in ToSet(run'.checkpoints)} = {c.step : c \in ToSet(run.checkpoints)} \cup {MaxSteps}
      <4> DEFINE new == [step |-> MaxSteps, of |-> page.output]
      <4>1. new.step = MaxSteps /\ ToSet(run'.checkpoints) = ToSet(run.checkpoints) \cup {new}
        BY <3>4
      <4> HIDE DEF new
      <4> QED BY <4>1
    <3>6. Stored(record'.output) = Stored(record.output) \cup {MaxSteps}
      BY <3>1, <3>3 DEF Stored
    <3>7. ~record.gap => Tells(out.events, run', record.cursor, Stored(record'.output))
      <4> SUFFICES ASSUME ~record.gap
                   PROVE  Tells(out.events, run', record.cursor, Stored(record'.output))
        OBVIOUS
      <4> DEFINE told == {out.events[k].step : k \in Told(out.events, "checkpoint", record.cursor)}
      <4>1. {c.step : c \in ToSet(run.checkpoints)} = told \cup Stored(record.output)
        BY <1>b DEF Tells
      <4>2. {c.step : c \in ToSet(run'.checkpoints)} = told \cup Stored(record'.output)
        <5> HIDE DEF told
        <5> QED BY <3>5, <3>6, <4>1
      <4>3. run'.points = run.points /\ run'.console = run.console
        BY <3>4
      <4> QED BY <1>b, <4>2, <4>3 DEF Tells
    <3>8. ~record.gap => CaughtUp(out, record.cursor)
      BY <1>b, <2>1, <2>2
    <3> QED BY <1>1, <1>b, <1>c, <2>1, <2>2, <3>1, <3>2, <3>7, <3>8 DEF CursorInv
  <2> QED BY <1>7, <2>3, <2>4 DEF StoresResult
<1>8. CASE Concludes
  <2>1. UNCHANGED <<workload, run>> /\ page' = NoPage
    BY <1>8 DEF Concludes
  <2>2. /\ record'.output = record.output /\ record'.cursor = record.cursor /\ record'.gap = record.gap
        /\ record'.outcome = "succeeded" =>
            \/ record.outcome = "succeeded"
            \/ page # NoPage /\ page.stage = "stored"
    BY <1>0, <1>8, <1>a DEF Concludes, FirstOutcome
  <2>3. record'.outcome = "succeeded" /\ ~record.gap => CaughtUp(out, record.cursor)
    BY <1>b, <2>2 DEF OutputInv
  <2> QED BY <1>1, <1>b, <1>c, <2>1, <2>2, <2>3 DEF CursorInv
<1>9. CASE Cancels \/ Expires
  <2>1. /\ UNCHANGED <<workload, run, page>>
        /\ record' = [record EXCEPT !.outcome = "cancelled"]
    BY <1>9 DEF Cancels, Expires
  <2>2. /\ record'.output = record.output /\ record'.cursor = record.cursor
        /\ record'.gap = record.gap /\ record'.outcome # "succeeded"
    BY <1>0, <2>1
  <2> QED BY <1>1, <1>b, <1>c, <2>1, <2>2 DEF CursorInv
<1>10. CASE Restarts
  BY <1>c, <1>d, <1>10 DEF Restarts
<1>11. CASE Sends \/ TimesOut \/ BeginsReading \/ GoesOnReading
  <2>1. UNCHANGED <<workload, run, record, page>>
    BY <1>11 DEF Sends, TimesOut, BeginsReading, GoesOnReading, TurnsPage, monitor
  <2> QED BY <1>c, <1>e, <2>1
<1>12. ASSUME NEW i \in DOMAIN Reports, Handles(i) PROVE FALSE
  BY <1>12 DEF Handles, EventsBase, Apart
<1> QED BY <1>3, <1>4, <1>5, <1>6, <1>7, <1>8, <1>9, <1>10, <1>11, <1>12 DEF EventsNext

\* A job that succeeded with no gap told: everything the worker did has been told of and
\* taken.
LEMMA LossHolds ==
    ASSUME EventsBase, HubInv, OutputInv, ReaderInv, LastTurnInv, UploadsTold, MetricsTold, LinesTold,
           LossTold, CursorInv
    PROVE  LossIsTold
<1>1. ~reader.told => reader.got = 1..reader.cursor
  BY DEF ReaderInv
<1> SUFFICES ASSUME record.outcome = "succeeded", ~record.gap
             PROVE  /\ ToSet(run.points) = {[step |-> s, of |-> s] : s \in Logged}
                    /\ {checkpoint.step : checkpoint \in ToSet(run.checkpoints)} = Saved
                    /\ Last(run.console).number = 1 + Cardinality(Logged)
                    /\ \A line \in ToSet(run.console) :
                           Cardinality({s \in Logged \cup {EOF} : s < line.of}) = line.number - 1
  BY <1>1 DEF LossIsTold
<1> DEFINE L == Len(out.events)
<1>2. out \in Outs /\ worker \in Workers /\ DOMAIN out.events = 1..L /\ L \in Nat
  BY DEF EventsBase, EventsTypeOK, WorkloadTypeOK, Outs
<1>3. managed /\ worker.pc = "returned" /\ CaughtUp(out, record.cursor)
      /\ Tells(out.events, run, record.cursor, Stored(record.output)) /\ record.output # 0
  BY DEF CursorInv, OutputInv, HubInv
<1>4. ~out.truncated /\ record.cursor = L /\ ~pipe.dropped /\ \A s \in Logged : s <= worker.last
  BY <1>3 DEF CaughtUp, LossTold
<1>5. ASSUME NEW kind PROVE Told(out.events, kind, L) = Kind(out.events, kind)
  <2>1. \A k \in DOMAIN out.events : k <= L
    BY <1>2
  <2> QED BY <2>1 DEF Told, Kind
<1>6. ToSet(run.points) = {[step |-> s, of |-> s] : s \in Logged}
  <2>1. ToSet(run.points) = PointsOf(out.events)
    BY <1>3, <1>4, <1>5 DEF Tells, PointsOf
  <2>2. PointsOf(out.events) = {[step |-> s, of |-> s] : s \in {t \in Logged : t <= worker.last}}
    BY <1>4 DEF MetricsTold
  <2>3. {t \in Logged : t <= worker.last} = Logged
    BY <1>4
  <2> QED BY <2>1, <2>2, <2>3
<1>7. {checkpoint.step : checkpoint \in ToSet(run.checkpoints)} = Saved
  <2>1. {c.step : c \in ToSet(run.checkpoints)} = StepsOf(out.events, "checkpoint") \cup {MaxSteps}
    <3>1. Stored(record.output) = {MaxSteps}
      BY <1>3 DEF Stored
    <3> QED BY <1>3, <1>4, <1>5, <3>1 DEF Tells, StepsOf
  <2>2. StepsOf(out.events, "checkpoint") = worker.uploaded \cup {MaxSteps}
    BY <1>3, <1>4 DEF UploadsTold
  <2>3. worker.uploaded = Saved \ {MaxSteps}
    BY <1>3 DEF LastTurnInv
  <2> QED BY <2>1, <2>2, <2>3, StepsAre
<1>8. Last(run.console).number = 1 + Cardinality(Logged)
  <2>1. LastNumber(run.console) = Cardinality(Kind(out.events, "log"))
    BY <1>3, <1>4, <1>5 DEF Tells
  <2>2. Cardinality(Kind(out.events, "log")) = Cardinality(Until(worker.last))
    BY <1>3, <1>4 DEF LinesTold
  <2>3. Until(worker.last) = Logged \cup {EOF}
    <3>1. EOF <= worker.last
      BY <1>2, StepsAre DEF Workers
    <3> QED BY <1>4, <3>1 DEF Until
  <2>4. IsFiniteSet(Logged) /\ EOF \notin Logged
    <3>1. IsFiniteSet(0..MaxSteps) /\ Logged \subseteq 0..MaxSteps
      BY StepsAre, FS_Interval
    <3>2. EOF \notin Logged
      BY DEF EOF, Logged, Steps
    <3> QED BY <3>1, <3>2, FS_Subset
  <2>5. Cardinality(Logged \cup {EOF}) = Cardinality(Logged) + 1 /\ Cardinality(Logged) \in Nat
    BY <2>4, FS_AddElement, FS_CardinalityType
  <2>6. LastNumber(run.console) = 1 + Cardinality(Logged) /\ LastNumber(run.console) # 0
    BY <2>1, <2>2, <2>3, <2>5
  <2>7. run.console # <<>>
    BY <2>6 DEF LastNumber
  <2> QED BY <2>6, <2>7 DEF LastNumber, Last
<1>9. ASSUME NEW line \in ToSet(run.console)
      PROVE  Cardinality({s \in Logged \cup {EOF} : s < line.of}) = line.number - 1
  <2>1. PICK k \in Told(out.events, "log", L) :
              out.events[k].of = line.of /\ line.number = Cardinality(Told(out.events, "log", k))
    BY <1>3, <1>4 DEF Tells
  <2>2. k \in Kind(out.events, "log") /\ k \in 1..L
    BY <1>2, <1>5, <2>1 DEF Kind
  <2> DEFINE earlier == {m \in Kind(out.events, "log") : m < k}
  <2>3. Cardinality(Before(line.of)) = Cardinality(earlier)
    BY <1>3, <1>4, <2>1, <2>2 DEF LinesTold, Placed
  <2>4. Told(out.events, "log", k) = earlier \cup {k}
    <3>1. \A m \in Kind(out.events, "log") : m <= k <=> m < k \/ m = k
      BY <1>2, <2>2 DEF Kind
    <3> QED BY <2>2, <3>1 DEF Told
  <2>5. IsFiniteSet(earlier) /\ k \notin earlier
    <3>1. earlier \subseteq 1..L
      BY <1>2 DEF Kind
    <3>2. IsFiniteSet(1..L)
      BY <1>2, FS_Interval
    <3>3. ~(k < k)
      BY <2>2
    <3> QED BY <3>1, <3>2, <3>3, FS_Subset
  <2>6. Cardinality(earlier \cup {k}) = Cardinality(earlier) + 1 /\ Cardinality(earlier) \in Nat
    <3> HIDE DEF earlier
    <3> QED BY <2>5, FS_AddElement, FS_CardinalityType
  <2>7. Cardinality(Before(line.of)) = line.number - 1
    <3>1. line.number = Cardinality(earlier) + 1
      BY <2>1, <2>4, <2>6
    <3> HIDE DEF earlier
    <3> QED BY <2>3, <2>6, <3>1
  <2> QED BY <2>7 DEF Before
<1> QED BY <1>6, <1>7, <1>8, <1>9

\* What holds of a training run, its workload, its monitor and its readers.
EventsInv ==
    /\ EventsBase
    /\ DirsInv /\ HubInv /\ MetricsInv /\ PipeInv /\ LastTurnInv
    /\ UploadsTold /\ MetricsTold /\ LinesTold /\ LossTold
    /\ CursorInv /\ OutputInv /\ AnsweredInv /\ ReaderInv

\* It holds when the run is created.
LEMMA EventsBegin ==
    ASSUME EventsInit
    PROVE  EventsInv
<1> USE StepsAre DEF EventsInit, WorkloadInit, NewRun, NoPage
<1>1. /\ run \in Runs /\ run.points = <<>> /\ run.checkpoints = <<>> /\ run.console = <<>>
  BY EmptySeq DEF Runs
<1>2. Fit(run)
  BY <1>1 DEF Fit, OncePerStep, Ordered, Contiguous
<1>3. WorkloadTypeOK
  <2>1. child \in Children
    BY DEF Children
  <2>2. pipe \in Pipes
    BY EmptySeq DEF Pipes
  <2>3. worker \in Workers
    BY DEF Workers
  <2>4. out \in Outs
    BY EmptySeq DEF Outs
  <2>5. hub \in Seq(Commits)
    BY EmptySeq
  <2> QED BY <2>1, <2>2, <2>3, <2>4, <2>5 DEF WorkloadTypeOK, States
<1>4. EventsBase
  BY <1>2, <1>3 DEF EventsBase, EventsTypeOK, Apart, States
<1>5. DirsInv /\ HubInv
  BY DEF DirsInv, HubInv, Names
<1>6. OutputInv
  BY <1>1 DEF OutputInv, ToSet
<1>7. AnsweredInv
  BY DEF AnsweredInv
<1>8. ReaderInv
  <2>1. 1..0 = {}
    OBVIOUS
  <2> QED BY <1>1, <2>1 DEF ReaderInv, LastNumber
<1>9. MetricsInv /\ PipeInv /\ LastTurnInv
  BY <1>3 DEF MetricsInv, Kind, PipeInv, LastTurnInv, Looping, Beginning
<1>10. UploadsTold /\ MetricsTold /\ LinesTold /\ LossTold
  <2>1. \A kind : Kind(<<>>, kind) = {}
    BY DEF Kind
  <2>2. \A s \in Logged : ~(s <= 0)
    BY DEF Logged, Steps
  <2> QED BY <2>1, <2>2 DEF UploadsTold, MetricsTold, LinesTold, LossTold, StepsOf, PointsOf, Placed
<1>11. CursorInv
  <2>1. \A kind : Told(<<>>, kind, 0) = {}
    BY DEF Told, Kind
  <2>2. Stored(0) = {}
    BY DEF Stored
  <2>3. Cardinality({}) = 0
    BY FS_EmptySet
  <2>4. ToSet(run.points) = {} /\ ToSet(run.checkpoints) = {} /\ ToSet(run.console) = {}
    BY <1>1 DEF ToSet
  <2>5. LastNumber(run.console) = 0
    BY <1>1 DEF LastNumber
  <2>6. Tells(<<>>, run, 0, {})
    <3> DEFINE told(kind) == Told(<<>>, kind, 0)
    <3>1. \A kind : told(kind) = {}
      BY <2>1
    <3>2. {[step |-> <<>>[k].step, of |-> <<>>[k].of] : k \in told("metric")} = {}
      <4> HIDE DEF told
      <4> QED BY <3>1
    <3>3. {<<>>[k].step : k \in told("checkpoint")} = {} /\ {c.step : c \in {}} = {}
      <4> HIDE DEF told
      <4> QED BY <3>1
    <3> QED BY <2>1, <2>3, <2>4, <2>5, <3>2, <3>3 DEF Tells
  <2>7. out.events = <<>> /\ record.cursor = 0 /\ record.output = 0 /\ record.outcome = "pending"
        /\ page = NoPage /\ NoPage.stage = "none"
    OBVIOUS
  <2>8. Len(out.events) = 0
    BY <2>7
  <2>9. record.cursor <= Len(out.events)
    BY <2>7, <2>8
  <2>10. Tells(out.events, run, record.cursor, Stored(record.output))
    BY <2>2, <2>6, <2>7
  <2> QED BY <2>7, <2>9, <2>10 DEF CursorInv
<1> QED BY <1>4, <1>5, <1>6, <1>7, <1>8, <1>9, <1>10, <1>11 DEF EventsInv

\* The workload's parts of it are about the workload alone.
LEMMA WorkloadAside ==
    ASSUME DirsInv, HubInv, MetricsInv, PipeInv, LastTurnInv, UploadsTold, MetricsTold, LinesTold, LossTold,
           child' = child, pipe' = pipe, worker' = worker, out' = out, hub' = hub, call' = call
    PROVE  /\ DirsInv' /\ HubInv' /\ MetricsInv' /\ PipeInv' /\ LastTurnInv'
           /\ UploadsTold' /\ MetricsTold' /\ LinesTold' /\ LossTold'
<1>1. DirsInv' /\ HubInv' /\ MetricsInv'
  BY DEF DirsInv, HubInv, Names, MetricsInv, Kind
<1>2. PipeInv' /\ LastTurnInv'
  BY DEF PipeInv, LastTurnInv
<1>3. UploadsTold' /\ MetricsTold' /\ LinesTold' /\ LossTold'
  BY DEF UploadsTold, MetricsTold, LinesTold, LossTold
<1> QED BY <1>1, <1>2, <1>3

\* Each part of it is kept, the workload's by whoever moves the workload.
LEMMA EventsKept ==
    ASSUME EventsInv, [EventsNext]_eventVars
    PROVE  EventsInv'
<1> USE DEF EventsInv
<1>1. CASE EventsNext
  <2>1. EventsBase'
    BY <1>1, EventsTyped
  <2>2. WorkloadTypeOK
    BY DEF EventsBase, EventsTypeOK
  <2>3. /\ DirsInv' /\ HubInv' /\ MetricsInv' /\ PipeInv' /\ LastTurnInv'
        /\ UploadsTold' /\ MetricsTold' /\ LinesTold' /\ LossTold'
    <3>1. CASE Works \/ CallStops
      <4>1. WorkloadMoves
        BY <3>1 DEF Works, CallStops, WorkloadMoves
      <4>2. WorkloadTypeOK'
        BY <2>1 DEF EventsBase, EventsTypeOK
      <4>3. MetricsInv' /\ PipeInv'
        BY <2>2, <4>1, <4>2, MetricsKept, PipeKept
      <4>4. LastTurnInv'
        BY <2>2, <4>1, <4>2, <4>3, LastTurnKept
      <4>5. UploadsTold' /\ MetricsTold' /\ LinesTold' /\ LossTold'
        BY <2>2, <4>1, UploadsToldKept, MetricsToldKept, LinesToldKept, LossToldKept
      <4> QED BY <2>2, <4>1, <4>3, <4>4, <4>5, DirsKept, HubKept
    <3>2. CASE UNCHANGED workload
      BY <3>2, WorkloadAside DEF workload
    <3> QED BY <1>1, <3>1, <3>2 DEF EventsNext, Tails, AsksCall, Ingests, StoresResult, Concludes,
                                    Cancels, Expires, Restarts, Sends, TimesOut, Handles,
                                    BeginsReading, GoesOnReading, TurnsPage
  <2>4. OutputInv'
    BY <1>1, <2>1, OutputKept
  <2>5. AnsweredInv'
    BY <1>1, AnsweredKept
  <2>6. ReaderInv'
    BY <1>1, <2>1, ReaderKept
  <2>7. CursorInv'
    BY <1>1, <2>1, CursorKept
  <2> QED BY <2>1, <2>3, <2>4, <2>5, <2>6, <2>7
<1>2. CASE UNCHANGED eventVars
  <2> USE <1>2 DEF eventVars, workload, monitor, outside
  <2>1. EventsBase'
    BY DEF EventsBase, EventsTypeOK, WorkloadTypeOK, Apart
  <2>2. /\ DirsInv' /\ HubInv' /\ MetricsInv' /\ PipeInv' /\ LastTurnInv'
        /\ UploadsTold' /\ MetricsTold' /\ LinesTold' /\ LossTold'
    BY WorkloadAside
  <2>4. OutputInv' /\ ReaderInv' /\ CursorInv'
    BY DEF OutputInv, ReaderInv, CursorInv
  <2>3. AnsweredInv'
    BY DEF AnsweredInv
  <2> QED BY <2>1, <2>2, <2>3, <2>4
<1> QED BY <1>1, <1>2

-----------------------------------------------------------------------------
\* The inductive invariant of a training run: what its workload has done is in its
\* events, what the monitor has read of them is in the run, or a loss is told.
THEOREM EventsInductive == EventsSpec => []EventsInv
<1>1. EventsInv /\ [EventsNext]_eventVars => EventsInv'
  BY EventsKept
<1> QED BY EventsBegin, <1>1, PTL DEF EventsSpec

\* However often the trainer retries log_metrics, register_checkpoint, log_console and
\* update_run, and however late a copy arrives, the run keeps what was answered, in order.
THEOREM ReportsKept == EventsSpec => []ReportsSurviveRetries
<1>1. EventsInv => ReportsSurviveRetries
  BY ReportsSurvive DEF EventsInv
<1> QED BY <1>1, EventsInductive, PTL

\* _verify_and_persist_result names a whole commit of the last step, and no checkpoint
\* registered from the workload's events is of half a policy.
THEOREM OutputsWhole == EventsSpec => []OutputIsWhole
<1>1. EventsInv => OutputIsWhole
  BY OutputHolds DEF EventsInv
<1> QED BY <1>1, EventsInductive, PTL

\* With no gap told, a job that succeeded shows every metric, checkpoint and line that
\* the workload logged (poll, _persist_events, _EventEmitter), and a reader of the
\* console that was told of no loss has every line up to where he is.
THEOREM LossesTold == EventsSpec => []LossIsTold
<1>1. EventsInv => LossIsTold
  BY LossHolds DEF EventsInv
<1> QED BY <1>1, EventsInductive, PTL
=============================================================================
