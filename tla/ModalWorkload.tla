--------------------------- MODULE ModalWorkload ---------------------------
(***************************************************************************)
(* What a managed training job runs on the provider                        *)
(* (modal_training_workload.py): run_managed_training with LeRobot as its  *)
(* child process, the pipe between them, the checkpoints LeRobot writes    *)
(* and the worker uploads, and the events the worker prints.               *)
(*                                                                         *)
(* A line of LeRobot's tracker is the step it was printed at; the two      *)
(* pipes are one; the two bounds on events, of their number and of their   *)
(* bytes, are one number with a reserve for what is essential.             *)
(***************************************************************************)
EXTENDS Naturals, FiniteSets, Sequences

CONSTANTS MaxSteps, LogEvery, SaveEvery,   \* of the job's spec
          Token(_),                        \* how the tracker shows a step
          QueueMax,                        \* messages between reader and loop
          MaxEvents, Reserve, MaxLogs      \* bounds on the events

ASSUME WorkloadAssumption ==
    /\ MaxSteps \in Nat \ {0} /\ LogEvery \in 1..MaxSteps /\ SaveEvery \in 1..MaxSteps
    /\ QueueMax \in Nat \ {0} /\ MaxEvents \in Nat /\ Reserve \in 0..MaxEvents
    /\ MaxLogs \in Nat

VARIABLES
    child,    \* LeRobot: how it stands, its steps, and its checkpoints
    pipe,     \* lines on their way: unread, read, a line dropped, the reader's life
    worker,   \* where run_managed_training stands, and its locals
    out,      \* the events it has printed, and whether one was left out
    hub,      \* the commits of the output repository
    call,     \* the provider's state of the function call
    expired      \* the deadline is over

workload == <<child, pipe, worker, out, hub, call, expired>>

Steps == 1..MaxSteps
Logged == {s \in Steps : s % LogEvery = 0}
Saved == {s \in Steps : s % SaveEvery = 0 \/ s = MaxSteps}
EOF == 0

\* An event: what it says of which step.  A system line has step EOF.
Event(kind, step, of) == [kind |-> kind, step |-> step, of |-> of]
NoStep == MaxSteps + 1

WorkloadInit ==
    /\ child = [state |-> "none", step |-> 0, dirs |-> [s \in Saved |-> "none"]]
    /\ pipe = [unread |-> <<>>, queue |-> <<>>, dropped |-> FALSE, reader |-> "none"]
    /\ worker = [pc |-> "spec", last |-> 0, todo |-> {}, uploaded |-> {}]
    /\ out = [events |-> <<>>, truncated |-> FALSE]
    /\ hub = <<>> /\ call = "pending" /\ expired = FALSE

-----------------------------------------------------------------------------
(* Events *)

Logs(events) == {i \in DOMAIN events : events[i].kind = "log"}

\* _EventEmitter.emit
Emit(o, event, essential) ==
    IF Len(o.events) < (IF essential THEN MaxEvents ELSE MaxEvents - Reserve)
    THEN [o EXCEPT !.events = Append(@, event)]
    ELSE [o EXCEPT !.truncated = TRUE]

\* _EventEmitter.log
Log(o, step, line) ==
    IF Cardinality(Logs(o.events)) >= MaxLogs THEN [o EXCEPT !.truncated = TRUE]
    ELSE Emit(o, Event("log", step, line), FALSE)

\* _TrainingMetricParser.parse: the step a line of the tracker belongs to.  What the
\* tracker shows is rounded, so it is found on the schedule: the next one, or after a
\* loss the first of the next ones that would show the same.
Schedule(line, lost) ==
    {s \in Logged : /\ s > worker.last /\ Token(s) = Token(line)
                    /\ lost \/ s = worker.last + LogEvery}
ParsedStep(line, lost) ==
    IF Schedule(line, lost) = {} THEN NoStep
    ELSE CHOOSE s \in Schedule(line, lost) : \A t \in Schedule(line, lost) : s <= t

-----------------------------------------------------------------------------
(* LeRobot, and the thread that reads its output *)

ChildAlive == child.state = "running"

\* A step of training prints its line if it is one to log, and is followed by its
\* checkpoint: first the policy, then the training state.
Trains ==
    /\ ChildAlive /\ child.step < MaxSteps
    /\ child.step \in Saved => child.dirs[child.step] = "done"
    /\ child' = [child EXCEPT !.step = @ + 1]
    /\ pipe' = IF child.step + 1 \in Logged
               THEN [pipe EXCEPT !.unread = Append(@, child.step + 1)] ELSE pipe
    /\ UNCHANGED <<worker, out, hub, call, expired>>

Saves ==
    /\ ChildAlive /\ child.step \in Saved /\ child.dirs[child.step] # "done"
    /\ child' = [child EXCEPT !.dirs[child.step] = IF @ = "none" THEN "partial" ELSE "done"]
    /\ UNCHANGED <<pipe, worker, out, hub, call, expired>>

Exits ==
    /\ ChildAlive
    /\ child' = [child EXCEPT !.state = IF /\ child.step = MaxSteps
                                           /\ child.dirs[MaxSteps] = "done"
                                        THEN "exited" ELSE "failed"]
    /\ UNCHANGED <<pipe, worker, out, hub, call, expired>>

\* _read_pipe: it never waits for the queue, and ends when the pipe does.
Reads ==
    /\ pipe.reader = "alive"
    /\ LET room == Len(pipe.queue) < QueueMax IN
       \/ /\ pipe.unread # <<>>
          /\ pipe' = [pipe EXCEPT !.unread = Tail(@),
                                  !.queue = IF room THEN Append(@, Head(pipe.unread)) ELSE @,
                                  !.dropped = @ \/ ~room]
       \/ /\ pipe.unread = <<>> /\ ~ChildAlive
          /\ pipe' = [pipe EXCEPT !.reader = "dead",
                                  !.queue = IF room THEN Append(@, EOF) ELSE @]
    /\ UNCHANGED <<child, worker, out, hub, call, expired>>

-----------------------------------------------------------------------------
(* run_managed_training *)

At(pc) == worker.pc = pc /\ call = "running"
Goes(pc) == worker' = [worker EXCEPT !.pc = pc]

\* _validated_worker_spec: what the payload asks for.
Begins ==
    /\ call = "pending" /\ call' = "running" /\ Goes("marker")
    /\ UNCHANGED <<child, pipe, out, hub, expired>>

\* An exception ends the child and its reader, and then the call.
Aborts ==
    /\ call = "running" /\ worker.pc # "returned"
    /\ call' = "failed"
    /\ child' = [child EXCEPT !.state = IF ChildAlive THEN "killed" ELSE @]
    /\ pipe' = [pipe EXCEPT !.reader = "dead"]
    /\ UNCHANGED <<worker, out, hub, expired>>

\* The marker says the output repository is this job's; that is the first event.
VerifiesMarker ==
    /\ At("marker") /\ ~expired
    /\ out' = Log(out, EOF, EOF)
    /\ Goes("inputs")
    /\ UNCHANGED <<child, pipe, hub, call, expired>>

\* The data set and the models are fetched, each of its revision.
Fetches ==
    /\ At("inputs") /\ ~expired /\ Goes("fetched")
    /\ UNCHANGED <<child, pipe, out, hub, call, expired>>

\* _seal_base_model_for_child: what is wrong with them ends the job (Aborts).
Seals ==
    /\ At("fetched") /\ ~expired /\ Goes("sealed")
    /\ UNCHANGED <<child, pipe, out, hub, call, expired>>

StartsChild ==
    /\ At("sealed") /\ ~expired
    /\ child' = [child EXCEPT !.state = "running"]
    /\ pipe' = [pipe EXCEPT !.reader = "alive"]
    /\ Goes("take")
    /\ UNCHANGED <<out, hub, call, expired>>

\* Mutant: the loop ends with the child, and leaves what is still on its way.
EndsWithChild == ChildAlive \/ pipe.queue # <<>>

LoopGoesOn == ChildAlive \/ pipe.reader = "alive" \/ pipe.queue # <<>>

\* A turn of the loop: a message, if one comes in time, and then a look at the
\* checkpoints.
Takes ==
    /\ At("take") /\ LoopGoesOn /\ ~expired
    /\ IF pipe.queue = <<>> THEN UNCHANGED <<pipe, out>> /\ Goes("scan")
       ELSE /\ pipe' = [pipe EXCEPT !.queue = Tail(@)]
            /\ IF Head(pipe.queue) = EOF THEN UNCHANGED out /\ Goes("scan")
               ELSE LET line == Head(pipe.queue)
                        step == ParsedStep(line, pipe.dropped)
                        logged == Log(out, step, line) IN
                    IF step = NoStep THEN out' = logged /\ Goes("scan")
                    ELSE /\ out' = Emit(logged, Event("metric", step, line), FALSE)
                         /\ worker' = [worker EXCEPT !.pc = "scan", !.last = step]
    /\ UNCHANGED <<child, hub, call, expired>>

\* Mutant: a checkpoint counts as soon as its policy is there.
PolicyWritten(s) == child.dirs[s] # "none"

\* _completed_checkpoint_step: the state of training is written last.
Complete(s) == child.dirs[s] = "done"

Scans ==
    /\ At("scan")
    /\ LET found == {s \in Saved \ {MaxSteps} : Complete(s)} \ worker.uploaded IN
       worker' = [worker EXCEPT !.pc = IF found = {} THEN "take" ELSE "upload",
                                !.todo = found]
    /\ UNCHANGED <<child, pipe, out, hub, call, expired>>

\* _upload_policy, and the verification of its commit.
Commit(s, final) ==
    [step |-> s, final |-> final, whole |-> child.dirs[s] = "done"]

Uploads ==
    /\ At("upload") /\ ~expired
    /\ \E s \in worker.todo :
          /\ \A t \in worker.todo : s <= t
          /\ hub' = Append(hub, Commit(s, FALSE))
          /\ out' = Emit(out, Event("checkpoint", s, Len(hub')), TRUE)
          /\ worker' = [worker EXCEPT !.todo = @ \ {s}, !.uploaded = @ \cup {s},
                                      !.pc = IF worker.todo = {s} THEN "take" ELSE "upload"]
    /\ UNCHANGED <<child, pipe, call, expired>>

\* An upload whose commit is made but not verified, or too late, fails the job all the
\* same.
UploadsInVain ==
    /\ \/ At("upload") /\ hub' = Append(hub, Commit(CHOOSE s \in worker.todo : TRUE, FALSE))
       \/ At("final") /\ hub' = Append(hub, Commit(MaxSteps, TRUE))
    /\ call' = "failed"
    /\ child' = [child EXCEPT !.state = IF ChildAlive THEN "killed" ELSE @]
    /\ pipe' = [pipe EXCEPT !.reader = "dead"]
    /\ UNCHANGED <<worker, out, expired>>

\* The child has exited without an error and left its last checkpoint.
Completes ==
    /\ At("take") /\ ~LoopGoesOn /\ ~expired
    /\ child.state = "exited" /\ Complete(MaxSteps)
    /\ out' = [out EXCEPT !.truncated = @ \/ pipe.dropped]
    /\ Goes("final")
    /\ UNCHANGED <<child, pipe, hub, call, expired>>

\* The final upload, its event, a last line if something was left out, and the result.
Returns ==
    /\ At("final") /\ ~expired
    /\ hub' = Append(hub, Commit(MaxSteps, TRUE))
    /\ LET said == Emit(out, Event("checkpoint", MaxSteps, Len(hub')), TRUE) IN
       out' = IF said.truncated THEN Emit(said, Event("log", MaxSteps, EOF), TRUE) ELSE said
    /\ Goes("returned") /\ call' = "succeeded"
    /\ UNCHANGED <<child, pipe, expired>>

DeadlinePasses ==
    /\ ~expired /\ expired' = TRUE
    /\ UNCHANGED <<child, pipe, worker, out, hub, call>>

Workload == \/ Trains \/ Saves \/ Exits \/ Reads
            \/ Begins \/ Aborts \/ VerifiesMarker \/ Fetches \/ Seals
            \/ StartsChild \/ Takes \/ Scans
            \/ Uploads \/ UploadsInVain \/ Completes \/ Returns
            \/ DeadlinePasses

\* The provider ends the call, because it was told to or not.
Cancelled(state) ==
    /\ call' = state
    /\ child' = [child EXCEPT !.state = IF ChildAlive THEN "killed" ELSE @]
    /\ pipe' = [pipe EXCEPT !.reader = "dead"]
    /\ UNCHANGED <<worker, out, hub, expired>>
=============================================================================
