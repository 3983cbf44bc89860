--------------------------- MODULE RobotInference ---------------------------
(***************************************************************************)
(* The data path of one RobotInferenceLoop (robot_inference.py) from the   *)
(* moment start() has scheduled _run: observations go to the policy one at *)
(* a time, chunks of actions come back into a bounded queue, and a paced   *)
(* cycle applies at most one action.  A step is a stretch of _run in which *)
(* nothing looks at the clock twice; ticks fall between any two of them.   *)
(* The event loop only turns at the awaits ("observe", "wait", "settle",   *)
(* "close"), so only there may a stop arrive or a call be found finished.  *)
(* How the lease is taken and returned is in ArmControl.                   *)
(***************************************************************************)
EXTENDS Integers, Sequences

CONSTANTS
    Chunk,       \* descriptor.actions_per_chunk
    MaxQueue,    \* max_queue_actions
    MaxAge,      \* max_action_age_seconds, in ticks
    Interval,    \* control interval, in ticks
    MaxSteps,    \* max_steps
    MaxTime      \* bound on the clock

(* start() refuses a queue smaller than one chunk.                         *)
ASSUME LoopAssumption ==
    /\ Chunk \in Nat \ {0} /\ MaxQueue \in Nat /\ Chunk <= MaxQueue
    /\ MaxAge \in Nat /\ Interval \in Nat \ {0}
    /\ MaxSteps \in Nat \ {0} /\ MaxTime \in Nat

VARIABLES
    pc,          \* where _run stands
    stop,        \* the stop event
    queue,       \* actions, each with its observation and their capture time
    head,        \* the action just popped
    thread,      \* the infer call in flight, as the event loop knows it
    size,        \* number of actions in its answer
    pending,     \* the request it carries, if any
    nextSeq, lastSeq,      \* next_sequence, last_chunk_sequence
    now, cycleStart, deadline,
    steps, dropped,        \* _steps_executed, _dropped_chunks
    fault        \* what ended the loop, if it was an exception

flow == <<queue, head, thread, size, pending, nextSeq, lastSeq, dropped>>
pace == <<cycleStart, deadline>>
vars == <<pc, stop, flow, now, pace, steps, fault>>

Pcs == {"top", "pop", "apply", "observe", "request", "wait",
        "settle", "close", "done", "blocked"}
Action == [seq : Nat, index : 1..Chunk, captured : Nat]

(* Mutant: half a chunk, whatever the room. *)
HalfChunk == Chunk \div 2

LowWatermark ==
    IF Chunk \div 2 < MaxQueue - Chunk THEN Chunk \div 2 ELSE MaxQueue - Chunk

Init ==
    /\ pc = "top"
    /\ stop = FALSE
    /\ queue = << >> /\ head = {}
    /\ thread = "idle" /\ size = 0 /\ pending = {}
    /\ nextSeq = 0 /\ lastSeq = -1
    /\ now = 0 /\ cycleStart = 0 /\ deadline = 0
    /\ steps = 0 /\ dropped = 0
    /\ fault = "none"

Goes(to) == pc' = to /\ UNCHANGED <<stop, fault>>

(* An exception ends the loop; the finally clause sets the stop event.     *)
Fails(cause) == fault' = cause /\ stop' = TRUE /\ pc' = "settle"

TooOld(captured) == now - captured > MaxAge

-----------------------------------------------------------------------------
(* The cycle *)

Leave ==
    /\ pc = "top" /\ stop
    /\ pc' = "settle"
    /\ UNCHANGED <<stop, flow, now, pace, steps, fault>>

(* A finished call is taken in: refused, dropped as too late, or queued.   *)
Arrives(p) ==
    /\ thread = "answered"
    /\ \/ /\ TooOld(p.since)
          /\ dropped' = dropped + 1
          /\ Goes("pop") /\ UNCHANGED <<queue, lastSeq>>
       \/ /\ ~TooOld(p.since)
          /\ p.seq <= lastSeq
          /\ Fails("order") /\ UNCHANGED <<queue, lastSeq, dropped>>
       \/ /\ ~TooOld(p.since) /\ p.seq > lastSeq
          /\ Len(queue) + size > MaxQueue
          /\ Fails("bound") /\ UNCHANGED <<queue, lastSeq, dropped>>
       \/ /\ ~TooOld(p.since) /\ p.seq > lastSeq
          /\ Len(queue) + size <= MaxQueue
          /\ queue' = queue \o [i \in 1..size |->
                                  [seq |-> p.seq, index |-> i, captured |-> p.since]]
          /\ lastSeq' = p.seq
          /\ Goes("pop") /\ UNCHANGED dropped
    /\ thread' = "idle" /\ pending' = {} /\ UNCHANGED size

Cycle ==
    /\ pc = "top" /\ ~stop
    /\ cycleStart' = now
    /\ \/ /\ \E p \in pending : Arrives(p)
          /\ UNCHANGED <<head, nextSeq>>
       \/ /\ thread = "failed"
          /\ Fails("transport") /\ UNCHANGED flow
       \/ /\ thread \in {"idle", "busy"}
          /\ Goes("pop") /\ UNCHANGED flow
    /\ UNCHANGED <<now, deadline, steps>>

(* The leading actions of an overaged chunk go with the one popped.        *)
DropChunk(rest, seq) ==
    /\ \E n \in 0..Len(rest) :
        /\ \A i \in 1..n : rest[i].seq = seq
        /\ n < Len(rest) => rest[n + 1].seq # seq
        /\ queue' = SubSeq(rest, n + 1, Len(rest))
    /\ dropped' = dropped + 1

Pop ==
    /\ pc = "pop"
    /\ \/ /\ queue = << >>
          /\ Goes("request") /\ UNCHANGED <<queue, head, dropped>>
       \/ /\ queue # << >> /\ TooOld(Head(queue).captured)
          /\ DropChunk(Tail(queue), Head(queue).seq)
          /\ Goes("request") /\ UNCHANGED head
       \/ /\ queue # << >> /\ ~TooOld(Head(queue).captured)
          /\ queue' = Tail(queue) /\ head' = {Head(queue)}
          /\ Goes("apply") /\ UNCHANGED dropped
    /\ UNCHANGED <<thread, size, pending, nextSeq, lastSeq, now, pace, steps>>

(* Mutant: reading the arm and mapping the action take no time. *)
ApplyUnchecked ==
    /\ pc = "apply" /\ head' = {} /\ steps' = steps + 1 /\ Goes("observe")
    /\ UNCHANGED <<queue, dropped, thread, size, pending, nextSeq, lastSeq, now, pace>>

(* The arm is read and the action mapped to it; after that the age is      *)
(* checked again.  The driver may refuse.                                  *)
Apply ==
    /\ pc = "apply"
    /\ head' = {}
    /\ \/ /\ Fails("driver") /\ UNCHANGED <<queue, dropped, steps>>
       \/ \E a \in head :
            \/ /\ TooOld(a.captured)
               /\ DropChunk(queue, a.seq)
               /\ Goes("request") /\ UNCHANGED steps
            \/ /\ ~TooOld(a.captured)
               /\ steps' = steps + 1
               /\ Goes("observe") /\ UNCHANGED <<queue, dropped>>
    /\ UNCHANGED <<thread, size, pending, nextSeq, lastSeq, now, pace>>

Observe ==
    /\ pc = "observe"
    /\ \/ /\ pc' = "request"
          /\ stop' = (stop \/ steps >= MaxSteps)
          /\ UNCHANGED fault
       \/ Fails("observer")
    /\ UNCHANGED <<flow, now, pace, steps>>

(* The next multiple of the interval, past the start of this cycle.        *)
NextDeadline ==
    LET next == deadline + Interval
    IN  IF next <= cycleStart
        THEN next + ((cycleStart - next) \div Interval + 1) * Interval
        ELSE next

NextSequence == nextSeq + 1

(* One request at a time, as soon as the queue is down to the watermark.   *)
Request ==
    /\ pc = "request"
    /\ LET wanted == ~stop /\ thread = "idle" /\ Len(queue) <= LowWatermark
       IN  \/ /\ wanted
              /\ Fails("driver") /\ UNCHANGED <<flow, deadline>>
           \/ /\ wanted
              /\ thread' = "busy"
              /\ pending' = {[seq |-> nextSeq, since |-> now]}
              /\ nextSeq' = NextSequence
              /\ deadline' = NextDeadline
              /\ Goes("wait") /\ UNCHANGED <<queue, head, size, lastSeq, dropped>>
           \/ /\ ~wanted
              /\ deadline' = NextDeadline
              /\ Goes("wait") /\ UNCHANGED flow
    /\ UNCHANGED <<now, cycleStart, steps>>

Wake ==
    /\ pc = "wait"
    /\ stop \/ now >= deadline
    /\ Goes("top")
    /\ UNCHANGED <<flow, now, pace, steps>>

-----------------------------------------------------------------------------
(* The end.  transport.close comes after the call in flight has settled,   *)
(* however often the waiting task is cancelled, and the lease comes last.  *)

(* Mutant: the call is abandoned. *)
SettleAtOnce ==
    /\ pc = "settle"
    /\ queue' = << >> /\ head' = {}
    /\ Goes("close")
    /\ UNCHANGED <<thread, size, pending, nextSeq, lastSeq, dropped, now, pace, steps>>

(* Mutant: an exception of the call ends the finally clause. *)
SettleRaises ==
    /\ pc = "settle" /\ thread \notin {"busy", "failed"}
    /\ queue' = << >> /\ head' = {}
    /\ Goes("close")
    /\ UNCHANGED <<thread, size, pending, nextSeq, lastSeq, dropped, now, pace, steps>>

Settle ==
    /\ pc = "settle"
    /\ thread # "busy"
    /\ queue' = << >> /\ head' = {}
    /\ Goes("close")
    /\ UNCHANGED <<thread, size, pending, nextSeq, lastSeq, dropped, now, pace, steps>>

(* The transport is closed, or has failed to; the arm is idled and the     *)
(* lease returned, or kept, as release_motion_ownership decides.           *)
Release ==
    /\ pc = "close"
    /\ \E to \in {"done", "blocked"} : Goes(to)
    /\ UNCHANGED <<flow, now, pace, steps>>

-----------------------------------------------------------------------------
(* The surroundings *)

(* stop() and shutdown() set the event and wait for the task.              *)
Stop ==
    /\ pc \in {"observe", "wait"} /\ ~stop
    /\ stop' = TRUE
    /\ UNCHANGED <<pc, flow, now, pace, steps, fault>>

(* The task itself is cancelled.                                           *)
Cancel ==
    /\ pc \in {"observe", "wait"}
    /\ stop' = TRUE /\ pc' = "settle"
    /\ UNCHANGED <<flow, now, pace, steps, fault>>

(* A valid chunk of the request, or anything else: validate_action_chunk   *)
(* lets pass only its own sequence number and 1..Chunk actions.            *)
Answer ==
    /\ pc \in {"observe", "wait", "settle", "close"}
    /\ thread = "busy"
    /\ \/ /\ thread' = "answered" /\ \E n \in 1..Chunk : size' = n
       \/ /\ thread' = "failed" /\ UNCHANGED size
    /\ UNCHANGED <<pc, stop, queue, head, pending, nextSeq, lastSeq, dropped, now, pace, steps, fault>>

Tick ==
    /\ now < MaxTime
    /\ now' = now + 1
    /\ UNCHANGED <<pc, stop, flow, pace, steps, fault>>

Runs == Leave \/ Cycle \/ Pop \/ Apply \/ Observe \/ Request \/ Wake \/ Settle \/ Release

Next == Runs \/ Stop \/ Cancel \/ Answer \/ Tick

Spec == Init /\ [][Next]_vars

(* The event loop runs the task; observers and transport calls return (the *)
(* transport has a timeout of its own).                                    *)
FairSpec == Spec /\ WF_vars(Runs) /\ WF_vars(Answer)

-----------------------------------------------------------------------------
TypeOK ==
    /\ pc \in Pcs /\ stop \in BOOLEAN
    /\ queue \in Seq(Action)
    /\ head \in SUBSET Action
    /\ thread \in {"idle", "busy", "answered", "failed"}
    /\ size \in 0..Chunk
    /\ pending \in SUBSET [seq : Nat, since : Nat]
    /\ nextSeq \in Nat /\ lastSeq \in Nat \cup {-1}
    /\ now \in Nat /\ cycleStart \in Nat /\ deadline \in Nat
    /\ steps \in 0..MaxSteps /\ dropped \in Nat
    /\ fault \in {"none", "transport", "order", "bound", "driver", "observer"}

(* A policy that keeps to its contract is never refused: its chunks neither*)
(* arrive out of order nor find the queue too full.                        *)
ContractSuffices == fault \notin {"order", "bound"}

Before(a, b) == a.seq < b.seq \/ (a.seq = b.seq /\ a.index < b.index)

(* Actions leave the queue in the order of observations, then of the chunk;*)
(* what is still under way comes after all of them.                        *)
QueueInOrder ==
    /\ \A i, j \in 1..Len(queue) : i < j => Before(queue[i], queue[j])
    /\ \A a \in head : \A i \in 1..Len(queue) : Before(a, queue[i])
    /\ \A p \in pending : \A i \in 1..Len(queue) : queue[i].seq < p.seq

(* An arm moves only on an action whose observation is fresh when the      *)
(* driver gets it, and never after a stop or past the step limit.          *)
MovesOnFreshActions ==
    [][ steps' > steps =>
          /\ \A a \in head : now - a.captured <= MaxAge
          /\ ~stop
          /\ steps < MaxSteps ]_vars

(* A chunk that lost an action to its age loses all of them: nothing of it *)
(* is left in the queue for a later cycle.                                 *)
DropsWholeChunks ==
    [][ dropped' > dropped /\ pc # "top" =>
          \A a \in (IF pc = "apply" THEN head ELSE {Head(queue)}) :
            \A i \in 1..Len(queue') : queue'[i].seq # a.seq ]_vars

(* However long a cycle took, the next one is due after its start and not  *)
(* more than an interval later: no burst makes up for the missed ones.     *)
NoBursts ==
    pc = "wait" /\ ~stop => cycleStart < deadline /\ deadline <= cycleStart + Interval

(* The transport is not closed, nor the lease returned, under a call.      *)
CallsSettleFirst == pc \in {"close", "done", "blocked"} => thread # "busy"

(* Once a stop is asked for, the loop ends and decides about the lease.    *)
StopEnds == stop ~> pc \in {"done", "blocked"}
=============================================================================
