------------------------ MODULE RobotInferenceProofs ------------------------
(***************************************************************************)
(* For every chunk size, queue, age and interval: a policy that keeps to   *)
(* its contract is never refused, actions keep their order, and nothing    *)
(* moves the arm on an old observation or after a stop.                    *)
(***************************************************************************)
EXTENDS RobotInference, TLAPS

Sorted(q) == \A i, j \in 1..Len(q) : i < j => Before(q[i], q[j])

(* One call at most, later than everything queued, asked for when the      *)
(* queue had room for a whole chunk.                                       *)
CallInFlight ==
    /\ lastSeq < nextSeq
    /\ thread = "idle" => pending = {}
    /\ thread # "idle" =>
        /\ \E p \in pending : pending = {p} /\ lastSeq < p.seq /\ p.seq < nextSeq
        /\ Len(queue) <= LowWatermark

QueueSound ==
    /\ Len(queue) <= MaxQueue
    /\ Sorted(queue)
    /\ \A i \in 1..Len(queue) : queue[i].seq <= lastSeq

HeadSound ==
    /\ pc # "apply" => head = {}
    /\ pc = "apply" => \E a \in head :
        head = {a} /\ a.seq <= lastSeq /\ \A i \in 1..Len(queue) : Before(a, queue[i])

StopsInTime ==
    /\ pc \in {"pop", "apply"} => ~stop
    /\ steps >= MaxSteps => stop \/ pc = "observe"
    /\ pc \in {"settle", "close", "done", "blocked"} => stop

IInv ==
    /\ TypeOK /\ CallInFlight /\ QueueSound /\ HeadSound /\ StopsInTime
    /\ ContractSuffices /\ CallsSettleFirst

-----------------------------------------------------------------------------
(* The queue *)

LEMMA Watermark == LowWatermark \in Int /\ LowWatermark + Chunk <= MaxQueue
  <1>1. MaxQueue - Chunk \in Int /\ Chunk \div 2 \in Int
    BY LoopAssumption
  <1> QED BY <1>1, LoopAssumption DEF LowWatermark

LEMMA TailOf ==
    ASSUME NEW q \in Seq(Action), q # << >>
    PROVE  /\ Head(q) \in Action /\ Head(q) = q[1]
           /\ Tail(q) \in Seq(Action) /\ Len(Tail(q)) = Len(q) - 1
           /\ \A i \in 1..Len(Tail(q)) : Tail(q)[i] = q[i + 1]
  OBVIOUS

LEMMA SuffixOf ==
    ASSUME NEW q \in Seq(Action), NEW n \in 0..Len(q)
    PROVE  /\ SubSeq(q, n + 1, Len(q)) \in Seq(Action)
           /\ Len(SubSeq(q, n + 1, Len(q))) = Len(q) - n
           /\ \A i \in 1..(Len(q) - n) : SubSeq(q, n + 1, Len(q))[i] = q[n + i]
  OBVIOUS

LEMMA ConcatOf ==
    ASSUME NEW q \in Seq(Action), NEW r \in Seq(Action)
    PROVE  /\ q \o r \in Seq(Action) /\ Len(q \o r) = Len(q) + Len(r)
           /\ \A i \in 1..Len(q) : (q \o r)[i] = q[i]
           /\ \A i \in Len(q)+1..Len(q)+Len(r) : (q \o r)[i] = r[i - Len(q)]
  OBVIOUS

(* What a drop leaves is a suffix without the chunk.                       *)
LEMMA DropLeaves ==
    ASSUME NEW a \in Action, NEW rest \in Seq(Action), Sorted(rest),
           \A i \in 1..Len(rest) : Before(a, rest[i]),
           DropChunk(rest, a.seq)
    PROVE  /\ \E n \in 0..Len(rest) :
                /\ Len(queue') = Len(rest) - n
                /\ \A i \in 1..Len(queue') : queue'[i] = rest[n + i]
           /\ queue' \in Seq(Action)
           /\ \A i \in 1..Len(queue') : queue'[i].seq # a.seq
  <1>1. PICK n \in 0..Len(rest) :
          /\ \A i \in 1..n : rest[i].seq = a.seq
          /\ n < Len(rest) => rest[n + 1].seq # a.seq
          /\ queue' = SubSeq(rest, n + 1, Len(rest))
    BY DEF DropChunk
  <1>2. /\ queue' \in Seq(Action) /\ Len(queue') = Len(rest) - n
        /\ \A i \in 1..Len(queue') : queue'[i] = rest[n + i]
    BY <1>1, SuffixOf
  <1>3. ASSUME NEW i \in 1..Len(queue') PROVE queue'[i].seq # a.seq
    <2>1. n < Len(rest) /\ n + 1 \in 1..Len(rest) /\ n + i \in 1..Len(rest) /\ queue'[i] = rest[n + i]
      BY <1>2
    <2>2. rest[n + 1] \in Action /\ rest[n + i] \in Action
      BY <2>1
    <2>3. a.seq < rest[n + 1].seq
      BY <1>1, <2>1, <2>2 DEF Before, Action
    <2>4. rest[n + 1].seq = rest[n + i].seq \/ rest[n + 1].seq < rest[n + i].seq
      <3>1. CASE i = 1
        BY <3>1
      <3>2. CASE i # 1
        <4>1. n + 1 < n + i
          BY <1>2, <3>2
        <4>2. Before(rest[n + 1], rest[n + i])
          BY <2>1, <4>1 DEF Sorted
        <4> QED BY <4>2 DEF Before
      <3> QED BY <3>1, <3>2
    <2>5. a.seq \in Nat /\ rest[n + 1].seq \in Nat /\ rest[n + i].seq \in Nat
      BY <2>2 DEF Action
    <2>6. a.seq < rest[n + i].seq
      BY <2>3, <2>4, <2>5
    <2> QED BY <2>1, <2>5, <2>6
  <1> QED BY <1>2, <1>3

LEMMA SuffixSorted ==
    ASSUME NEW q \in Seq(Action), NEW s \in Seq(Action), Sorted(q), NEW n \in 0..Len(q),
           Len(s) = Len(q) - n, \A i \in 1..Len(s) : s[i] = q[n + i]
    PROVE  Sorted(s)
  <1> SUFFICES ASSUME NEW i \in 1..Len(s), NEW j \in 1..Len(s), i < j PROVE Before(s[i], s[j])
    BY DEF Sorted
  <1>1. n + i \in 1..Len(q) /\ n + j \in 1..Len(q) /\ n + i < n + j
    OBVIOUS
  <1> QED BY <1>1 DEF Sorted

-----------------------------------------------------------------------------
(* The steps that touch the queue *)

Sound == CallInFlight /\ QueueSound /\ HeadSound

QueueTypes ==
    /\ queue \in Seq(Action) /\ head \in SUBSET Action
    /\ size \in 0..Chunk /\ pending \in SUBSET [seq : Nat, since : Nat]
    /\ nextSeq \in Nat /\ lastSeq \in Nat \cup {-1} /\ now \in Nat

LEMMA CycleStep ==
    ASSUME IInv, Cycle
    PROVE  Sound' /\ QueueTypes' /\ fault' \notin {"order", "bound"}
  <1>0. QueueTypes /\ Sound /\ ContractSuffices /\ head = {} /\ pc' # "apply"
    BY DEF IInv, TypeOK, QueueTypes, Sound, HeadSound, Cycle, Arrives, Goes, Fails
  <1>1. CASE UNCHANGED flow /\ UNCHANGED now /\ fault' \in {fault, "transport"}
    BY <1>0, <1>1 DEF flow, QueueTypes, Sound, CallInFlight, QueueSound, HeadSound, ContractSuffices
  <1>2. ASSUME NEW p \in pending, Arrives(p), UNCHANGED <<head, nextSeq, now>>
        PROVE  Sound' /\ QueueTypes' /\ fault' \notin {"order", "bound"}
    <2>1. /\ p.seq \in Nat /\ p.since \in Nat /\ lastSeq < p.seq /\ p.seq < nextSeq
          /\ Len(queue) <= LowWatermark
      BY <1>0, <1>2 DEF Arrives, Sound, CallInFlight, QueueTypes
    <2>2. Len(queue) + size <= MaxQueue
      BY <1>0, <2>1, Watermark, LoopAssumption DEF QueueTypes
    <2>3. thread' = "idle" /\ pending' = {} /\ size' = size
      BY <1>2 DEF Arrives
    <2>4. CASE UNCHANGED <<queue, lastSeq>> /\ Goes("pop")
      BY <1>0, <1>2, <2>3, <2>4 DEF Sound, CallInFlight, QueueSound, HeadSound, QueueTypes,
         ContractSuffices, Goes
    <2>5. CASE /\ queue' = queue \o [i \in 1..size |->
                                  [seq |-> p.seq, index |-> i, captured |-> p.since]]
               /\ lastSeq' = p.seq /\ Goes("pop")
      <3> DEFINE new == [i \in 1..size |-> [seq |-> p.seq, index |-> i, captured |-> p.since]]
      <3>1. new \in Seq(Action) /\ Len(new) = size
        BY <1>0, <2>1, LoopAssumption DEF Action, QueueTypes
      <3>2. \A i \in 1..size : new[i].seq = p.seq /\ new[i].index = i
        OBVIOUS
      <3>3. size \in Nat /\ Len(queue) \in Nat
        BY <1>0, LoopAssumption DEF QueueTypes
      <3> HIDE DEF new
      <3>4. /\ queue' \in Seq(Action) /\ Len(queue') = Len(queue) + size
            /\ \A i \in 1..Len(queue) : queue'[i] = queue[i]
            /\ \A i \in Len(queue)+1..Len(queue)+size : queue'[i] = new[i - Len(queue)]
        <4>1. queue' = queue \o new
          BY <2>5 DEF new
        <4>2. queue \in Seq(Action)
          BY <1>0 DEF QueueTypes
        <4> QED BY <3>1, <4>1, <4>2, ConcatOf
      <3>5. ASSUME NEW i \in 1..Len(queue'), i \notin 1..Len(queue)
            PROVE  queue'[i].seq = p.seq /\ queue'[i].index = i - Len(queue)
        <4>1. i \in Len(queue)+1..Len(queue)+size /\ i - Len(queue) \in 1..size
          BY <3>3, <3>4, <3>5
        <4> QED BY <3>2, <3>4, <4>1
      <3>6. ASSUME NEW i \in 1..Len(queue') PROVE queue'[i].seq <= p.seq
        <4>1. CASE i \in 1..Len(queue)
          <5>1. queue[i] \in Action /\ queue[i].seq <= lastSeq
            BY <1>0, <4>1 DEF Sound, QueueSound, QueueTypes
          <5>2. queue[i].seq \in Nat /\ lastSeq \in Int
            BY <1>0, <5>1 DEF Action, QueueTypes
          <5>3. queue[i].seq <= p.seq
            BY <2>1, <5>1, <5>2
          <5> QED BY <3>4, <4>1, <5>3
        <4>2. CASE i \notin 1..Len(queue)
          BY <2>1, <3>5, <4>2
        <4> QED BY <4>1, <4>2
      <3>7. ASSUME NEW i \in 1..Len(queue'), NEW j \in 1..Len(queue'), i < j
            PROVE  Before(queue'[i], queue'[j])
        <4>1. CASE j \in 1..Len(queue)
          <5>1. i \in 1..Len(queue)
            BY <3>3, <3>4, <3>7, <4>1
          <5> QED BY <1>0, <3>4, <3>7, <4>1, <5>1 DEF Sound, QueueSound, Sorted
        <4>2. CASE j \notin 1..Len(queue) /\ i \in 1..Len(queue)
          <5>1. queue[i] \in Action /\ queue[i].seq <= lastSeq
            BY <1>0, <4>2 DEF Sound, QueueSound, QueueTypes
          <5>2. queue[i].seq < p.seq
            BY <1>0, <2>1, <5>1 DEF Action, QueueTypes
          <5> QED BY <3>4, <3>5, <4>2, <5>2 DEF Before
        <4>3. CASE j \notin 1..Len(queue) /\ i \notin 1..Len(queue)
          <5>1. queue'[i].seq = queue'[j].seq /\ queue'[i].index = i - Len(queue)
                /\ queue'[j].index = j - Len(queue)
            BY <3>5, <4>3
          <5>2. i - Len(queue) < j - Len(queue)
            BY <3>3, <3>4, <3>7
          <5> QED BY <5>1, <5>2 DEF Before
        <4> QED BY <4>1, <4>2, <4>3
      <3>8. QueueSound'
        BY <2>2, <2>5, <3>4, <3>6, <3>7 DEF QueueSound, Sorted
      <3>9. CallInFlight' /\ HeadSound'
        BY <1>0, <1>2, <2>1, <2>3, <2>5 DEF CallInFlight, HeadSound
      <3>10. QueueTypes'
        BY <1>0, <1>2, <2>1, <2>3, <2>5, <3>4 DEF QueueTypes
      <3>11. fault' \notin {"order", "bound"}
        BY <1>0, <2>5 DEF Goes, ContractSuffices
      <3> QED BY <3>8, <3>9, <3>10, <3>11 DEF Sound
    <2>6. p.seq > lastSeq /\ ~(p.seq <= lastSeq) /\ ~(Len(queue) + size > MaxQueue)
      BY <1>0, <2>1, <2>2, LoopAssumption DEF QueueTypes
    <2> QED BY <1>2, <2>4, <2>5, <2>6 DEF Arrives
  <1>3. CASE (\E p \in pending : Arrives(p)) /\ UNCHANGED <<head, nextSeq>>
    <2>1. PICK p \in pending : Arrives(p)
      BY <1>3
    <2>2. UNCHANGED <<head, nextSeq, now>>
      BY <1>3 DEF Cycle
    <2> QED BY <1>2, <2>1, <2>2
  <1>4. CASE UNCHANGED flow /\ (Goes("pop") \/ Fails("transport"))
    <2>1. fault' \in {fault, "transport"} /\ UNCHANGED now
      BY <1>4 DEF Goes, Fails, Cycle
    <2> QED BY <1>1, <1>4, <2>1
  <1>5. \/ (\E p \in pending : Arrives(p)) /\ UNCHANGED <<head, nextSeq>>
        \/ (UNCHANGED flow /\ (Goes("pop") \/ Fails("transport")))
    BY Zenon DEF Cycle
  <1> QED BY <1>3, <1>4, <1>5

LEMMA PopStep ==
    ASSUME IInv, Pop
    PROVE  Sound' /\ QueueTypes'
  <1>0. QueueTypes /\ Sound /\ head = {} /\ LowWatermark \in Int
    BY Watermark DEF IInv, TypeOK, QueueTypes, Sound, HeadSound, Pop
  <1>u. UNCHANGED <<thread, size, pending, nextSeq, lastSeq, now>>
    BY DEF Pop
  <1>1. CASE UNCHANGED <<queue, head>> /\ Goes("request")
    BY <1>0, <1>u, <1>1 DEF Sound, CallInFlight, QueueSound, HeadSound, QueueTypes, Goes
  <1>2. CASE queue # << >>
    <2>1. /\ Head(queue) \in Action /\ Head(queue) = queue[1]
          /\ Tail(queue) \in Seq(Action) /\ Len(Tail(queue)) = Len(queue) - 1
          /\ \A i \in 1..Len(Tail(queue)) : Tail(queue)[i] = queue[i + 1]
          /\ Len(queue) \in Nat
      BY <1>0, <1>2, TailOf DEF QueueTypes
    <2>2. Sorted(Tail(queue))
      <3>1. 1 \in 0..Len(queue) /\ \A i \in 1..Len(Tail(queue)) : Tail(queue)[i] = queue[1 + i]
        BY <1>2, <2>1
      <3> QED BY <1>0, <2>1, <3>1, SuffixSorted DEF Sound, QueueSound, QueueTypes
    <2>3. \A i \in 1..Len(Tail(queue)) : /\ Before(Head(queue), Tail(queue)[i])
                                         /\ Tail(queue)[i].seq <= lastSeq
      <3> SUFFICES ASSUME NEW i \in 1..Len(Tail(queue))
                   PROVE  Before(Head(queue), Tail(queue)[i]) /\ Tail(queue)[i].seq <= lastSeq
        OBVIOUS
      <3>1. 1 \in 1..Len(queue) /\ i + 1 \in 1..Len(queue) /\ 1 < i + 1
        BY <2>1
      <3> QED BY <1>0, <2>1, <3>1 DEF Sound, QueueSound, Sorted
    <2>4. CASE queue' = Tail(queue) /\ head' = {Head(queue)} /\ Goes("apply")
      <3>1. Head(queue).seq <= lastSeq
        BY <1>0, <1>2, <2>1 DEF Sound, QueueSound
      <3>2. QueueSound'
        <4>1. Len(queue') <= MaxQueue
          BY <1>0, <2>1, <2>4, LoopAssumption DEF Sound, QueueSound
        <4>2. Sorted(queue') /\ \A i \in 1..Len(queue') : queue'[i].seq <= lastSeq
          BY <2>2, <2>3, <2>4
        <4> QED BY <1>u, <4>1, <4>2 DEF QueueSound, Sorted
      <3>3. CallInFlight'
        <4>1. Len(queue') <= Len(queue) /\ Len(queue') \in Nat
          BY <2>1, <2>4
        <4> QED BY <1>0, <1>u, <2>1, <4>1 DEF Sound, CallInFlight
      <3> QED BY <1>0, <1>u, <2>1, <2>3, <2>4, <3>1, <3>2, <3>3 DEF Sound, HeadSound, QueueTypes, Goes
    <2>5. CASE DropChunk(Tail(queue), Head(queue).seq) /\ Goes("request") /\ UNCHANGED head
      <3>1. PICK n \in 0..Len(Tail(queue)) :
              /\ queue' \in Seq(Action)
              /\ Len(queue') = Len(Tail(queue)) - n
              /\ \A i \in 1..Len(queue') : queue'[i] = Tail(queue)[n + i]
        BY <2>1, <2>2, <2>3, <2>5, DropLeaves
      <3>2. Sorted(queue')
        BY <2>1, <2>2, <3>1, SuffixSorted
      <3>3. \A i \in 1..Len(queue') : queue'[i].seq <= lastSeq
        <4> SUFFICES ASSUME NEW i \in 1..Len(queue') PROVE queue'[i].seq <= lastSeq
          OBVIOUS
        <4>1. n + i \in 1..Len(Tail(queue))
          BY <2>1, <3>1
        <4> QED BY <2>3, <3>1, <4>1
      <3>4. Len(queue') \in Nat /\ Len(queue') <= Len(queue)
        BY <2>1, <3>1
      <3>5. QueueSound' /\ CallInFlight'
        BY <1>0, <1>u, <2>1, <3>2, <3>3, <3>4, LoopAssumption DEF Sound, QueueSound, CallInFlight, Sorted
      <3> QED BY <1>0, <1>u, <2>5, <3>1, <3>5 DEF Sound, HeadSound, QueueTypes, Goes
    <2> QED BY <1>1, <1>2, <2>4, <2>5 DEF Pop
  <1> QED BY <1>1, <1>2 DEF Pop

LEMMA ApplyStep ==
    ASSUME IInv, Apply
    PROVE  Sound' /\ QueueTypes'
  <1>0. QueueTypes /\ Sound /\ LowWatermark \in Int
    BY Watermark DEF IInv, TypeOK, QueueTypes, Sound
  <1>u. UNCHANGED <<thread, size, pending, nextSeq, lastSeq, now>> /\ head' = {} /\ pc' # "apply"
    BY DEF Apply, Goes, Fails
  <1>1. CASE UNCHANGED queue
    BY <1>0, <1>u, <1>1 DEF Sound, CallInFlight, QueueSound, HeadSound, QueueTypes
  <1>2. ASSUME NEW a \in head, DropChunk(queue, a.seq) PROVE Sound' /\ QueueTypes'
    <2>1. a \in Action /\ \A i \in 1..Len(queue) : Before(a, queue[i])
      BY <1>0, <1>2 DEF Sound, HeadSound, QueueTypes, Apply
    <2>2. PICK n \in 0..Len(queue) :
            /\ queue' \in Seq(Action)
            /\ Len(queue') = Len(queue) - n
            /\ \A i \in 1..Len(queue') : queue'[i] = queue[n + i]
      BY <1>0, <1>2, <2>1, DropLeaves DEF Sound, QueueSound, QueueTypes
    <2>3. Sorted(queue')
      BY <1>0, <2>2, SuffixSorted DEF Sound, QueueSound, QueueTypes
    <2>4. Len(queue) \in Nat /\ Len(queue') \in Nat /\ Len(queue') <= Len(queue)
      BY <1>0, <2>2 DEF QueueTypes
    <2>5. \A i \in 1..Len(queue') : queue'[i].seq <= lastSeq
      <3> SUFFICES ASSUME NEW i \in 1..Len(queue') PROVE queue'[i].seq <= lastSeq
        OBVIOUS
      <3>1. n + i \in 1..Len(queue)
        BY <2>2, <2>4
      <3> QED BY <1>0, <2>2, <3>1 DEF Sound, QueueSound
    <2>6. QueueSound' /\ CallInFlight'
      BY <1>0, <1>u, <2>3, <2>4, <2>5, LoopAssumption DEF Sound, QueueSound, CallInFlight, Sorted
    <2> QED BY <1>0, <1>u, <2>2, <2>6 DEF Sound, HeadSound, QueueTypes
  <1> QED BY <1>1, <1>2 DEF Apply

LEMMA RequestStep ==
    ASSUME IInv, Request
    PROVE  Sound' /\ QueueTypes'
  <1>0. QueueTypes /\ Sound /\ head = {} /\ pc' # "apply" /\ UNCHANGED now
    BY DEF IInv, TypeOK, QueueTypes, Sound, HeadSound, Request, Goes, Fails
  <1>1. CASE UNCHANGED flow
    BY <1>0, <1>1 DEF Sound, CallInFlight, QueueSound, HeadSound, QueueTypes, flow
  <1>2. CASE /\ thread = "idle" /\ Len(queue) <= LowWatermark
             /\ thread' = "busy"
             /\ pending' = {[seq |-> nextSeq, since |-> now]}
             /\ nextSeq' = NextSequence
             /\ UNCHANGED <<queue, head, size, lastSeq>>
    <2>1. nextSeq \in Nat /\ nextSeq < nextSeq' /\ nextSeq' \in Nat /\ lastSeq < nextSeq'
      BY <1>0, <1>2 DEF NextSequence, QueueTypes, Sound, CallInFlight
    <2>2. CallInFlight'
      BY <1>0, <1>2, <2>1 DEF CallInFlight, Sound
    <2>3. QueueSound' /\ HeadSound'
      BY <1>0, <1>2 DEF Sound, QueueSound, HeadSound
    <2> QED BY <1>0, <1>2, <2>1, <2>2, <2>3 DEF Sound, QueueTypes
  <1> QED BY <1>1, <1>2 DEF Request

LEMMA OtherStep ==
    ASSUME IInv, Leave \/ Observe \/ Wake \/ Settle \/ Release \/ Stop \/ Cancel \/ Answer \/ Tick
    PROVE  Sound' /\ QueueTypes'
  <1>0. QueueTypes /\ Sound /\ LowWatermark \in Int
    BY Watermark DEF IInv, TypeOK, QueueTypes, Sound
  <1>1. CASE Leave \/ Observe \/ Wake \/ Release \/ Stop \/ Cancel
    <2>1. UNCHANGED <<flow, now>> /\ head = {} /\ pc' # "apply"
      BY <1>0, <1>1 DEF Leave, Observe, Wake, Release, Stop, Cancel, Goes, Fails, Sound, HeadSound
    <2> QED BY <1>0, <2>1 DEF flow, Sound, CallInFlight, QueueSound, HeadSound, QueueTypes
  <1>2. CASE Settle
    <2>1. queue' = << >> /\ head' = {} /\ pc' # "apply" /\ UNCHANGED <<thread, size, pending, nextSeq, lastSeq, now>>
      BY <1>2 DEF Settle, Goes
    <2>2. queue' \in Seq(Action) /\ Len(queue') = 0 /\ (thread # "idle" => 0 <= LowWatermark)
      BY <1>0, <2>1 DEF Sound, CallInFlight, QueueTypes
    <2> QED BY <1>0, <2>1, <2>2, LoopAssumption DEF Sound, CallInFlight, QueueSound, Sorted, HeadSound, QueueTypes
  <1>3. CASE Answer
    <2>1. size' \in 0..Chunk
      BY <1>0, <1>3, LoopAssumption DEF Answer, QueueTypes
    <2>2. /\ UNCHANGED <<queue, head, pending, nextSeq, lastSeq, now, pc>>
          /\ thread # "idle" /\ thread' # "idle"
      BY <1>3 DEF Answer
    <2> QED BY <1>0, <2>1, <2>2 DEF Sound, CallInFlight, QueueSound, HeadSound, QueueTypes
  <1>4. CASE Tick
    BY <1>0, <1>4 DEF Tick, flow, Sound, CallInFlight, QueueSound, HeadSound, QueueTypes
  <1> QED BY <1>1, <1>2, <1>3, <1>4

-----------------------------------------------------------------------------
(* The invariant *)

LEMMA InitIInv == Init => IInv
  <1> SUFFICES ASSUME Init PROVE IInv
    OBVIOUS
  <1>1. queue = << >> /\ queue \in Seq(Action) /\ Len(queue) = 0
    BY DEF Init
  <1>2. TypeOK
    <2>1. 0 \in 0..Chunk /\ 0 \in 0..MaxSteps
      BY LoopAssumption
    <2> QED BY <1>1, <2>1 DEF Init, TypeOK, Pcs
  <1>3. CallInFlight /\ HeadSound
    BY DEF Init, CallInFlight, HeadSound
  <1>4. QueueSound
    BY <1>1, LoopAssumption DEF QueueSound, Sorted
  <1>5. StopsInTime
    BY LoopAssumption DEF Init, StopsInTime
  <1>6. ContractSuffices /\ CallsSettleFirst
    BY DEF Init, ContractSuffices, CallsSettleFirst
  <1> QED BY <1>2, <1>3, <1>4, <1>5, <1>6 DEF IInv

LEMMA StopStep ==
    ASSUME IInv, Next
    PROVE  StopsInTime' /\ steps' \in 0..MaxSteps
  <1>0. StopsInTime /\ steps \in 0..MaxSteps /\ MaxSteps \in Nat /\ steps \in Nat
    BY LoopAssumption DEF IInv, TypeOK
  <1>1. CASE Leave \/ Cycle \/ Pop
    <2>1. UNCHANGED steps
      BY <1>1 DEF Leave, Cycle, Arrives, Pop, Goes, Fails
    <2>2. pc' \in {"pop", "apply"} => ~stop'
      <3>1. pc = "pop" => ~stop
        BY <1>0 DEF StopsInTime
      <3> QED BY <1>1, <3>1 DEF Leave, Cycle, Arrives, Pop, Goes, Fails
    <2>3. stop => stop'
      BY <1>1 DEF Leave, Cycle, Arrives, Pop, Goes, Fails
    <2>4. pc' \in {"settle", "close", "done", "blocked"} => stop'
      BY <1>1 DEF Leave, Cycle, Arrives, Pop, Goes, Fails
    <2>5. pc # "observe"
      BY <1>1 DEF Leave, Cycle, Pop
    <2>6. steps' >= MaxSteps => stop'
      BY <1>0, <2>1, <2>3, <2>5 DEF StopsInTime
    <2> QED BY <1>0, <2>1, <2>2, <2>4, <2>6 DEF StopsInTime
  <1>2. CASE Apply
    <2>1. steps < MaxSteps /\ ~stop
      BY <1>0, <1>2 DEF Apply, StopsInTime
    <2> QED BY <1>0, <1>2, <2>1 DEF Apply, StopsInTime, Goes, Fails
  <1>3. CASE Observe \/ Request \/ Wake
    BY <1>0, <1>3 DEF Observe, Request, Wake, StopsInTime, Goes, Fails
  <1>4. CASE Settle \/ Release \/ Stop \/ Cancel \/ Answer \/ Tick
    BY <1>0, <1>4 DEF Settle, Release, Stop, Cancel, Answer, Tick, StopsInTime, Goes
  <1> QED BY <1>1, <1>2, <1>3, <1>4 DEF Next, Runs

LEMMA SettledStep ==
    ASSUME IInv, Next
    PROVE  CallsSettleFirst'
  <1> USE DEF CallsSettleFirst
  <1>1. CASE Leave \/ Cycle \/ Pop \/ Apply
    BY <1>1 DEF IInv, Leave, Cycle, Arrives, Pop, Apply, Goes, Fails
  <1>2. CASE Observe \/ Request \/ Wake \/ Settle \/ Release
    BY <1>2 DEF IInv, Observe, Request, Wake, Settle, Release, Goes, Fails, flow
  <1>3. CASE Stop \/ Cancel \/ Answer \/ Tick
    BY <1>3 DEF IInv, Stop, Cancel, Answer, Tick, flow
  <1> QED BY <1>1, <1>2, <1>3 DEF Next, Runs

LEMMA DeadlineNat ==
    ASSUME deadline \in Nat, cycleStart \in Nat
    PROVE  NextDeadline \in Nat
  <1>1. deadline + Interval \in Nat
    BY LoopAssumption
  <1>2. CASE deadline + Interval <= cycleStart
    <2>1. cycleStart - (deadline + Interval) \in Nat
      BY <1>1, <1>2
    <2>2. (cycleStart - (deadline + Interval)) \div Interval \in Nat
      BY <2>1, LoopAssumption
    <2>3. ((cycleStart - (deadline + Interval)) \div Interval + 1) * Interval \in Nat
      BY <2>2, LoopAssumption
    <2> QED BY <1>1, <2>3 DEF NextDeadline
  <1> QED BY <1>1, <1>2 DEF NextDeadline

LEMMA OtherTypeStep ==
    ASSUME IInv, Next
    PROVE  /\ pc' \in Pcs /\ stop' \in BOOLEAN
           /\ thread' \in {"idle", "busy", "answered", "failed"}
           /\ cycleStart' \in Nat /\ deadline' \in Nat /\ dropped' \in Nat
           /\ fault' \in {"none", "transport", "order", "bound", "driver", "observer"}
  <1>0. /\ pc \in Pcs /\ stop \in BOOLEAN
        /\ thread \in {"idle", "busy", "answered", "failed"}
        /\ now \in Nat /\ cycleStart \in Nat /\ deadline \in Nat /\ dropped \in Nat
        /\ fault \in {"none", "transport", "order", "bound", "driver", "observer"}
    BY DEF IInv, TypeOK
  <1> USE DEF Pcs, Goes, Fails
  <1>1. CASE Leave \/ Wake \/ Settle \/ Release \/ Stop \/ Cancel \/ Answer \/ Tick
    BY <1>0, <1>1 DEF Leave, Wake, Settle, Release, Stop, Cancel, Answer, Tick, flow, pace
  <1>2. CASE Cycle
    <2>1. dropped' = dropped \/ dropped' = dropped + 1
      BY <1>2 DEF Cycle, Arrives, flow
    <2>2. thread' \in {"idle", thread} /\ pc' \in Pcs /\ cycleStart' = now /\ UNCHANGED deadline
      BY <1>2 DEF Cycle, Arrives, flow
    <2>3. stop' \in {stop, TRUE} /\ fault' \in {fault, "order", "bound", "transport"}
      BY <1>2 DEF Cycle, Arrives
    <2>4. dropped' \in Nat
      BY <1>0, <2>1
    <2> QED BY <1>0, <2>2, <2>3, <2>4, Zenon
  <1>3. CASE Pop \/ Apply
    <2>1. dropped' = dropped \/ dropped' = dropped + 1
      BY <1>3 DEF Pop, Apply, DropChunk
    <2>2. pc' \in Pcs /\ UNCHANGED <<thread, cycleStart, deadline>>
      BY <1>3 DEF Pop, Apply, pace
    <2>3. stop' \in {stop, TRUE} /\ fault' \in {fault, "driver"}
      BY <1>3 DEF Pop, Apply
    <2>4. dropped' \in Nat
      BY <1>0, <2>1
    <2> QED BY <1>0, <2>2, <2>3, <2>4, Zenon
  <1>4. CASE Observe
    BY <1>0, <1>4 DEF Observe, flow, pace
  <1>5. CASE Request
    <2>1. NextDeadline \in Nat
      BY <1>0, DeadlineNat
    <2> QED BY <1>0, <1>5, <2>1 DEF Request, flow
  <1> QED BY <1>1, <1>2, <1>3, <1>4, <1>5 DEF Next, Runs

LEMMA FaultStep ==
    ASSUME IInv, Next
    PROVE  ContractSuffices'
  <1>1. CASE Cycle
    BY <1>1, CycleStep DEF ContractSuffices
  <1>2. CASE ~Cycle
    BY <1>2 DEF Next, Runs, IInv, ContractSuffices, Leave, Pop, Apply, Observe, Request, Wake, Settle,
       Release, Stop, Cancel, Answer, Tick, Goes, Fails
  <1> QED BY <1>1, <1>2

LEMMA InductiveStep == IInv /\ [Next]_vars => IInv'
  <1>1. ASSUME IInv, Next PROVE IInv'
    <2>1. Sound' /\ QueueTypes'
      BY <1>1, CycleStep, PopStep, ApplyStep, RequestStep, OtherStep DEF Next, Runs
    <2>2. TypeOK'
      BY <1>1, <2>1, OtherTypeStep, StopStep DEF QueueTypes, TypeOK
    <2> QED BY <1>1, <2>1, <2>2, StopStep, SettledStep, FaultStep DEF IInv, Sound
  <1>2. ASSUME IInv, UNCHANGED vars PROVE IInv'
    BY <1>2 DEF vars, flow, pace, IInv, TypeOK, CallInFlight, QueueSound, HeadSound, StopsInTime,
       ContractSuffices, CallsSettleFirst
  <1> QED BY <1>1, <1>2

THEOREM Inductive == Spec => []IInv
  BY InitIInv, InductiveStep, PTL DEF Spec

(* All parts of the loop's state stay of their types, the step count       *)
(* within its limit.                                                       *)
THEOREM TypeCorrect == Spec => []TypeOK
  <1>1. IInv => TypeOK
    BY DEF IInv
  <1> QED BY <1>1, Inductive, PTL

(* No chunk that keeps to the contract ends the loop (ContractSuffices).   *)
THEOREM ContractIsEnough == Spec => []ContractSuffices
  <1>1. IInv => ContractSuffices
    BY DEF IInv
  <1> QED BY <1>1, Inductive, PTL

(* The queue is in order, and before all that is under way (QueueInOrder). *)
THEOREM OrderKept == Spec => []QueueInOrder
  <1>1. IInv => QueueInOrder
    <2> SUFFICES ASSUME IInv PROVE QueueInOrder
      OBVIOUS
    <2>1. ASSUME NEW p \in pending, NEW i \in 1..Len(queue) PROVE queue[i].seq < p.seq
      <3>1. queue[i] \in Action /\ queue[i].seq <= lastSeq /\ p.seq \in Nat /\ lastSeq \in Int /\ lastSeq < p.seq
        BY DEF IInv, TypeOK, CallInFlight, QueueSound
      <3>2. queue[i].seq \in Nat
        BY <3>1 DEF Action
      <3> QED BY <3>1, <3>2
    <2>2. ASSUME NEW a \in head, NEW i \in 1..Len(queue) PROVE Before(a, queue[i])
      BY DEF IInv, HeadSound
    <2> QED BY <2>1, <2>2 DEF IInv, QueueSound, Sorted, QueueInOrder
  <1> QED BY <1>1, Inductive, PTL

(* No transport is closed under a call in flight (CallsSettleFirst).       *)
THEOREM SettledBeforeClose == Spec => []CallsSettleFirst
  <1>1. IInv => CallsSettleFirst
    BY DEF IInv
  <1> QED BY <1>1, Inductive, PTL

(* The arm moves only on fresh actions, before any stop, within the limit  *)
(* (MovesOnFreshActions).                                                  *)
THEOREM FreshMoves == Spec => MovesOnFreshActions
  <1> DEFINE Fresh == steps' > steps => /\ \A a \in head : now - a.captured <= MaxAge
                                        /\ ~stop
                                        /\ steps < MaxSteps
  <1>1. ASSUME IInv, Next PROVE Fresh
    <2>0. steps \in Nat /\ MaxSteps \in Nat
      BY <1>1, LoopAssumption DEF IInv, TypeOK
    <2>1. CASE ~Apply
      <3>1. steps' = steps
        BY <1>1, <2>1 DEF Next, Runs, Leave, Cycle, Pop, Observe, Request, Wake, Settle, Release, Stop,
           Cancel, Answer, Tick
      <3> QED BY <2>0, <3>1
    <2>2. CASE Apply
      <3>1. ~stop /\ steps < MaxSteps
        BY <1>1, <2>0, <2>2 DEF Apply, IInv, StopsInTime
      <3>2. ASSUME steps' > steps, NEW a \in head PROVE now - a.captured <= MaxAge
        <4>1. PICK b \in head : ~TooOld(b.captured)
          BY <2>0, <2>2, <3>2 DEF Apply
        <4>2. a = b
          BY <1>1, <2>2, <4>1 DEF Apply, IInv, HeadSound
        <4>3. a \in Action /\ now \in Nat
          BY <1>1, <3>2 DEF IInv, TypeOK
        <4> QED BY <4>1, <4>2, <4>3, LoopAssumption DEF TooOld, Action
      <3> QED BY <3>1, <3>2
    <2> QED BY <2>1, <2>2
  <1>2. ASSUME UNCHANGED vars, IInv PROVE [Fresh]_vars
    BY <1>2
  <1>3. IInv /\ [Next]_vars => [Fresh]_vars
    BY <1>1, <1>2
  <1> QED BY <1>3, Inductive, PTL DEF Spec, MovesOnFreshActions

-----------------------------------------------------------------------------
(* Pacing and overaged chunks *)

(* A cycle starts no earlier than it is due.                               *)
Paced ==
    /\ pc \in {"pop", "apply", "observe", "request"} => deadline <= cycleStart
    /\ pc = "top" /\ ~stop => deadline <= now
    /\ NoBursts

LEMMA DivisionBounds ==
    ASSUME NEW x \in Nat, NEW d \in Nat \ {0}
    PROVE  x < (x \div d + 1) * d /\ (x \div d + 1) * d <= x + d
  <1>1. x \div d \in Nat
    OBVIOUS
  <1>2. d * (x \div d) <= x
    OBVIOUS
  <1>3. x < d * (x \div d) + d
    OBVIOUS
  <1>4. (x \div d + 1) * d = d * (x \div d) + d /\ d * (x \div d) \in Int
    BY <1>1
  <1> QED BY <1>2, <1>3, <1>4

LEMMA NextDue ==
    ASSUME deadline \in Nat, cycleStart \in Nat, deadline <= cycleStart
    PROVE  cycleStart < NextDeadline /\ NextDeadline <= cycleStart + Interval
  <1>1. deadline + Interval \in Nat /\ deadline + Interval <= cycleStart + Interval /\ Interval \in Nat \ {0}
    BY LoopAssumption
  <1>2. CASE deadline + Interval <= cycleStart
    <2> DEFINE x == cycleStart - (deadline + Interval)
               late == (x \div Interval + 1) * Interval
    <2>1. x \in Nat
      BY <1>1, <1>2
    <2>2. x \div Interval \in Nat
      BY <1>1, <2>1
    <2>3. late \in Nat
      BY <1>1, <2>2
    <2>4. x < late /\ late <= x + Interval
      BY <1>1, <2>1, DivisionBounds
    <2>5. NextDeadline = deadline + Interval + late
      BY <1>2 DEF NextDeadline
    <2> HIDE DEF late
    <2> QED BY <1>1, <2>3, <2>4, <2>5
  <1> QED BY <1>1, <1>2 DEF NextDeadline

LEMMA PacedStep ==
    ASSUME IInv, Paced, Next
    PROVE  Paced'
  <1>0. deadline \in Nat /\ cycleStart \in Nat /\ now \in Nat
    BY DEF IInv, TypeOK
  <1> USE DEF Paced, NoBursts, Goes, Fails
  <1>1. CASE Cycle
    BY <1>0, <1>1 DEF Cycle, Arrives
  <1>2. CASE Pop \/ Apply \/ Observe
    BY <1>0, <1>2 DEF Pop, Apply, Observe, pace
  <1>3. CASE Request
    <2>1. deadline <= cycleStart
      BY <1>3 DEF Request
    <2>2. cycleStart < NextDeadline /\ NextDeadline <= cycleStart + Interval
      BY <1>0, <2>1, NextDue
    <2>3. UNCHANGED <<now, cycleStart>> /\ pc' \in {"wait", "settle"} /\ (pc' = "wait" => deadline' = NextDeadline)
      BY <1>3 DEF Request
    <2> QED BY <2>2, <2>3
  <1>4. CASE Leave \/ Wake \/ Settle \/ Release \/ Stop \/ Cancel
    BY <1>0, <1>4 DEF Leave, Wake, Settle, Release, Stop, Cancel, pace
  <1>5. CASE Answer \/ Tick
    BY <1>0, <1>5 DEF Answer, Tick, pace
  <1> QED BY <1>1, <1>2, <1>3, <1>4, <1>5 DEF Next, Runs

(* Missed cycles are skipped, never caught up (NoBursts).                  *)
THEOREM NoCatchingUp == Spec => []NoBursts
  <1>1. Init => Paced
    BY LoopAssumption DEF Init, Paced, NoBursts
  <1>2. IInv /\ Paced /\ [Next]_vars => Paced'
    <2>1. ASSUME Paced, UNCHANGED vars PROVE Paced'
      BY <2>1 DEF Paced, NoBursts, vars, flow, pace
    <2> QED BY <2>1, PacedStep
  <1>3. Paced => NoBursts
    BY DEF Paced
  <1> QED BY <1>1, <1>2, <1>3, Inductive, PTL DEF Spec

(* What is dropped for its age takes the rest of its chunk along           *)
(* (DropsWholeChunks).                                                     *)
THEOREM WholeChunks == Spec => DropsWholeChunks
  <1> DEFINE Popped == IF pc = "apply" THEN head ELSE {Head(queue)}
             Whole == dropped' > dropped /\ pc # "top" =>
                        \A a \in Popped : \A i \in 1..Len(queue') : queue'[i].seq # a.seq
  <1>1. ASSUME IInv, Next PROVE Whole
    <2>0. dropped \in Nat /\ queue \in Seq(Action) /\ Sorted(queue)
      BY <1>1 DEF IInv, TypeOK, QueueSound
    <2>1. CASE Pop
      <3> SUFFICES ASSUME dropped' > dropped
                   PROVE  \A i \in 1..Len(queue') : queue'[i].seq # Head(queue).seq
        BY <2>1 DEF Pop
      <3>1. queue # << >> /\ DropChunk(Tail(queue), Head(queue).seq)
        BY <2>0, <2>1 DEF Pop
      <3>2. Head(queue) \in Action /\ Tail(queue) \in Seq(Action)
        BY <2>0, <3>1, TailOf
      <3>3. Sorted(Tail(queue)) /\ \A i \in 1..Len(Tail(queue)) : Before(Head(queue), Tail(queue)[i])
        BY <2>0, <3>1, TailOf DEF Sorted
      <3> QED BY <3>1, <3>2, <3>3, DropLeaves
    <2>2. CASE Apply
      <3> SUFFICES ASSUME dropped' > dropped, NEW a \in head
                   PROVE  \A i \in 1..Len(queue') : queue'[i].seq # a.seq
        BY <2>2 DEF Apply
      <3>1. PICK b \in head : DropChunk(queue, b.seq)
        BY <2>0, <2>2 DEF Apply
      <3>2. a = b /\ a \in Action /\ \A i \in 1..Len(queue) : Before(a, queue[i])
        BY <1>1, <2>2 DEF Apply, IInv, TypeOK, HeadSound
      <3> QED BY <2>0, <3>1, <3>2, DropLeaves
    <2>3. CASE Cycle
      BY <2>3 DEF Cycle
    <2>4. CASE ~(Pop \/ Apply \/ Cycle)
      <3>1. dropped' = dropped
        BY <1>1, <2>4 DEF Next, Runs, Leave, Observe, Request, Wake, Settle, Release, Stop, Cancel, Answer,
           Tick, flow
      <3> QED BY <2>0, <3>1
    <2> QED BY <2>1, <2>2, <2>3, <2>4
  <1>2. IInv /\ [Next]_vars => [Whole]_vars
    BY <1>1
  <1> QED BY <1>2, Inductive, PTL DEF Spec, DropsWholeChunks

=============================================================================
