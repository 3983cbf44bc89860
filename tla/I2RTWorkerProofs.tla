-------------------------- MODULE I2RTWorkerProofs --------------------------
(***************************************************************************)
(* For any age limit and any sizes of the queues: an idle that was         *)
(* confirmed holds, what the device follows is watched, and the bus is     *)
(* given back only with the device off, unless ctrl-pi dies holding it.    *)
(***************************************************************************)
EXTENDS I2RTWorker, FiniteSetTheorems, TLAPS

Words == [idle : BOOLEAN, closed : BOOLEAN]
Requests == [id : Nat, op : {"safe_idle", "shutdown", "resume_commands"}]
Messages == [type : {"ready", "fault", "dropped"}]
            \cup [type : {"reply"}, id : Nat]
            \cup [type : {"stopped"}, word : Words]
Parents == [phase : {"new", "starting", "ready", "stopping", "stopped", "error"},
            fault : BOOLEAN, accepting : BOOLEAN, ready : BOOLEAN, reaped : BOOLEAN,
            spawner : BOOLEAN, open : BOOLEAN, replied : BOOLEAN, stopped : Words]
Children == [pc : {"none", "boot", "control", "command", "watchdog", "final", "close", "exited"},
             accepting : BOOLEAN, watch : {None} \cup (0..MaxAge + 1),
             target : {None} \cup (0..2 * MaxAge + 1), stop : BOOLEAN, idled : BOOLEAN,
             device : {"off", "idle", "holding", "unknown"},
             signal : {"none", "term", "kill"}, lag : BOOLEAN, ok : BOOLEAN]

PlainOps == [kind : {"start", "enable", "send", "put", "check"}, id : Nat]
IdleOps == [kind : {"idle"}, id : Nat, fail : {"ignore", "latch", "again", "stop"}]
StopIdleOps == [kind : {"stopIdle"}, id : Nat, keep : BOOLEAN]
StopAskOps == [kind : {"stopAsk"}, id : Nat, idled : BOOLEAN, keep : BOOLEAN]
JoinOps == [kind : {"join"}, id : Nat, idled : BOOLEAN, forced : BOOLEAN, failed : BOOLEAN,
            keep : BOOLEAN]

DriverOK == /\ bus \in {"free", "owned", "blocked", "abandoned"} /\ latched \in BOOLEAN
            /\ timer \in {None} \cup (0..MaxAge)
OpOK == op \in {NoOp} \cup PlainOps \cup IdleOps \cup StopIdleOps \cup StopAskOps \cup JoinOps
ParentOK == parent \in Parents
ChildOK == child \in Children
ControlOK == control \in Seq(Requests) /\ Len(control) <= ControlCap
MailboxOK == mailbox \in {None} \cup (0..MaxAge + 1)
StatusOK == status \in Seq(Messages) /\ Len(status) <= StatusCap
FlagsOK == up \in BOOLEAN /\ quiet \in BOOLEAN

Typed == /\ DriverOK /\ OpOK /\ ParentOK /\ ChildOK
         /\ ControlOK /\ MailboxOK /\ StatusOK /\ FlagsOK

(* The device at each place of the child's program.                        *)
ChildSound ==
    /\ child.pc \in {"none", "boot"} => child.device = "off"
    /\ InLoop => child.device \in {"idle", "holding"}
    /\ child.pc = "final" => child.device \in {"off", "idle", "holding"}
    /\ child.pc = "close" => /\ child.device \in {"off", "idle", "unknown"}
                             /\ child.device = "unknown" => ~child.idled
    /\ child.pc = "exited" => child.device \in {"off", "unknown"}
    /\ HoldIsWatched

(* Who is there when the bus is free, and while the lock is held.          *)
BusSound == /\ bus = "free" => child.pc = "none"
            /\ up => bus # "abandoned"
            /\ op # NoOp => bus # "free"

(* What the child said of its end is true.                                 *)
Said == {status[k] : k \in DOMAIN status}
WordSound(w) == w.closed => child.pc = "exited" /\ (w.idle => child.device = "off")
WordsSound == /\ WordSound(parent.stopped)
              /\ \A m \in Said : m.type = "stopped" => WordSound(m.word)
SaysClosed == \/ parent.stopped.closed
              \/ \E m \in Said : m.type = "stopped" /\ m.word.closed

(* Commands are not enabled, nor about to be, and will not be by what is   *)
(* on its way.                                                             *)
Resumes == {k \in DOMAIN control : control[k].op = "resume_commands"}
Settled == /\ ~child.accepting /\ child.device # "holding" /\ Resumes = {}
           /\ child.pc = "close" => child.device # "unknown"
           /\ SaysClosed => child.device = "off"

(* A request to enable commands finds the device at rest, and is alone.    *)
ResumesSound ==
    /\ Resumes # {} => ~child.accepting /\ child.device # "holding"
    /\ \A j, k \in Resumes : j = k

(* The request i to idle overtakes no request to enable, and once it is    *)
(* answered commands are settled.                                          *)
IdleAsked(i) ==
    /\ \A k \in DOMAIN control : control[k].id = i =>
          control[k].op = "safe_idle" /\ \A j \in Resumes : j < k
    /\ \A m \in Said : m.type = "reply" /\ m.id = i => Settled

(* What each operation of the driver may rely on.                          *)
OpSound ==
    /\ op.kind = "start" => Settled
    /\ op.kind \in {"idle", "stopIdle"} =>
          (parent.replied => Settled) /\ (op.id # 0 => IdleAsked(op.id))
    /\ op.kind \in {"stopAsk", "join"} => (op.idled => Settled)
    /\ op.kind \in {"send", "put", "check"} => parent.accepting \/ parent.fault
    /\ op.kind = "idle" => op.fail = "latch" \/ latched

(* Commands are settled while the driver knows the arm as idle.            *)
QuietSound ==
    /\ quiet => Settled
    /\ Free /\ bus = "owned" /\ ~latched /\ ~parent.fault /\ ~parent.accepting => Settled

IInv == /\ Typed /\ ChildSound /\ BusSound /\ WordsSound /\ ResumesSound
        /\ OpSound /\ QuietSound

-----------------------------------------------------------------------------
(* The queues *)

LEMMA SameTypes ==
    ASSUME Typed
    PROVE  /\ UNCHANGED driver => DriverOK'
           /\ UNCHANGED op => OpOK'
           /\ UNCHANGED parent => ParentOK'
           /\ UNCHANGED child => ChildOK'
           /\ UNCHANGED control => ControlOK'
           /\ UNCHANGED mailbox => MailboxOK'
           /\ UNCHANGED status => StatusOK'
           /\ UNCHANGED <<up, quiet>> => FlagsOK'
  BY DEF Typed, DriverOK, OpOK, ParentOK, ChildOK, ControlOK, MailboxOK, StatusOK, FlagsOK, driver

LEMMA Tails ==
    ASSUME NEW S, NEW s \in Seq(S), s # <<>>
    PROVE  /\ Tail(s) \in Seq(S) /\ Len(Tail(s)) = Len(s) - 1 /\ Len(s) \in Nat /\ Head(s) = s[1]
           /\ 1 \in DOMAIN s /\ Head(s) \in S
           /\ \A k \in DOMAIN Tail(s) : k \in Nat /\ k + 1 \in DOMAIN s /\ Tail(s)[k] = s[k + 1]
  OBVIOUS

LEMMA Appends ==
    ASSUME NEW S, NEW s \in Seq(S), NEW m \in S
    PROVE  /\ Append(s, m) \in Seq(S) /\ Len(Append(s, m)) = Len(s) + 1 /\ Len(s) \in Nat
           /\ \A k \in DOMAIN s : k \in Nat /\ k <= Len(s) /\ k \in DOMAIN Append(s, m)
                                  /\ Append(s, m)[k] = s[k]
           /\ Len(s) + 1 \in DOMAIN Append(s, m) /\ Append(s, m)[Len(s) + 1] = m
           /\ \A k \in DOMAIN Append(s, m) : k \in DOMAIN s \/ k = Len(s) + 1
  OBVIOUS

(* There is an id that no message on its way has: a uuid4 is not repeated. *)
LEMMA FreshIdIsNew ==
    ASSUME ControlOK, StatusOK
    PROVE  /\ FreshId \in Nat \ {0}
           /\ \A k \in DOMAIN control : control[k].id # FreshId
           /\ \A k \in DOMAIN status : status[k].type = "reply" => status[k].id # FreshId
  <1> DEFINE n == Len(control)
             m == Len(status)
             Has(i, p) == \/ p \in 1..n /\ control[p].id = i
                          \/ p - n \in 1..m /\ status[p - n].type = "reply"
                             /\ status[p - n].id = i
  <1>1. /\ n \in Nat /\ m \in Nat /\ n <= ControlCap /\ m <= StatusCap
        /\ StatusCap \in Nat /\ ControlCap \in Nat
        /\ DOMAIN control = 1..n /\ DOMAIN status = 1..m
    BY CapAssumption DEF ControlOK, StatusOK
  <1>2. \E i \in Ids : \A p \in 1..(n + m) : ~Has(i, p)
    <2> SUFFICES ASSUME \A i \in Ids : \E p \in 1..(n + m) : Has(i, p) PROVE FALSE
      OBVIOUS
    <2> DEFINE f == [i \in Ids |-> CHOOSE p \in 1..(n + m) : Has(i, p)]
    <2>1. \A i \in Ids : f[i] \in 1..(n + m) /\ Has(i, f[i])
      OBVIOUS
    <2>2. f \in [Ids -> 1..(n + m)]
      BY <2>1
    <2> DEFINE last == n + m
               slots == StatusCap + ControlCap + 1
    <2>3. last \in Nat /\ slots \in Nat /\ last < slots /\ Ids = 1..slots
      BY <1>1 DEF Ids
    <2>4. \E x, y \in Ids : x # y /\ f[x] = f[y]
      <3>1. f \in [Ids -> 1..last]
        BY <2>2
      <3> HIDE DEF f, last, slots, Has
      <3>2. IsFiniteSet(1..slots) /\ Cardinality(1..slots) = slots
        BY <2>3, FS_Interval
      <3>3. IsFiniteSet(1..last) /\ Cardinality(1..last) = last
        BY <2>3, FS_Interval
      <3>4. Cardinality(1..last) < Cardinality(Ids) /\ IsFiniteSet(Ids)
        BY <2>3, <3>2, <3>3
      <3> QED BY <3>1, <3>3, <3>4, FS_PigeonHole
    <2>7. PICK x, y \in Ids : x # y /\ f[x] = f[y]
      BY <2>4
    <2>8. Has(x, f[x]) /\ Has(y, f[x])
      BY <2>1, <2>7
    <2> HIDE DEF f
    <2> QED BY <1>1, <2>1, <2>7, <2>8
  <1>3. PICK i \in Ids : \A p \in 1..(n + m) : ~Has(i, p)
    BY <1>2
  <1>4. \A k \in DOMAIN control : control[k].id # i
    BY <1>1, <1>3
  <1>5. \A k \in DOMAIN status : status[k].type = "reply" => status[k].id # i
    <2> SUFFICES ASSUME NEW k \in 1..m, status[k].type = "reply" PROVE status[k].id # i
      BY <1>1
    <2>1. k + n \in 1..(n + m) /\ (k + n) - n = k
      BY <1>1
    <2> QED BY <1>3, <2>1
  <1> DEFINE Unused(j) == /\ \A k \in DOMAIN control : control[k].id # j
                          /\ \A k \in DOMAIN status :
                                status[k].type = "reply" => status[k].id # j
  <1>6. FreshId = CHOOSE j \in Ids : Unused(j)
    BY DEF FreshId
  <1>7. Unused(i)
    BY <1>4, <1>5
  <1>8. FreshId \in Ids /\ Unused(FreshId)
    <2> HIDE DEF Unused
    <2> QED BY <1>6, <1>7
  <1> QED BY <1>1, <1>8 DEF Ids

-----------------------------------------------------------------------------
(* What the supervisor and the driver leave as it is *)

(* The child's program and its device are not touched: a signal at most.   *)
ParentOnly ==
    ChildOK' /\ UNCHANGED <<child.pc, child.device, child.accepting, child.watch, child.target,
                           child.idled>>

(* Requests are only added, and none to enable commands.                   *)
ControlGrows ==
    /\ ControlOK'
    /\ \A k \in DOMAIN control : k \in DOMAIN control' /\ control'[k] = control[k]
    /\ \A k \in DOMAIN control' \ DOMAIN control :
          control'[k].op # "resume_commands" /\ \A j \in DOMAIN control : j < k

(* Messages are only taken, a last word noted when it is.                  *)
SaidLess ==
    /\ StatusOK' /\ Said' \subseteq Said
    /\ \/ parent'.stopped = parent.stopped
       \/ \E m \in Said : m.type = "stopped" /\ parent'.stopped = m.word

BusStep == [ArmBusSpec!Next]_<<bus, child.device>>

LEMMA SameChild == ASSUME Typed, UNCHANGED child PROVE ParentOnly
  BY SameTypes DEF ParentOnly

LEMMA SameControl == ASSUME Typed, UNCHANGED control PROVE ControlGrows
  BY SameTypes DEF ControlGrows

LEMMA SameStatus ==
    ASSUME Typed, UNCHANGED status, parent'.stopped = parent.stopped PROVE SaidLess
  BY SameTypes DEF SaidLess, Said

LEMMA AppendGrows ==
    ASSUME Typed, NEW r \in Requests, r.op # "resume_commands", Len(control) < ControlCap,
           control' = Append(control, r)
    PROVE  /\ ControlGrows
           /\ \A k \in DOMAIN control' \ DOMAIN control : control'[k] = r
  <1>1. control \in Seq(Requests) /\ ControlCap \in Nat
    BY CapAssumption DEF Typed, ControlOK
  <1>2. ControlOK'
    BY <1>1, Appends DEF ControlOK
  <1>3. \A k \in DOMAIN control : k \in DOMAIN control' /\ control'[k] = control[k]
    BY <1>1, Appends
  <1>4. \A k \in DOMAIN control' \ DOMAIN control :
            control'[k] = r /\ \A j \in DOMAIN control : j < k
    BY <1>1, Appends
  <1> QED BY <1>2, <1>3, <1>4 DEF ControlGrows

LEMMA Tells ==
    ASSUME Typed, NEW operation \in {"safe_idle", "shutdown"}, Tell(operation)
    PROVE  /\ ControlGrows
           /\ \A k \in DOMAIN control' \ DOMAIN control : control'[k].id = 0
  <1> DEFINE r == [id |-> 0, op |-> operation]
  <1>1. r \in Requests /\ r.op # "resume_commands" /\ r.id = 0
    BY DEF Requests
  <1>2. CASE UNCHANGED control
    BY <1>2, SameControl
  <1>3. CASE Len(control) < ControlCap /\ control' = Append(control, r)
    <2> HIDE DEF r
    <2> QED BY <1>1, <1>3, AppendGrows
  <1> QED BY <1>2, <1>3 DEF Tell

(* A request is sent under an id that nothing on its way has, or fails.    *)
LEMMA Requested ==
    ASSUME Typed, NEW operation \in {"safe_idle", "shutdown"}, NEW next,
           Request(operation, next)
    PROVE  /\ ControlGrows
           /\ \E i \in Nat :
                 /\ op' = [next EXCEPT !.id = i]
                 /\ i # 0 => /\ \A k \in DOMAIN control : control[k].id # i
                             /\ \A k \in DOMAIN control' \ DOMAIN control :
                                   control'[k].op = operation
                             /\ \A m \in Said : m.type = "reply" => m.id # i
  <1> DEFINE r == [id |-> FreshId, op |-> operation]
  <1>1. /\ FreshId \in Nat
        /\ \A k \in DOMAIN control : control[k].id # FreshId
        /\ \A m \in Said : m.type = "reply" => m.id # FreshId
    BY FreshIdIsNew DEF Typed, Said
  <1>2. r \in Requests /\ r.op # "resume_commands" /\ r.op = operation
    BY <1>1 DEF Requests
  <1>3. CASE UNCHANGED control /\ op' = [next EXCEPT !.id = 0]
    BY <1>3, SameControl
  <1>4. CASE Len(control) < ControlCap /\ control' = Append(control, r)
             /\ op' = [next EXCEPT !.id = FreshId]
    <2>1. ControlGrows /\ \A k \in DOMAIN control' \ DOMAIN control : control'[k] = r
      <3> HIDE DEF r
      <3> QED BY <1>2, <1>4, AppendGrows
    <2> QED BY <1>1, <1>2, <1>4, <2>1
  <1> QED BY <1>3, <1>4 DEF Request

LEMMA GrowsResumes ==
    ASSUME ControlOK, ControlGrows
    PROVE  Resumes' = Resumes
  BY DEF ControlOK, ControlGrows, Resumes

LEMMA SettledStays ==
    ASSUME Typed, Settled, ParentOnly, ControlGrows, SaidLess
    PROVE  Settled'
  <1>1. SaysClosed' => SaysClosed
    BY DEF SaidLess, SaysClosed
  <1> QED BY <1>1, GrowsResumes DEF Typed, Settled, ParentOnly

LEMMA IdleAskedStays ==
    ASSUME Typed, NEW i, IdleAsked(i), ParentOnly, ControlGrows, SaidLess,
           \A k \in DOMAIN control' \ DOMAIN control : control'[k].id # i
    PROVE  IdleAsked(i)'
  <1>1. Resumes' = Resumes
    BY GrowsResumes DEF Typed
  <1>2. \A k \in DOMAIN control' : control'[k].id = i =>
            k \in DOMAIN control /\ control[k].id = i /\ control'[k] = control[k]
    BY DEF ControlGrows
  <1>3. \A m \in Said' : m.type = "reply" /\ m.id = i => Settled'
    BY SettledStays DEF IdleAsked, SaidLess
  <1> QED BY <1>1, <1>2, <1>3 DEF IdleAsked

LEMMA ParentKeeps ==
    ASSUME IInv, ParentOnly, ControlGrows, SaidLess, UNCHANGED <<bus, up>>,
           DriverOK', OpOK', ParentOK', MailboxOK', FlagsOK', OpSound', QuietSound',
           op' # NoOp => bus # "free"
    PROVE  IInv' /\ BusStep
  <1>1. Typed'
    BY DEF Typed, ParentOnly, ControlGrows, SaidLess
  <1>2. ChildSound' /\ BusSound'
    BY DEF IInv, ParentOnly, ChildSound, BusSound, HoldIsWatched, InLoop
  <1>3. WordsSound'
    <2>1. \A w : WordSound(w) => WordSound(w)'
      BY DEF WordSound, ParentOnly
    <2> QED BY <2>1 DEF IInv, WordsSound, SaidLess
  <1>4. ResumesSound'
    BY GrowsResumes DEF IInv, Typed, ResumesSound, ParentOnly
  <1>5. BusStep
    BY DEF ParentOnly, BusStep
  <1> QED BY <1>1, <1>2, <1>3, <1>4, <1>5 DEF IInv

-----------------------------------------------------------------------------
(* Requests to idle *)

Fails == {"ignore", "latch", "again", "stop"}

LEMMA FaultedParent ==
    ASSUME ParentOK
    PROVE  /\ Faulted(parent) \in Parents
           /\ Faulted(parent).fault /\ ~Faulted(parent).accepting
           /\ Faulted(parent).stopped = parent.stopped
           /\ Faulted(parent).replied = parent.replied
           /\ Faulted(parent).open = parent.open
  BY DEF ParentOK, Parents, Faulted

(* The request of an idle that is under way. *)
LEMMA IdleIsAsked ==
    ASSUME Typed, NEW next, Request("safe_idle", next), SaidLess,
           \A i \in Nat : [next EXCEPT !.id = i].id = i
    PROVE  ControlGrows /\ op'.id \in Nat /\ op' = [next EXCEPT !.id = op'.id]
           /\ (\A i \in Nat \ {0} : op'.id = i => IdleAsked(i)')
  <1>1. ControlGrows /\ Resumes' = Resumes
    BY Requested, GrowsResumes DEF Typed
  <1>2. PICK i \in Nat :
            /\ op' = [next EXCEPT !.id = i]
            /\ i # 0 => /\ \A k \in DOMAIN control : control[k].id # i
                        /\ \A k \in DOMAIN control' \ DOMAIN control :
                              control'[k].op = "safe_idle"
                        /\ \A m \in Said : m.type = "reply" => m.id # i
    BY Requested
  <1>3. op'.id = i
    BY <1>2
  <1>4. ASSUME i # 0 PROVE IdleAsked(i)'
    <2>1. ASSUME NEW k \in DOMAIN control', control'[k].id = i
          PROVE  control'[k].op = "safe_idle" /\ \A j \in Resumes' : j < k
      <3>1. k \notin DOMAIN control
        BY <1>1, <1>2, <1>4, <2>1 DEF ControlGrows
      <3> QED BY <1>1, <1>2, <1>4, <3>1 DEF ControlGrows, Resumes
    <2>2. \A m \in Said' : m.type = "reply" => m.id # i
      <3>1. \A m \in Said : m.type = "reply" => m.id # i
        BY <1>2, <1>4
      <3>2. Said' \subseteq Said
        BY DEF SaidLess
      <3> QED BY <3>1, <3>2
    <2> QED BY <2>1, <2>2 DEF IdleAsked
  <1> QED BY <1>1, <1>2, <1>3, <1>4

LEMMA StartIdleKeeps ==
    ASSUME IInv, NEW p \in {parent, Faulted(parent)}, NEW fail \in Fails, StartIdle(p, fail),
           DriverOK', fail = "latch" \/ latched', bus # "free",
           UNCHANGED <<bus, child, status, up, quiet>>
    PROVE  IInv' /\ BusStep
  <1> DEFINE next == [kind |-> "idle", id |-> 0, fail |-> fail]
  <1>1. ParentOK' /\ ~parent'.replied /\ parent'.stopped = parent.stopped
    BY FaultedParent DEF StartIdle, IInv, Typed, ParentOK, Parents
  <1>2. SaidLess /\ ParentOnly /\ FlagsOK'
    BY <1>1, SameStatus, SameChild, SameTypes DEF IInv
  <1>3. MailboxOK'
    BY DEF StartIdle, IInv, Typed, MailboxOK
  <1>4. /\ ControlGrows /\ op'.id \in Nat /\ op' = [next EXCEPT !.id = op'.id]
        /\ \A i \in Nat \ {0} : op'.id = i => IdleAsked(i)'
    <2>1. Request("safe_idle", next) /\ \A i \in Nat : [next EXCEPT !.id = i].id = i
      BY DEF StartIdle
    <2> HIDE DEF next
    <2> QED BY <1>2, <2>1, IdleIsAsked DEF IInv
  <1>5. op'.kind = "idle" /\ op'.fail = fail /\ OpOK' /\ op' # NoOp
    BY <1>4 DEF OpOK, IdleOps, Fails, NoOp
  <1>6. OpSound'
    BY <1>1, <1>4, <1>5 DEF OpSound, IdleAsked
  <1>7. QuietSound'
    BY <1>2, <1>4, <1>5, SettledStays DEF QuietSound, IInv, Free
  <1> QED BY <1>1, <1>2, <1>3, <1>4, <1>5, <1>6, <1>7, ParentKeeps

LEMMA LatchKeeps ==
    ASSUME IInv, NEW p \in {parent, Faulted(parent)}, Latch(p), bus # "free"
    PROVE  IInv' /\ BusStep
  <1>1. /\ DriverOK' /\ latched' /\ StartIdle(p, "ignore")
        /\ UNCHANGED <<bus, child, status, up, quiet>>
    BY DEF Latch, IInv, Typed, DriverOK
  <1> QED BY <1>1, StartIdleKeeps DEF Fails

LEMMA LatchIfUnhealthyKeeps ==
    ASSUME IInv, LatchIfUnhealthy, bus # "free"
    PROVE  IInv' /\ BusStep
  BY LatchKeeps DEF LatchIfUnhealthy

LEMMA SafeIdleKeeps == ASSUME IInv, SafeIdle PROVE IInv' /\ BusStep
  <1> DEFINE fail == IF latched THEN "ignore" ELSE "latch"
  <1>1. /\ DriverOK' /\ StartIdle(parent, fail) /\ UNCHANGED <<bus, child, status, up, quiet>>
        /\ fail \in Fails /\ (fail = "latch" \/ latched') /\ bus # "free"
    BY DEF SafeIdle, IInv, Typed, DriverOK, Fails
  <1> HIDE DEF fail
  <1> QED BY <1>1, StartIdleKeeps

LEMMA LatchFaultKeeps == ASSUME IInv, LatchFault PROVE IInv' /\ BusStep
  <1> DEFINE fail == IF latched THEN "stop" ELSE "again"
  <1>1. /\ DriverOK' /\ StartIdle(parent, fail) /\ UNCHANGED <<bus, child, status, up, quiet>>
        /\ fail \in Fails /\ latched' /\ bus # "free"
    BY DEF LatchFault, IInv, Typed, DriverOK, Fails
  <1> HIDE DEF fail
  <1> QED BY <1>1, StartIdleKeeps

LEMMA IdleAgainKeeps ==
    ASSUME IInv, IdleAgain, latched, bus # "free"
    PROVE  IInv' /\ BusStep
  <1>1. /\ DriverOK' /\ StartIdle(parent, "stop") /\ latched'
        /\ UNCHANGED <<bus, child, status, up, quiet>>
    BY DEF IdleAgain, IInv, Typed, DriverOK, driver
  <1> QED BY <1>1, StartIdleKeeps DEF Fails

LEMMA StartStopKeeps ==
    ASSUME IInv, NEW keep \in BOOLEAN, StartStop(keep), bus # "free"
    PROVE  IInv' /\ BusStep
  <1> DEFINE next == [kind |-> "stopIdle", id |-> 0, keep |-> keep]
  <1>1. ParentOK' /\ ~parent'.replied /\ parent'.stopped = parent.stopped
    BY DEF StartStop, IInv, Typed, ParentOK, Parents
  <1>2. UNCHANGED <<bus, latched, child, status, up, quiet>> /\ DriverOK'
    BY DEF StartStop, IInv, Typed, DriverOK
  <1>3. SaidLess /\ ParentOnly /\ FlagsOK'
    BY <1>1, <1>2, SameStatus, SameChild, SameTypes DEF IInv
  <1>4. MailboxOK'
    BY DEF StartStop, IInv, Typed, MailboxOK
  <1>5. /\ ControlGrows /\ op'.id \in Nat /\ op' = [next EXCEPT !.id = op'.id]
        /\ \A i \in Nat \ {0} : op'.id = i => IdleAsked(i)'
    <2>1. Request("safe_idle", next) /\ \A i \in Nat : [next EXCEPT !.id = i].id = i
      BY DEF StartStop
    <2> HIDE DEF next
    <2> QED BY <1>3, <2>1, IdleIsAsked DEF IInv
  <1>6. op'.kind = "stopIdle" /\ OpOK' /\ op' # NoOp
    BY <1>5 DEF OpOK, StopIdleOps, NoOp
  <1>7. OpSound'
    BY <1>1, <1>5, <1>6 DEF OpSound, IdleAsked
  <1>8. QuietSound'
    BY <1>2, <1>3, <1>5, <1>6, SettledStays DEF QuietSound, IInv, Free
  <1> QED BY <1>1, <1>2, <1>3, <1>4, <1>5, <1>6, <1>7, <1>8, ParentKeeps

-----------------------------------------------------------------------------
(* The supervisor's threads *)

LEMMA SameOpKeeps ==
    ASSUME IInv, ParentOnly, ControlGrows, SaidLess, ParentOK',
           UNCHANGED <<driver, op, mailbox, up, quiet>>,
           \A k \in DOMAIN control' \ DOMAIN control : control'[k].id = 0,
           op.kind \in {"idle", "stopIdle"} /\ parent'.replied => Settled,
           parent.fault => parent'.fault,
           parent.accepting => parent'.accepting \/ parent'.fault
    PROVE  IInv' /\ BusStep
  <1>1. Settled => Settled'
    BY SettledStays DEF IInv
  <1>2. \A i \in Nat \ {0} : IdleAsked(i) => IdleAsked(i)'
    BY IdleAskedStays DEF IInv
  <1>3. DriverOK' /\ OpOK' /\ MailboxOK' /\ FlagsOK' /\ UNCHANGED <<bus, latched>>
    BY SameTypes DEF IInv, driver
  <1>4. op.kind \in {"idle", "stopIdle"} => op.id \in Nat
    BY DEF IInv, Typed, OpOK, NoOp, PlainOps, IdleOps, StopIdleOps, StopAskOps, JoinOps
  <1>5. OpSound'
    <2>1. op.kind \in {"idle", "stopIdle"} /\ op.id # 0 => IdleAsked(op.id)'
      BY <1>2, <1>4 DEF IInv, OpSound
    <2> QED BY <1>1, <1>3, <2>1 DEF IInv, OpSound, IdleAsked
  <1>6. QuietSound'
    BY <1>1, <1>3 DEF IInv, QuietSound, Free
  <1>7. op' # NoOp => bus # "free"
    BY DEF IInv, BusSound
  <1> QED BY <1>3, <1>5, <1>6, <1>7, ParentKeeps

LEMMA TailOfStatus ==
    ASSUME StatusOK, status # <<>>, status' = Tail(status)
    PROVE  StatusOK' /\ Said' \subseteq Said /\ Head(status) \in Said /\ Head(status) \in Messages
  <1>1. /\ status \in Seq(Messages) /\ Len(status) <= StatusCap /\ StatusCap \in Nat
    BY CapAssumption DEF StatusOK
  <1>2. StatusOK'
    BY <1>1, Tails DEF StatusOK
  <1>3. Said' \subseteq Said /\ Head(status) \in Said /\ Head(status) \in Messages
    BY <1>1, Tails DEF Said
  <1> QED BY <1>2, <1>3

LEMMA DrainKeeps == ASSUME IInv, Drain PROVE IInv' /\ BusStep
  <1>1. PICK m \in Messages : m = Head(status) /\ m \in Said
    BY TailOfStatus DEF Drain, IInv, Typed
  <1> DEFINE news == m.type = "fault" /\ ~parent.fault
  <1>2. /\ UNCHANGED <<driver, op, child, mailbox, up, quiet>>
        /\ StatusOK' /\ Said' \subseteq Said /\ ParentOnly
    BY TailOfStatus, SameChild DEF Drain, IInv, Typed
  <1>3. /\ ControlGrows
        /\ \A k \in DOMAIN control' \ DOMAIN control : control'[k].id = 0
    <2>1. CASE UNCHANGED control
      BY <2>1, SameControl DEF IInv
    <2>2. CASE Tell("shutdown")
      BY <2>2, Tells DEF IInv
    <2> QED BY <2>1, <2>2 DEF Drain
  <1>4. \/ m.type = "ready" /\ parent' = [parent EXCEPT !.ready = TRUE]
        \/ Answers(m) /\ parent' = [parent EXCEPT !.replied = TRUE]
        \/ parent' = Faulted(parent)
        \/ m.type = "stopped" /\ parent' = [parent EXCEPT !.stopped = m.word]
        \/ parent' = parent
    BY <1>1 DEF Drain
  <1>5. m.type = "stopped" => m.word \in Words
    BY DEF Messages
  <1>6. /\ ParentOK' /\ (parent.fault => parent'.fault)
        /\ (parent.accepting => parent'.accepting \/ parent'.fault)
        /\ (parent'.replied => parent.replied \/ Answers(m))
        /\ \/ parent'.stopped = parent.stopped
           \/ m.type = "stopped" /\ parent'.stopped = m.word
    <2>1. parent \in Parents /\ (m.type = "stopped" => m.word \in Words)
      BY <1>5 DEF IInv, Typed, ParentOK
    <2>2. CASE parent' = [parent EXCEPT !.ready = TRUE]
      BY <2>1, <2>2 DEF ParentOK, Parents
    <2>3. CASE Answers(m) /\ parent' = [parent EXCEPT !.replied = TRUE]
      BY <2>1, <2>3 DEF ParentOK, Parents
    <2>4. CASE parent' = Faulted(parent)
      BY <2>4, FaultedParent DEF IInv, Typed, ParentOK
    <2>5. CASE m.type = "stopped" /\ parent' = [parent EXCEPT !.stopped = m.word]
      BY <2>1, <2>5 DEF ParentOK, Parents
    <2>6. CASE parent' = parent
      BY <2>1, <2>6 DEF ParentOK
    <2> QED BY <1>4, <2>2, <2>3, <2>4, <2>5, <2>6
  <1>7. SaidLess
    BY <1>1, <1>2, <1>6 DEF SaidLess
  <1>8. op.kind \in {"idle", "stopIdle"} /\ Answers(m) => Settled
    BY <1>1 DEF Answers, IInv, OpSound, IdleAsked
  <1>9. op.kind \in {"idle", "stopIdle"} /\ parent'.replied => Settled
    BY <1>6, <1>8 DEF IInv, OpSound
  <1> QED BY <1>2, <1>3, <1>6, <1>7, <1>9, SameOpKeeps

LEMMA MonitorKeeps == ASSUME IInv, Monitor PROVE IInv' /\ BusStep
  <1>1. CASE MonitorStale
    <2>1. /\ ParentOK' /\ parent'.fault /\ parent'.replied = parent.replied
          /\ parent'.stopped = parent.stopped
      BY <1>1, FaultedParent DEF MonitorStale, IInv, Typed, ParentOK
    <2>2. ControlGrows /\ \A k \in DOMAIN control' \ DOMAIN control : control'[k].id = 0
      BY <1>1, Tells DEF MonitorStale, IInv
    <2>3. UNCHANGED <<driver, op, child, mailbox, status, up, quiet>>
      BY <1>1 DEF MonitorStale
    <2>4. ParentOnly /\ SaidLess
      BY <2>1, <2>3, SameChild, SameStatus DEF IInv
    <2>5. op.kind \in {"idle", "stopIdle"} /\ parent'.replied => Settled
      BY <2>1 DEF IInv, OpSound
    <2> QED BY <2>1, <2>2, <2>3, <2>4, <2>5, SameOpKeeps
  <1>2. CASE MonitorExited
    <2>1. /\ ParentOK' /\ parent'.fault /\ parent'.replied = parent.replied
          /\ parent'.stopped = parent.stopped
      BY <1>2, FaultedParent DEF MonitorExited, IInv, Typed, ParentOK, Parents
    <2>2. UNCHANGED <<driver, op, child, queues, up, quiet>>
      BY <1>2 DEF MonitorExited
    <2>3. UNCHANGED <<driver, op, child, control, mailbox, status, up, quiet>>
      BY <2>2 DEF queues
    <2>4. ParentOnly /\ SaidLess /\ ControlGrows
      BY <2>1, <2>3, SameChild, SameStatus, SameControl DEF IInv
    <2>5. op.kind \in {"idle", "stopIdle"} /\ parent'.replied => Settled
      BY <2>1 DEF IInv, OpSound
    <2> QED BY <2>1, <2>3, <2>4, <2>5, SameOpKeeps
  <1>3. CASE MonitorForces
    <2>1. UNCHANGED <<driver, op, parent, control, mailbox, status, up, quiet>> /\ Forces
      BY <1>3 DEF MonitorForces, queues
    <2>2. ParentOnly
      BY <2>1 DEF Forces, ParentOnly, ChildOK, Children, IInv, Typed
    <2>3. ParentOK' /\ SaidLess /\ ControlGrows
      BY <2>1, SameTypes, SameStatus, SameControl DEF IInv
    <2>4. op.kind \in {"idle", "stopIdle"} /\ parent'.replied => Settled
      BY <2>1 DEF IInv, OpSound
    <2> QED BY <2>1, <2>2, <2>3, <2>4, SameOpKeeps
  <1> QED BY <1>1, <1>2, <1>3 DEF Monitor

-----------------------------------------------------------------------------
(* The driver's calls *)

(* A call ends, or goes on without a message.                              *)
LEMMA CallEnds ==
    ASSUME IInv, UNCHANGED <<driver, child, control, mailbox, status, up>>,
           op' = NoOp, ParentOK', parent'.stopped = parent.stopped, FlagsOK',
           quiet' => Settled,
           latched \/ parent'.accepting \/ parent'.fault \/ Settled
    PROVE  IInv' /\ BusStep
  <1>1. /\ ParentOnly /\ SaidLess /\ ControlGrows /\ DriverOK' /\ MailboxOK'
        /\ UNCHANGED <<bus, latched>>
    BY SameTypes, SameChild, SameStatus, SameControl DEF IInv, driver
  <1>2. OpOK' /\ OpSound'
    BY DEF OpOK, OpSound, NoOp
  <1>3. Settled => Settled'
    BY <1>1, SettledStays DEF IInv
  <1>4. QuietSound'
    BY <1>1, <1>3 DEF IInv, QuietSound, Free
  <1> QED BY <1>1, <1>2, <1>4, ParentKeeps

LEMMA CallGoesOn ==
    ASSUME IInv, UNCHANGED <<bus, latched, child, status, up, quiet>>,
           DriverOK', MailboxOK', ControlGrows, SaidLess,
           op # NoOp \/ bus # "free", OpOK', op' # NoOp, ParentOK',
           \/ op'.kind \in {"send", "put", "check"} /\ (parent'.accepting \/ parent'.fault)
           \/ op'.kind \in {"stopAsk", "join"} /\ (op'.idled => Settled)
    PROVE  IInv' /\ BusStep
  <1>1. ParentOnly /\ FlagsOK'
    BY SameTypes, SameChild DEF IInv
  <1>2. Settled => Settled'
    BY <1>1, SettledStays DEF IInv
  <1>3. OpSound'
    BY <1>2 DEF OpSound
  <1>4. QuietSound'
    BY <1>2 DEF IInv, QuietSound, Free
  <1>5. bus # "free"
    BY DEF IInv, BusSound
  <1> QED BY <1>1, <1>3, <1>4, <1>5, ParentKeeps

LEMMA StartDoneKeeps == ASSUME IInv, StartDone PROVE IInv' /\ BusStep
  <1>1. /\ UNCHANGED <<driver, child, control, mailbox, status, up>> /\ op' = NoOp
        /\ UNCHANGED <<up, quiet>> /\ Settled
    BY DEF StartDone, queues, IInv, OpSound
  <1>2. ParentOK' /\ parent'.stopped = parent.stopped
    BY DEF StartDone, IInv, Typed, ParentOK, Parents
  <1>3. FlagsOK'
    BY <1>1, SameTypes DEF IInv
  <1> QED BY <1>1, <1>2, <1>3, CallEnds

LEMMA StartFailsKeeps == ASSUME IInv, StartFails PROVE IInv' /\ BusStep
  <1>1. /\ UNCHANGED <<driver, child, mailbox, status, up, quiet>> /\ op # NoOp
        /\ op'.kind = "join" /\ op'.idled = FALSE /\ OpOK' /\ op' # NoOp
    BY DEF StartFails, NoOp, OpOK, JoinOps
  <1>2. ParentOK' /\ parent'.stopped = parent.stopped
    BY DEF StartFails, IInv, Typed, ParentOK, Parents
  <1>3. ControlGrows /\ SaidLess /\ DriverOK' /\ MailboxOK' /\ UNCHANGED <<bus, latched>>
    BY <1>1, <1>2, Tells, SameStatus, SameTypes DEF StartFails, IInv, driver
  <1> QED BY <1>1, <1>2, <1>3, CallGoesOn

LEMMA EnableDoneKeeps == ASSUME IInv, EnableDone PROVE IInv' /\ BusStep
  <1>1. /\ UNCHANGED <<driver, child, control, mailbox, status, up, quiet>> /\ op # NoOp
        /\ op'.kind = "send" /\ OpOK' /\ op' # NoOp
    BY DEF EnableDone, NoOp, OpOK, PlainOps, queues
  <1>2. ParentOK' /\ parent'.stopped = parent.stopped /\ parent'.accepting
    BY DEF EnableDone, IInv, Typed, ParentOK, Parents
  <1>3. ControlGrows /\ SaidLess /\ DriverOK' /\ MailboxOK' /\ UNCHANGED <<bus, latched>>
    BY <1>1, <1>2, SameControl, SameStatus, SameTypes DEF IInv, driver
  <1> QED BY <1>1, <1>2, <1>3, CallGoesOn

LEMMA EnableFailsKeeps == ASSUME IInv, EnableFails PROVE IInv' /\ BusStep
  <1>1. Latch(parent) /\ bus # "free"
    BY DEF EnableFails, NoOp, IInv, BusSound
  <1> QED BY <1>1, LatchKeeps

LEMMA SendChecksKeeps == ASSUME IInv, SendChecks PROVE IInv' /\ BusStep
  <1>0. op # NoOp /\ bus # "free"
    BY DEF SendChecks, NoOp, IInv, BusSound
  <1>1. CASE parent.accepting /\ op' = [kind |-> "put", id |-> 0]
             /\ UNCHANGED <<driver, parent, child, queues, up, quiet>>
    <2>1. /\ UNCHANGED <<driver, parent, child, control, mailbox, status, up, quiet>>
          /\ op'.kind = "put" /\ OpOK' /\ op' # NoOp
      BY <1>1 DEF NoOp, OpOK, PlainOps, queues
    <2>2. /\ ParentOK' /\ ControlGrows /\ SaidLess /\ DriverOK' /\ MailboxOK'
          /\ UNCHANGED <<bus, latched>> /\ parent'.accepting
      BY <1>1, <2>1, SameControl, SameStatus, SameTypes DEF IInv, driver
    <2> QED BY <1>0, <2>1, <2>2, CallGoesOn
  <1>2. CASE LatchIfUnhealthy
    BY <1>0, <1>2, LatchIfUnhealthyKeeps
  <1>3. CASE Latch(parent)
    BY <1>0, <1>3, LatchKeeps
  <1> QED BY <1>1, <1>2, <1>3 DEF SendChecks

LEMMA SendPutsKeeps == ASSUME IInv, SendPuts PROVE IInv' /\ BusStep
  <1>1. /\ UNCHANGED <<bus, latched, parent, child, control, status, up, quiet>> /\ op # NoOp
        /\ op'.kind = "check" /\ OpOK' /\ op' # NoOp
    BY DEF SendPuts, NoOp, OpOK, PlainOps
  <1>2. ParentOK' /\ ControlGrows /\ SaidLess
    BY <1>1, SameControl, SameStatus, SameTypes DEF IInv
  <1>3. DriverOK' /\ MailboxOK'
    BY MaxAgeAssumption DEF SendPuts, IInv, Typed, DriverOK, MailboxOK
  <1>4. parent'.accepting \/ parent'.fault
    BY <1>1 DEF SendPuts, IInv, OpSound
  <1> QED BY <1>1, <1>2, <1>3, <1>4, CallGoesOn

LEMMA SendEndsKeeps == ASSUME IInv, SendEnds PROVE IInv' /\ BusStep
  <1>0. bus # "free" /\ (parent.accepting \/ parent.fault)
    BY DEF SendEnds, NoOp, IInv, BusSound, OpSound
  <1>1. CASE op' = NoOp /\ UNCHANGED <<driver, parent, child, queues, up, quiet>>
    <2>1. UNCHANGED <<driver, parent, child, control, mailbox, status, up, quiet>> /\ op' = NoOp
      BY <1>1 DEF queues
    <2>2. /\ ParentOK' /\ FlagsOK' /\ parent'.stopped = parent.stopped
          /\ (parent'.accepting \/ parent'.fault) /\ (quiet' => Settled)
      BY <1>0, <2>1, SameTypes DEF IInv, QuietSound
    <2> QED BY <2>1, <2>2, CallEnds
  <1>2. CASE LatchIfUnhealthy
    BY <1>0, <1>2, LatchIfUnhealthyKeeps
  <1> QED BY <1>1, <1>2 DEF SendEnds

LEMMA IdleDoneKeeps == ASSUME IInv, IdleDone PROVE IInv' /\ BusStep
  <1>0. bus # "free" /\ Settled /\ (op.fail = "latch" \/ latched)
    BY DEF IdleDone, NoOp, IInv, BusSound, OpSound
  <1>1. CASE op.fail = "again" /\ IdleAgain
    BY <1>0, <1>1, IdleAgainKeeps
  <1>2. CASE op' = NoOp /\ quiet' = TRUE /\ UNCHANGED <<driver, parent, child, queues, up>>
    <2>1. UNCHANGED <<driver, parent, child, control, mailbox, status, up>> /\ op' = NoOp
      BY <1>2 DEF queues
    <2>2. ParentOK' /\ FlagsOK' /\ parent'.stopped = parent.stopped
      BY <1>2, <2>1, SameTypes DEF IInv, Typed, FlagsOK
    <2> QED BY <1>0, <2>1, <2>2, CallEnds
  <1> QED BY <1>1, <1>2 DEF IdleDone

LEMMA IdleFailsKeeps == ASSUME IInv, IdleFails PROVE IInv' /\ BusStep
  <1>0. bus # "free" /\ (op.fail = "latch" \/ latched)
    BY DEF IdleFails, NoOp, IInv, BusSound, OpSound
  <1>1. CASE Latch(parent)
    BY <1>0, <1>1, LatchKeeps
  <1>2. CASE op.fail = "again" /\ IdleAgain
    BY <1>0, <1>2, IdleAgainKeeps
  <1>3. CASE StartStop(TRUE)
    BY <1>0, <1>3, StartStopKeeps
  <1>4. CASE /\ op.fail = "ignore" /\ op' = NoOp
             /\ UNCHANGED <<driver, parent, child, queues, up, quiet>>
    <2>1. /\ UNCHANGED <<driver, parent, child, control, mailbox, status, up, quiet>>
          /\ op' = NoOp /\ latched
      BY <1>0, <1>4 DEF queues
    <2>2. /\ ParentOK' /\ FlagsOK' /\ parent'.stopped = parent.stopped
          /\ (quiet' => Settled)
      BY <2>1, SameTypes DEF IInv, QuietSound
    <2> QED BY <2>1, <2>2, CallEnds
  <1> QED BY <1>1, <1>2, <1>3, <1>4 DEF IdleFails

LEMMA DisconnectKeeps == ASSUME IInv, Disconnect PROVE IInv' /\ BusStep
  BY StartStopKeeps DEF Disconnect

LEMMA TimerFiresKeeps == ASSUME IInv, TimerFires PROVE IInv' /\ BusStep
  BY SafeIdleKeeps DEF TimerFires

LEMMA StopIdledKeeps == ASSUME IInv, StopIdled PROVE IInv' /\ BusStep
  <1> DEFINE next == [kind |-> "stopAsk", id |-> 0, idled |-> parent.replied, keep |-> op.keep]
  <1>1. /\ UNCHANGED <<driver, child, mailbox, status, up, quiet>> /\ op # NoOp
        /\ op.keep \in BOOLEAN /\ (parent.replied => Settled) /\ parent.replied \in BOOLEAN
    BY DEF StopIdled, NoOp, IInv, Typed, OpOK, PlainOps, IdleOps, StopIdleOps, StopAskOps,
       JoinOps, OpSound, ParentOK, Parents
  <1>2. ParentOK' /\ parent'.stopped = parent.stopped
    BY DEF StopIdled, IInv, Typed, ParentOK, Parents
  <1>3. ControlGrows /\ \E i \in Nat : op' = [next EXCEPT !.id = i]
    <2>1. Request("shutdown", next)
      BY DEF StopIdled
    <2> HIDE DEF next
    <2> QED BY <2>1, Requested DEF IInv
  <1>4. op'.kind = "stopAsk" /\ op'.idled = parent.replied /\ OpOK' /\ op' # NoOp
    BY <1>1, <1>3 DEF OpOK, StopAskOps, NoOp
  <1>5. SaidLess /\ DriverOK' /\ MailboxOK' /\ UNCHANGED <<bus, latched>>
    BY <1>1, <1>2, SameStatus, SameTypes DEF IInv, driver
  <1> QED BY <1>1, <1>2, <1>3, <1>4, <1>5, CallGoesOn

LEMMA StopAskedKeeps == ASSUME IInv, StopAsked PROVE IInv' /\ BusStep
  <1>1. /\ UNCHANGED <<driver, parent, child, control, mailbox, status, up, quiet>> /\ op # NoOp
        /\ op.keep \in BOOLEAN /\ (op.idled => Settled) /\ op.idled \in BOOLEAN
    BY DEF StopAsked, queues, NoOp, IInv, Typed, OpOK, PlainOps, IdleOps, StopIdleOps,
       StopAskOps, JoinOps, OpSound
  <1>2. op'.kind = "join" /\ op'.idled = op.idled /\ OpOK' /\ op' # NoOp
    BY <1>1 DEF StopAsked, OpOK, JoinOps, NoOp
  <1>3. /\ ParentOK' /\ ControlGrows /\ SaidLess /\ DriverOK' /\ MailboxOK'
        /\ UNCHANGED <<bus, latched>>
    BY <1>1, SameControl, SameStatus, SameTypes DEF IInv, driver
  <1> QED BY <1>1, <1>2, <1>3, CallGoesOn

LEMMA JoinForcesKeeps == ASSUME IInv, JoinForces PROVE IInv' /\ BusStep
  <1>1. /\ UNCHANGED <<driver, parent, control, mailbox, status, up, quiet>> /\ op # NoOp
        /\ op \in JoinOps /\ (op.idled => Settled) /\ Forces /\ bus # "free"
    BY DEF JoinForces, queues, NoOp, IInv, Typed, OpOK, PlainOps, IdleOps, StopIdleOps,
       StopAskOps, JoinOps, OpSound, BusSound
  <1>2. op'.kind = "join" /\ op'.idled = op.idled /\ op' \in JoinOps /\ op' # NoOp
    BY <1>1 DEF JoinForces, JoinOps, NoOp
  <1>3. ParentOnly
    BY <1>1 DEF Forces, ParentOnly, ChildOK, Children, IInv, Typed
  <1>4. /\ ParentOK' /\ ControlGrows /\ SaidLess /\ DriverOK' /\ MailboxOK' /\ FlagsOK'
        /\ UNCHANGED <<bus, latched>> /\ OpOK'
    BY <1>1, <1>2, SameControl, SameStatus, SameTypes DEF IInv, driver, OpOK
  <1>5. Settled => Settled'
    BY <1>3, <1>4, SettledStays DEF IInv
  <1>6. OpSound' /\ QuietSound'
    BY <1>1, <1>2, <1>5 DEF OpSound, QuietSound, IInv, Free
  <1> QED BY <1>1, <1>3, <1>4, <1>6, ParentKeeps

LEMMA ForgetFaultKeeps == ASSUME IInv, ForgetFault PROVE IInv' /\ BusStep
  <1>1. /\ UNCHANGED <<bus, timer, op, parent, child, control, mailbox, status, up, quiet>>
        /\ op = NoOp /\ bus = "free" /\ latched' = FALSE
    BY DEF ForgetFault, queues, Free
  <1>2. /\ ParentOnly /\ ParentOK' /\ ControlGrows /\ SaidLess /\ MailboxOK' /\ FlagsOK' /\ OpOK'
    BY <1>1, SameChild, SameControl, SameStatus, SameTypes DEF IInv
  <1>3. DriverOK'
    BY <1>1 DEF DriverOK, IInv, Typed
  <1>4. OpSound' /\ QuietSound'
    <2>1. Settled => Settled'
      BY <1>2, SettledStays DEF IInv
    <2> QED BY <1>1, <2>1 DEF OpSound, NoOp, QuietSound, IInv
  <1> QED BY <1>1, <1>2, <1>3, <1>4, ParentKeeps

LEMMA ParentDiesKeeps == ASSUME IInv, ParentDies PROVE IInv' /\ BusStep
  <1>1. /\ UNCHANGED <<latched, timer, parent, control, mailbox, status, quiet>>
        /\ op' = NoOp /\ up' = FALSE
        /\ bus' = IF bus = "free" THEN "free" ELSE "abandoned"
    BY DEF ParentDies, queues
  <1>2. ParentOnly
    BY <1>1 DEF ParentDies, ParentOnly, ChildOK, Children, IInv, Typed
  <1>3. /\ ParentOK' /\ ControlGrows /\ SaidLess /\ MailboxOK' /\ DriverOK'
    BY <1>1, SameControl, SameStatus, SameTypes DEF IInv, Typed, DriverOK
  <1>4. FlagsOK' /\ OpOK'
    BY <1>1 DEF FlagsOK, OpOK, IInv, Typed
  <1>5. OpSound' /\ QuietSound'
    <2>1. Settled => Settled'
      BY <1>2, <1>3, SettledStays DEF IInv
    <2> QED BY <1>1, <2>1 DEF OpSound, NoOp, QuietSound, IInv, Free
  <1>6. Typed'
    BY <1>2, <1>3, <1>4 DEF Typed, ParentOnly, ControlGrows, SaidLess
  <1>7. ChildSound' /\ BusSound'
    BY <1>1, <1>2 DEF IInv, ParentOnly, ChildSound, BusSound, HoldIsWatched, InLoop
  <1>8. WordsSound'
    <2>1. \A w : WordSound(w) => WordSound(w)'
      BY <1>2 DEF WordSound, ParentOnly
    <2> QED BY <1>3, <2>1 DEF IInv, WordsSound, SaidLess
  <1>9. ResumesSound'
    BY <1>2, <1>3, GrowsResumes DEF IInv, Typed, ResumesSound, ParentOnly
  <1>10. BusStep
    BY <1>1, <1>2 DEF ParentOnly, BusStep, ArmBusSpec!Next, ArmBusSpec!Abandon, IInv, Typed, DriverOK
  <1> QED BY <1>5, <1>6, <1>7, <1>8, <1>9, <1>10 DEF IInv

(* Enabling commands is asked of a device at rest only.                    *)
LEMMA EnableKeeps ==
    ASSUME IInv, Enable, Free, bus = "owned", ~latched, Healthy, ~parent.accepting
    PROVE  IInv' /\ BusStep
  <1> DEFINE r == [id |-> FreshId, op |-> "resume_commands"]
  <1>1. Settled /\ op = NoOp
    BY DEF IInv, QuietSound, Healthy, Free
  <1>2. UNCHANGED <<driver, child, mailbox, status, up>> /\ quiet' = FALSE
    BY DEF Enable
  <1>3. ParentOK' /\ parent'.stopped = parent.stopped
    BY DEF Enable, IInv, Typed, ParentOK, Parents
  <1>4. r \in Requests /\ FreshId \in Nat /\ control \in Seq(Requests)
    BY FreshIdIsNew DEF Requests, IInv, Typed, ControlOK
  <1>5. /\ ControlOK' /\ op' \in PlainOps /\ op'.kind = "enable"
        /\ \A j, k \in Resumes' : j = k
    <2>1. CASE UNCHANGED control /\ op' = [kind |-> "enable", id |-> 0]
      BY <1>1, <2>1, SameTypes DEF IInv, PlainOps, Settled, Resumes
    <2>2. CASE Len(control) < ControlCap /\ control' = Append(control, r)
               /\ op' = [kind |-> "enable", id |-> FreshId]
      <3>1. ControlOK'
        <4> HIDE DEF r
        <4> QED BY <1>4, <2>2, Appends, CapAssumption DEF ControlOK
      <3>2. \A k \in Resumes' : k = Len(control) + 1
        <4>1. \A k \in DOMAIN control : control[k].op # "resume_commands"
          BY <1>1 DEF Settled, Resumes
        <4> HIDE DEF r
        <4> QED BY <1>4, <2>2, <4>1, Appends DEF Resumes
      <3> QED BY <1>4, <2>2, <3>1, <3>2 DEF PlainOps
    <2> QED BY <2>1, <2>2 DEF Enable, Request
  <1>6. Typed'
    <2>1. DriverOK' /\ ChildOK' /\ MailboxOK' /\ StatusOK'
      BY <1>2, SameTypes DEF IInv
    <2>2. OpOK' /\ FlagsOK'
      BY <1>2, <1>5 DEF OpOK, FlagsOK, IInv, Typed
    <2> QED BY <1>3, <1>5, <2>1, <2>2 DEF Typed
  <1>7. UNCHANGED <<bus, latched, child, status>>
    BY <1>2 DEF driver
  <1>8. ChildSound' /\ BusSound'
    BY <1>7 DEF IInv, ChildSound, BusSound, HoldIsWatched, InLoop
  <1>9. WordsSound'
    BY <1>3, <1>7 DEF IInv, WordsSound, WordSound, Said
  <1>10. ResumesSound'
    BY <1>1, <1>5, <1>7 DEF ResumesSound, Settled
  <1>11. OpSound' /\ QuietSound'
    BY <1>2, <1>5 DEF OpSound, QuietSound, Free, NoOp
  <1>12. BusStep
    BY <1>7 DEF BusStep
  <1> QED BY <1>6, <1>8, <1>9, <1>10, <1>11, <1>12 DEF IInv

LEMMA ApplyKeeps == ASSUME IInv, Apply PROVE IInv' /\ BusStep
  <1>1. CASE /\ Healthy /\ parent.accepting
             /\ op' = [kind |-> "send", id |-> 0]
             /\ UNCHANGED <<driver, parent, child, queues, up, quiet>>
    <2>1. /\ UNCHANGED <<driver, parent, child, control, mailbox, status, up, quiet>>
          /\ op'.kind = "send" /\ OpOK' /\ op' # NoOp /\ bus # "free"
      BY <1>1 DEF NoOp, OpOK, PlainOps, queues, Apply
    <2>2. /\ ParentOK' /\ ControlGrows /\ SaidLess /\ DriverOK' /\ MailboxOK'
          /\ UNCHANGED <<bus, latched>> /\ parent'.accepting
      BY <1>1, <2>1, SameControl, SameStatus, SameTypes DEF IInv, driver
    <2> QED BY <2>1, <2>2, CallGoesOn
  <1>2. CASE Healthy /\ ~parent.accepting /\ Enable
    BY <1>2, EnableKeeps DEF Apply
  <1>3. CASE LatchIfUnhealthy
    BY <1>3, LatchIfUnhealthyKeeps DEF Apply
  <1> QED BY <1>1, <1>2, <1>3 DEF Apply

(* With the queues empty and nothing said, what holds of the child alone.  *)
LEMMA Emptied ==
    ASSUME control' = <<>>, status' = <<>>, mailbox' = None
    PROVE  /\ ControlOK' /\ StatusOK' /\ MailboxOK'
           /\ Said' = {} /\ Resumes' = {} /\ ResumesSound'
  <1>1. ControlOK' /\ StatusOK' /\ MailboxOK'
    BY CapAssumption, MaxAgeAssumption DEF ControlOK, StatusOK, MailboxOK
  <1>2. Said' = {} /\ Resumes' = {}
    BY DEF Said, Resumes
  <1> QED BY <1>1, <1>2 DEF ResumesSound

LEMMA ConnectKeeps == ASSUME IInv, Connect PROVE IInv' /\ BusStep
  <1>1. /\ ControlOK' /\ StatusOK' /\ MailboxOK' /\ Said' = {} /\ Resumes' = {} /\ ResumesSound'
    BY Emptied DEF Connect
  <1>2. child.pc = "none" /\ child.device = "off" /\ op = NoOp /\ bus = "free"
    BY DEF Connect, IInv, BusSound, ChildSound, Free
  <1>3. UNCHANGED <<timer, up, quiet>> /\ FlagsOK'
    BY SameTypes DEF Connect, IInv
  <1>4. CASE /\ bus' = "owned" /\ parent' = Started /\ child' = [NoChild EXCEPT !.pc = "boot"]
             /\ op' = [kind |-> "start", id |-> 0] /\ UNCHANGED latched
    <2>1. ParentOK' /\ parent'.stopped = NoWord
      BY <1>4 DEF Started, NewParent, NoWord, ParentOK, Parents, Words
    <2>2. /\ ChildOK' /\ child'.pc = "boot" /\ child'.device = "off" /\ ~child'.accepting
      BY <1>4 DEF NoChild, ChildOK, Children
    <2>3. OpOK' /\ DriverOK' /\ op'.kind = "start"
      BY <1>3, <1>4 DEF OpOK, PlainOps, DriverOK, IInv, Typed
    <2>4. ChildSound' /\ BusSound'
      BY <1>4, <2>2 DEF ChildSound, BusSound, HoldIsWatched, InLoop
    <2>5. WordsSound'
      BY <1>1, <2>1 DEF WordsSound, WordSound, NoWord
    <2>6. Settled'
      BY <1>1, <2>2 DEF Settled
    <2>7. OpSound' /\ QuietSound'
      BY <2>3, <2>6 DEF OpSound, QuietSound
    <2>8. BusStep
      BY <1>2, <1>4, <2>2 DEF BusStep, ArmBusSpec!Next, ArmBusSpec!Acquire
    <2> QED BY <1>1, <1>3, <2>1, <2>2, <2>3, <2>4, <2>5, <2>7, <2>8 DEF IInv, Typed
  <1>5. CASE /\ bus' = "blocked" /\ latched' = TRUE
             /\ parent' = [NewParent EXCEPT !.phase = "error", !.fault = TRUE]
             /\ UNCHANGED <<child, op>>
    <2>1. ParentOK' /\ parent'.stopped = NoWord
      BY <1>5 DEF NewParent, NoWord, ParentOK, Parents, Words
    <2>2. ChildOK' /\ OpOK'
      BY <1>5, SameTypes DEF IInv
    <2>3. DriverOK'
      BY <1>3, <1>5 DEF DriverOK, IInv, Typed
    <2>4. ChildSound' /\ BusSound'
      BY <1>5 DEF IInv, ChildSound, BusSound, HoldIsWatched, InLoop
    <2>5. WordsSound'
      BY <1>1, <2>1 DEF WordsSound, WordSound, NoWord
    <2>6. Settled => Settled'
      BY <1>1, <1>2, <1>5 DEF Settled
    <2>7. OpSound' /\ QuietSound'
      BY <1>2, <1>3, <1>5, <2>6 DEF OpSound, QuietSound, NoOp, IInv
    <2>8. BusStep
      BY <1>2, <1>5 DEF BusStep, ArmBusSpec!Next, ArmBusSpec!Acquire
    <2> QED BY <1>1, <1>3, <2>1, <2>2, <2>3, <2>4, <2>5, <2>7, <2>8 DEF IInv, Typed
  <1> QED BY <1>4, <1>5 DEF Connect

(* The word the supervisor goes by is one the child said.                  *)
LEMMA LastWordSound ==
    ASSUME IInv
    PROVE  /\ LastWord \in Words /\ WordSound(LastWord)
           /\ LastWord.closed => SaysClosed
  <1> DEFINE words == {k \in DOMAIN status : status[k].type = "stopped"}
             j == CHOOSE k \in words : TRUE
  <1>1. LastWord = IF parent.open /\ words # {} THEN status[j].word ELSE parent.stopped
    BY DEF LastWord
  <1>2. CASE words # {}
    <2>1. j \in words
      BY <1>2
    <2>2. status[j] \in Said /\ status[j].type = "stopped" /\ status[j] \in Messages
      <3> HIDE DEF j
      <3> QED BY <2>1 DEF Said, IInv, Typed, StatusOK
    <2>3. status[j].word \in Words
      <3> HIDE DEF j
      <3> QED BY <2>2 DEF Messages
    <2> HIDE DEF j, words
    <2> QED BY <1>1, <2>2, <2>3 DEF IInv, WordsSound, SaysClosed, Typed, ParentOK, Parents
  <1>3. CASE words = {}
    <2> HIDE DEF words
    <2> QED BY <1>1, <1>3 DEF IInv, WordsSound, SaysClosed, Typed, ParentOK, Parents
  <1> QED BY <1>2, <1>3

LEMMA StopEndsKeeps == ASSUME IInv, up, StopEnds PROVE IInv' /\ BusStep
  <1>1. /\ ControlOK' /\ StatusOK' /\ MailboxOK' /\ Said' = {} /\ Resumes' = {} /\ ResumesSound'
    BY Emptied DEF StopEnds
  <1>2. /\ bus # "free" /\ op' = NoOp /\ UNCHANGED <<timer, up, quiet>> /\ FlagsOK'
        /\ OpOK' /\ op.keep \in BOOLEAN /\ (op.idled => Settled)
    BY SameTypes DEF StopEnds, NoOp, OpOK, IInv, Typed, PlainOps, IdleOps, StopIdleOps,
       StopAskOps, JoinOps, BusSound, OpSound
  <1>3. CASE Clean /\ bus' = "free" /\ parent' = NewParent /\ child' = NoChild
             /\ latched' = (latched /\ op.keep)
    <2>1. child.device = "off"
      BY <1>2, <1>3, LastWordSound DEF Clean, WordSound, Settled
    <2>2. /\ ParentOK' /\ ChildOK' /\ parent'.stopped = NoWord /\ child'.pc = "none"
          /\ child'.device = "off" /\ ~child'.accepting
      BY <1>3 DEF NewParent, NoChild, NoWord, ParentOK, Parents, Words, ChildOK, Children
    <2>3. DriverOK'
      BY <1>2, <1>3 DEF DriverOK, IInv, Typed
    <2>4. ChildSound' /\ BusSound'
      BY <1>2, <1>3, <2>2 DEF ChildSound, BusSound, HoldIsWatched, InLoop
    <2>5. WordsSound'
      BY <1>1, <2>2 DEF WordsSound, WordSound, NoWord
    <2>6. Settled'
      BY <1>1, <2>2 DEF Settled
    <2>7. OpSound' /\ QuietSound'
      BY <1>2, <2>6 DEF OpSound, QuietSound, NoOp
    <2>8. BusStep
      BY <1>2, <1>3, <2>1, <2>2 DEF BusStep, ArmBusSpec!Next, ArmBusSpec!Release
    <2> QED BY <1>1, <1>2, <2>2, <2>3, <2>4, <2>5, <2>7, <2>8 DEF IInv, Typed
  <1>4. CASE /\ bus' = "blocked" /\ latched' = TRUE /\ UNCHANGED child
             /\ parent' = [parent EXCEPT !.phase = "error", !.fault = TRUE, !.open = FALSE,
                                         !.reaped = ~Alive, !.spawner = Alive,
                                         !.stopped = LastWord]
    <2>1. ParentOK' /\ parent'.stopped = LastWord /\ ChildOK'
      BY <1>4, LastWordSound, SameTypes DEF Alive, IInv, Typed, ParentOK, Parents
    <2>2. DriverOK'
      BY <1>2, <1>4 DEF DriverOK, IInv, Typed
    <2>3. ChildSound' /\ BusSound'
      BY <1>2, <1>4 DEF IInv, ChildSound, BusSound, HoldIsWatched, InLoop
    <2>4. WordsSound'
      BY <1>1, <1>4, <2>1, LastWordSound DEF WordsSound, WordSound
    <2>5. Settled => Settled'
      BY <1>1, <1>4, <2>1, LastWordSound DEF Settled, SaysClosed
    <2>6. OpSound' /\ QuietSound'
      BY <1>2, <1>4, <2>5 DEF OpSound, QuietSound, NoOp, IInv
    <2>7. BusStep
      BY <1>2, <1>4 DEF BusStep, ArmBusSpec!Next, ArmBusSpec!Block, IInv, BusSound, Typed, DriverOK
    <2> QED BY <1>1, <1>2, <2>1, <2>2, <2>3, <2>4, <2>6, <2>7 DEF IInv, Typed
  <1> QED BY <1>3, <1>4 DEF StopEnds

(* Ages are counted up to their limits.                                    *)
LEMMA Ages ==
    ASSUME NEW limit \in Nat, NEW age \in {None} \cup (0..limit)
    PROVE  Older(age, limit) \in {None} \cup (0..limit)
  BY DEF Older, None

LEMMA TickKeeps == ASSUME IInv, Tick PROVE IInv' /\ BusStep
  <1>1. UNCHANGED <<bus, latched, op, parent, control, status, up, quiet>>
    BY DEF Tick
  <1>2. DriverOK' /\ MailboxOK'
    BY Ages, MaxAgeAssumption DEF Tick, IInv, Typed, DriverOK, MailboxOK
  <1>3. /\ ChildOK' /\ UNCHANGED <<child.pc, child.device, child.accepting, child.idled>>
        /\ child'.watch = Older(child.watch, MaxAge + 1)
        /\ child'.target = Older(child.target, 2 * MaxAge + 1)
    <2>1. child \in Children
      BY DEF IInv, Typed, ChildOK
    <2> DEFINE w == Older(child.watch, MaxAge + 1)
               t == Older(child.target, 2 * MaxAge + 1)
    <2>2. w \in {None} \cup (0..MaxAge + 1) /\ t \in {None} \cup (0..2 * MaxAge + 1)
      BY <2>1, Ages, MaxAgeAssumption DEF Children
    <2>3. child' = [child EXCEPT !.watch = w, !.target = t]
      BY DEF Tick
    <2> HIDE DEF w, t
    <2>4. /\ child' \in Children
          /\ UNCHANGED <<child.pc, child.device, child.accepting, child.idled>>
          /\ child'.watch = w /\ child'.target = t
      BY <2>1, <2>2, <2>3 DEF Children
    <2> QED BY <2>4 DEF w, t, ChildOK
  <1>4. Typed'
    BY <1>1, <1>2, <1>3, SameTypes DEF IInv, Typed
  <1>5. HoldIsWatched'
    BY <1>3, MaxAgeAssumption DEF HoldIsWatched, IInv, ChildSound, Typed, ChildOK, Children,
       InLoop, Older, None
  <1>6. ChildSound' /\ BusSound'
    BY <1>1, <1>3, <1>5 DEF IInv, ChildSound, BusSound, InLoop
  <1>7. Said' = Said /\ Resumes' = Resumes /\ (SaysClosed' <=> SaysClosed)
    BY <1>1 DEF Said, Resumes, SaysClosed
  <1>8. WordsSound' /\ ResumesSound'
    BY <1>1, <1>3, <1>7 DEF IInv, WordsSound, WordSound, ResumesSound
  <1>9. Settled' <=> Settled
    BY <1>3, <1>7 DEF Settled
  <1>10. OpSound' /\ QuietSound'
    BY <1>1, <1>7, <1>9 DEF IInv, OpSound, QuietSound, IdleAsked, Free
  <1>11. BusStep
    BY <1>1, <1>3 DEF BusStep
  <1> QED BY <1>4, <1>6, <1>8, <1>10, <1>11 DEF IInv

-----------------------------------------------------------------------------
(* The child *)

(* A full queue loses its oldest message, and nothing else is said.        *)
LEMMA Puts ==
    ASSUME StatusOK, NEW m \in Messages, Put(m)
    PROVE  StatusOK' /\ Said' \subseteq Said \cup {m}
  <1>1. status \in Seq(Messages) /\ Len(status) <= StatusCap /\ StatusCap \in Nat \ {0}
    BY CapAssumption DEF StatusOK
  <1>2. CASE status' = Append(status, m) /\ Len(status) < StatusCap
    <2>1. StatusOK'
      BY <1>1, <1>2, Appends DEF StatusOK
    <2> QED BY <1>1, <1>2, <2>1, Appends DEF Said
  <1>3. CASE status' = Append(Tail(status), m) /\ ~(Len(status) < StatusCap)
    <2> DEFINE t == Tail(status)
    <2>1. /\ t \in Seq(Messages) /\ Len(t) = Len(status) - 1 /\ Len(status) \in Nat
          /\ \A k \in DOMAIN t : t[k] \in Said
      <3>1. status # <<>>
        BY <1>1, <1>3
      <3> QED BY <1>1, <3>1, Tails DEF Said
    <2> HIDE DEF t
    <2>2. status' = Append(t, m)
      BY <1>3 DEF t
    <2>3. StatusOK'
      BY <1>1, <2>1, <2>2, Appends DEF StatusOK
    <2>4. \A k \in DOMAIN status' : status'[k] \in Said \cup {m}
      BY <2>1, <2>2, Appends
    <2> QED BY <2>3, <2>4 DEF Said
  <1> QED BY <1>2, <1>3 DEF Put

(* A step of the child, whatever it answers.                               *)
LEMMA ChildKeeps ==
    ASSUME IInv, ChildOnly, ChildOK', ControlOK', MailboxOK', StatusOK',
           child.pc # "none", ChildSound', WordsSound', ResumesSound',
           Settled => Settled', \A i \in Nat : IdleAsked(i) => IdleAsked(i)',
           \/ child'.device \in {child.device, "unknown"}
           \/ <<child.device, child'.device>> \in {<<"off", "idle">>, <<"idle", "holding">>,
                                                   <<"holding", "idle">>, <<"idle", "off">>}
    PROVE  IInv' /\ BusStep
  <1>1. /\ UNCHANGED <<driver, op, parent, up, quiet>> /\ UNCHANGED <<bus, latched, op, parent>>
        /\ DriverOK' /\ OpOK' /\ ParentOK' /\ FlagsOK'
    BY SameTypes DEF ChildOnly, IInv, driver
  <1>2. Typed'
    BY <1>1 DEF Typed
  <1>3. bus # "free" /\ BusSound'
    BY <1>1 DEF IInv, BusSound
  <1>4. OpSound'
    <2>1. op.kind \in {"idle", "stopIdle"} => op.id \in Nat
      BY DEF IInv, Typed, OpOK, NoOp, PlainOps, IdleOps, StopIdleOps, StopAskOps, JoinOps
    <2>2. op.kind \in {"idle", "stopIdle"} /\ op.id # 0 => IdleAsked(op.id)'
      BY <1>1, <2>1 DEF IInv, OpSound
    <2> QED BY <1>1, <2>2 DEF IInv, OpSound, IdleAsked
  <1>5. QuietSound'
    BY <1>1 DEF IInv, QuietSound, Free
  <1>6. BusStep
    BY <1>1, <1>3 DEF BusStep, ArmBusSpec!Next, ArmBusSpec!Operate, ArmBusSpec!Lose
  <1> QED BY <1>2, <1>3, <1>4, <1>5, <1>6 DEF IInv

(* The device follows nothing, and takes no commands.                      *)
AtRest == ~child.accepting /\ child.device # "holding"

(* A step of the child that takes no request and ends nothing.             *)
LEMMA ChildWorks ==
    ASSUME IInv, ChildOnly, ChildOK', MailboxOK', StatusOK', UNCHANGED control,
           \A m \in Said' : m \in Said \/ m.type \in {"ready", "fault", "dropped"},
           child.pc \notin {"none", "exited"}, ChildSound', AtRest => AtRest',
           AtRest /\ child'.pc = "close" => child'.device # "unknown",
           \/ child'.device \in {child.device, "unknown"}
           \/ <<child.device, child'.device>> \in {<<"off", "idle">>, <<"idle", "holding">>,
                                                   <<"holding", "idle">>, <<"idle", "off">>}
    PROVE  IInv' /\ BusStep
  <1>1. ControlOK' /\ Resumes' = Resumes /\ UNCHANGED parent
    BY SameTypes DEF IInv, Resumes, ChildOnly
  <1>2. WordsSound' /\ ~SaysClosed'
    BY <1>1 DEF IInv, WordsSound, WordSound, SaysClosed
  <1>3. ResumesSound'
    BY <1>1 DEF IInv, ResumesSound, AtRest
  <1>4. Settled => Settled'
    BY <1>1, <1>2 DEF Settled, AtRest
  <1>5. ASSUME NEW i \in Nat, IdleAsked(i) PROVE IdleAsked(i)'
    BY <1>1, <1>4, <1>5 DEF IdleAsked
  <1> QED BY <1>1, <1>2, <1>3, <1>4, <1>5, ChildKeeps

(* A message that is no reply and no last word.                            *)
LEMMA SaysPlainly ==
    ASSUME StatusOK, \/ UNCHANGED status
                     \/ \E t \in {"ready", "fault", "dropped"} : Put([type |-> t])
    PROVE  /\ StatusOK'
           /\ \A m \in Said' : m \in Said \/ m.type \in {"ready", "fault", "dropped"}
  <1>1. CASE UNCHANGED status
    BY <1>1 DEF StatusOK, Said
  <1>2. ASSUME NEW t \in {"ready", "fault", "dropped"}, Put([type |-> t])
        PROVE  /\ StatusOK'
               /\ \A m \in Said' : m \in Said \/ m.type \in {"ready", "fault", "dropped"}
    <2> DEFINE n == [type |-> t]
    <2>1. n \in Messages /\ n.type = t /\ Put(n)
      BY <1>2 DEF Messages
    <2> HIDE DEF n
    <2> QED BY <2>1, Puts
  <1> QED BY <1>1, <1>2

LEMMA BootKeeps == ASSUME IInv, Boot PROVE IInv' /\ BusStep
  <1>1. /\ ChildOnly /\ UNCHANGED <<control, mailbox>> /\ child.pc = "boot" /\ MailboxOK'
        /\ child.device = "off" /\ child \in Children
    BY SameTypes DEF Boot, Running, IInv, ChildSound, Typed, ChildOK
  <1>2. StatusOK' /\ \A m \in Said' : m \in Said \/ m.type \in {"ready", "fault", "dropped"}
    BY SaysPlainly DEF Boot, Raise, IInv, Typed
  <1>3. /\ ChildOK' /\ child'.pc \in {"control", "final"} /\ child'.device \in {"off", "idle"}
        /\ child'.accepting = child.accepting /\ (child'.pc = "control" => child'.device = "idle")
    BY <1>1 DEF Boot, Raise, Top, ChildOK, Children
  <1>4. ChildSound'
    BY <1>3 DEF ChildSound, HoldIsWatched, InLoop
  <1> QED BY <1>1, <1>2, <1>3, <1>4, ChildWorks DEF AtRest

LEMMA ControlDrainedKeeps == ASSUME IInv, ControlDrained PROVE IInv' /\ BusStep
  <1>1. /\ ChildOnly /\ UNCHANGED <<control, mailbox, status>> /\ child.pc = "control"
        /\ child \in Children /\ child.device \in {"idle", "holding"}
    BY DEF ControlDrained, Running, queues, IInv, ChildSound, InLoop, Typed, ChildOK
  <1>2. /\ MailboxOK' /\ StatusOK'
        /\ \A m \in Said' : m \in Said \/ m.type \in {"ready", "fault", "dropped"}
    BY <1>1, SaysPlainly, SameTypes DEF IInv, Typed
  <1>3. /\ ChildOK' /\ child'.pc \in {"command", "final"}
        /\ UNCHANGED <<child.device, child.accepting, child.watch, child.target>>
    BY <1>1 DEF ControlDrained, ChildOK, Children
  <1>4. ChildSound'
    BY <1>1, <1>3 DEF IInv, ChildSound, HoldIsWatched, InLoop
  <1> QED BY <1>1, <1>2, <1>3, <1>4, ChildWorks DEF AtRest

(* A command is followed only while commands are accepted, and is watched. *)
LEMMA TakeCommandKeeps == ASSUME IInv, TakeCommand PROVE IInv' /\ BusStep
  <1>1. /\ ChildOnly /\ UNCHANGED control /\ child.pc = "command" /\ MailboxOK'
        /\ child \in Children /\ child.device \in {"idle", "holding"}
    BY MaxAgeAssumption DEF TakeCommand, Running, IInv, ChildSound, InLoop, Typed, ChildOK,
       MailboxOK
  <1>2. StatusOK' /\ \A m \in Said' : m \in Said \/ m.type \in {"ready", "fault", "dropped"}
    BY SaysPlainly DEF TakeCommand, Raise, IInv, Typed
  <1>3. CASE child' = [child EXCEPT !.pc = "watchdog"]
    <2>1. /\ ChildOK' /\ child'.pc = "watchdog"
          /\ UNCHANGED <<child.device, child.accepting, child.watch, child.target>>
      BY <1>1, <1>3 DEF ChildOK, Children
    <2>2. ChildSound'
      BY <1>1, <2>1 DEF IInv, ChildSound, HoldIsWatched, InLoop
    <2> QED BY <1>1, <1>2, <2>1, <2>2, ChildWorks DEF AtRest
  <1>4. CASE /\ child.accepting /\ mailbox # None /\ Fresh
             /\ \E pc \in {"watchdog", "final"} :
                   child' = [child EXCEPT !.device = "holding", !.target = mailbox,
                                          !.watch = 0, !.pc = pc]
    <2>1. /\ mailbox \in 0..MaxAge /\ MaxAge \in Nat /\ mailbox \in 0..2 * MaxAge + 1
          /\ 0 \in 0..MaxAge + 1
      BY <1>4, MaxAgeAssumption DEF Fresh, IInv, Typed, MailboxOK, None
    <2>2. PICK pc \in {"watchdog", "final"} :
                   child' = [child EXCEPT !.device = "holding", !.target = mailbox,
                                          !.watch = 0, !.pc = pc]
      BY <1>4
    <2>3. /\ ChildOK' /\ child'.pc \in {"watchdog", "final"} /\ child'.device = "holding"
          /\ child'.accepting /\ child'.watch = 0 /\ child'.target = mailbox
      BY <1>1, <1>4, <2>1, <2>2 DEF ChildOK, Children
    <2>4. ChildSound'
      BY <2>1, <2>3 DEF ChildSound, HoldIsWatched, InLoop, None
    <2> QED BY <1>1, <1>2, <1>4, <2>3, <2>4, ChildWorks DEF AtRest
  <1> QED BY <1>1, <1>3, <1>4 DEF TakeCommand, Raise

LEMMA WatchdogFiresKeeps == ASSUME IInv, WatchdogFires PROVE IInv' /\ BusStep
  <1>1. /\ ChildOnly /\ UNCHANGED control /\ child.pc = "watchdog" /\ MailboxOK'
        /\ child \in Children /\ child.device \in {"idle", "holding"}
    BY DEF WatchdogFires, Running, IInv, ChildSound, InLoop, Typed, ChildOK, MailboxOK
  <1>2. StatusOK' /\ \A m \in Said' : m \in Said \/ m.type \in {"ready", "fault", "dropped"}
    BY SaysPlainly DEF WatchdogFires, Raise, IInv, Typed
  <1>3. /\ ChildOK' /\ child'.pc = "final" /\ ~child'.accepting
        /\ child'.device \in {child.device, "idle"}
    BY <1>1 DEF WatchdogFires, Raise, Idled, ChildOK, Children
  <1>4. ChildSound'
    BY <1>1, <1>3 DEF ChildSound, HoldIsWatched, InLoop
  <1> QED BY <1>1, <1>2, <1>3, <1>4, ChildWorks DEF AtRest

LEMMA EndIterationKeeps == ASSUME IInv, EndIteration PROVE IInv' /\ BusStep
  <1>1. /\ ChildOnly /\ UNCHANGED <<control, mailbox>> /\ child.pc = "watchdog" /\ MailboxOK'
        /\ child \in Children /\ child.device \in {"idle", "holding"}
    BY SameTypes DEF EndIteration, Running, IInv, ChildSound, InLoop, Typed, ChildOK
  <1>2. StatusOK' /\ \A m \in Said' : m \in Said \/ m.type \in {"ready", "fault", "dropped"}
    BY SaysPlainly DEF EndIteration, Raise, IInv, Typed
  <1>3. /\ ChildOK' /\ child'.pc \in {"control", "final"}
        /\ UNCHANGED <<child.device, child.accepting, child.watch, child.target>>
    BY <1>1 DEF EndIteration, Raise, Top, ChildOK, Children
  <1>4. ChildSound'
    BY <1>1, <1>3 DEF IInv, ChildSound, HoldIsWatched, InLoop
  <1> QED BY <1>1, <1>2, <1>3, <1>4, ChildWorks DEF AtRest

LEMMA FinalIdleKeeps == ASSUME IInv, FinalIdle PROVE IInv' /\ BusStep
  <1>1. /\ ChildOnly /\ UNCHANGED <<control, mailbox, status>> /\ child.pc = "final"
        /\ child \in Children /\ child.device \in {"off", "idle", "holding"}
    BY DEF FinalIdle, Running, queues, IInv, ChildSound, Typed, ChildOK
  <1>2. /\ MailboxOK' /\ StatusOK'
        /\ \A m \in Said' : m \in Said \/ m.type \in {"ready", "fault", "dropped"}
    BY <1>1, SaysPlainly, SameTypes DEF IInv, Typed
  <1>3. \/ child.device = "off" /\ child' = [child EXCEPT !.pc = "close"]
        \/ child.device # "off" /\ child' = [Idled(child) EXCEPT !.pc = "close"]
        \/ /\ child.device # "off"
           /\ child' = [child EXCEPT !.pc = "close", !.idled = FALSE,
                                     !.device = IF @ = "holding" THEN "unknown" ELSE @]
    BY DEF FinalIdle
  <1>4. /\ ChildOK' /\ child'.pc = "close" /\ (child'.accepting => child.accepting)
        /\ child'.device \in {"off", "idle", "unknown"}
        /\ (child'.device = "unknown" => child.device = "holding" /\ ~child'.idled)
        /\ (child'.device = "idle" => child.device # "off")
        /\ (child'.device = "off" => child.device = "off")
    <2>1. CASE child.device = "off" /\ child' = [child EXCEPT !.pc = "close"]
      BY <1>1, <2>1 DEF ChildOK, Children
    <2>2. CASE child.device # "off" /\ child' = [Idled(child) EXCEPT !.pc = "close"]
      BY <1>1, <2>2 DEF Idled, ChildOK, Children
    <2>3. CASE /\ child.device # "off"
               /\ child' = [child EXCEPT !.pc = "close", !.idled = FALSE,
                                         !.device = IF @ = "holding" THEN "unknown" ELSE @]
      BY <1>1, <2>3 DEF ChildOK, Children
    <2> QED BY <1>3, <2>1, <2>2, <2>3
  <1>5. ChildSound'
    BY <1>4 DEF ChildSound, HoldIsWatched, InLoop
  <1> QED BY <1>1, <1>2, <1>4, <1>5, ChildWorks DEF AtRest

LEMMA DiesKeeps == ASSUME IInv, Alive, Dies PROVE IInv' /\ BusStep
  <1>1. /\ ChildOnly /\ UNCHANGED <<control, mailbox, status>> /\ child \in Children
        /\ child.pc \notin {"none", "exited"}
    BY DEF Dies, Alive, queues, IInv, Typed, ChildOK
  <1>2. /\ MailboxOK' /\ StatusOK'
        /\ \A m \in Said' : m \in Said \/ m.type \in {"ready", "fault", "dropped"}
    BY <1>1, SaysPlainly, SameTypes DEF IInv, Typed
  <1>3. /\ ChildOK' /\ child'.pc = "exited" /\ child'.accepting = child.accepting
        /\ child'.device = IF child.device = "off" THEN "off" ELSE "unknown"
    BY <1>1 DEF Dies, ChildOK, Children
  <1>4. ChildSound'
    BY <1>3 DEF ChildSound, HoldIsWatched, InLoop
  <1> QED BY <1>1, <1>2, <1>3, <1>4, ChildWorks DEF AtRest

LEMMA LagKeeps == ASSUME IInv, Lags \/ CatchesUp PROVE IInv' /\ BusStep
  <1>1. UNCHANGED <<driver, op, parent, control, mailbox, status, up, quiet>>
    BY DEF Lags, CatchesUp, ChildOnly, queues
  <1>2. ParentOnly
    BY DEF Lags, CatchesUp, ParentOnly, IInv, Typed, ChildOK, Children
  <1>3. ParentOK' /\ ControlGrows /\ SaidLess
    BY <1>1, SameTypes, SameControl, SameStatus DEF IInv
  <1>4. op.kind \in {"idle", "stopIdle"} /\ parent'.replied => Settled
    BY <1>1 DEF IInv, OpSound
  <1> QED BY <1>1, <1>2, <1>3, <1>4, SameOpKeeps

(* What the child says last is true: closed only of an idle device.        *)
LEMMA FinalCloseKeeps == ASSUME IInv, FinalClose PROVE IInv' /\ BusStep
  <1>1. /\ ChildOnly /\ UNCHANGED <<control, mailbox>> /\ child.pc = "close" /\ child \in Children
        /\ child.device \in {"off", "idle", "unknown"}
        /\ (child.device = "unknown" => ~child.idled) /\ child.idled \in BOOLEAN
        /\ ControlOK' /\ MailboxOK' /\ UNCHANGED parent
    BY SameTypes DEF FinalClose, Running, IInv, ChildSound, Typed, ChildOK, Children, ChildOnly
  <1>2. PICK closed \in {child.device # "off", FALSE} :
            /\ child' = [child EXCEPT !.pc = "exited", !.ok = TRUE,
                            !.device = IF @ = "off" \/ (closed /\ @ = "idle")
                                       THEN "off" ELSE "unknown"]
            /\ Put([type |-> "stopped", word |-> [idle |-> child.idled, closed |-> closed]])
    BY DEF FinalClose
  <1> DEFINE w == [idle |-> child.idled, closed |-> closed]
             m == [type |-> "stopped", word |-> w]
  <1>3. w.closed = closed /\ w.idle = child.idled /\ w \in Words
    BY <1>1, <1>2 DEF Words
  <1>4. StatusOK' /\ Said' \subseteq Said \cup {m} /\ m.type = "stopped" /\ m.word = w
    <2>1. m \in Messages /\ Put(m) /\ m.type = "stopped" /\ m.word = w
      <3> HIDE DEF w
      <3> QED BY <1>2, <1>3 DEF Messages, w
    <2> HIDE DEF m
    <2> QED BY <2>1, Puts DEF IInv, Typed
  <1>5. /\ ChildOK' /\ child'.pc = "exited" /\ child'.accepting = child.accepting
        /\ child'.device \in {"off", "unknown"}
        /\ (closed /\ child.device = "idle" => child'.device = "off")
        /\ (child.device = "unknown" => child'.device = "unknown")
        /\ (child.device = "off" => child'.device = "off" /\ ~closed)
    BY <1>1, <1>2 DEF ChildOK, Children
  <1> HIDE DEF m, w
  <1>6. ~parent.stopped.closed /\ \A n \in Said : n.type = "stopped" => ~n.word.closed
    BY <1>1 DEF IInv, WordsSound, WordSound
  <1>7. WordsSound'
    BY <1>1, <1>3, <1>4, <1>5, <1>6 DEF WordsSound, WordSound
  <1>8. SaysClosed' => closed
    BY <1>1, <1>3, <1>4, <1>6 DEF SaysClosed
  <1>9. Resumes' = Resumes /\ ResumesSound'
    BY <1>1, <1>5 DEF Resumes, ResumesSound, IInv
  <1>10. Settled => Settled'
    BY <1>1, <1>5, <1>8, <1>9 DEF Settled
  <1>11. ASSUME NEW i \in Nat, IdleAsked(i) PROVE IdleAsked(i)'
    BY <1>1, <1>4, <1>9, <1>10, <1>11 DEF IdleAsked
  <1>12. ChildSound'
    BY <1>5 DEF ChildSound, HoldIsWatched, InLoop
  <1> QED BY <1>1, <1>4, <1>5, <1>7, <1>9, <1>10, <1>11, <1>12, ChildKeeps

(* A request is answered with what it asked for done, or ends the loop.    *)
LEMMA HandleControlKeeps == ASSUME IInv, HandleControl PROVE IInv' /\ BusStep
  <1> DEFINE r == Head(control)
             resume == r.op = "resume_commands"
             reply == [type |-> "reply", id |-> r.id]
             Answered == Said' \subseteq Said \cup {reply}
             Raised == \A m \in Said' : m \in Said \/ m.type = "fault"
  <1>1. /\ ChildOnly /\ control' = Tail(control) /\ control # <<>> /\ child.pc = "control"
        /\ child \in Children /\ child.device \in {"idle", "holding"}
        /\ control \in Seq(Requests) /\ Len(control) <= ControlCap /\ UNCHANGED parent
        /\ StatusOK /\ ControlCap \in Nat
    BY CapAssumption DEF HandleControl, Running, ChildOnly, IInv, ChildSound, InLoop, Typed,
       ChildOK, ControlOK
  <1>2. /\ control' \in Seq(Requests) /\ Len(control') = Len(control) - 1 /\ Len(control) \in Nat
        /\ 1 \in DOMAIN control /\ control[1] = r /\ r \in Requests
        /\ \A k \in DOMAIN control' : k \in Nat \ {0} /\ k + 1 \in DOMAIN control
                                      /\ control'[k] = control[k + 1]
    BY <1>1, Tails
  <1>3. /\ ControlOK' /\ (resume <=> 1 \in Resumes)
        /\ \A k \in Resumes' : k \in Nat \ {0} /\ k + 1 \in Resumes
    BY <1>1, <1>2 DEF ControlOK, Resumes
  <1>4. MailboxOK'
    BY DEF HandleControl, IInv, Typed, MailboxOK
  <1>5. \/ /\ resume /\ child' = [child EXCEPT !.accepting = TRUE, !.watch = None]
           /\ Put(reply)
        \/ /\ ~resume /\ child' = [Idled(child) EXCEPT !.stop = @ \/ r.op = "shutdown"]
           /\ Put(reply)
        \/ /\ ~resume /\ child' = [child EXCEPT !.accepting = FALSE, !.watch = None,
                                                !.pc = "final"]
           /\ Put([type |-> "fault"])
    BY DEF HandleControl, Raise
  <1>6. Put(reply) => StatusOK' /\ Answered
    <2>1. reply \in Messages
      BY <1>2 DEF Messages, Requests
    <2> HIDE DEF reply
    <2> QED BY <1>1, <2>1, Puts
  <1>7. reply.type = "reply" /\ reply.id = r.id
    OBVIOUS
  <1>8. Put([type |-> "fault"]) => StatusOK' /\ Raised
    <2> DEFINE n == [type |-> "fault"]
    <2>1. n \in Messages /\ n.type = "fault"
      BY DEF Messages
    <2> HIDE DEF n
    <2>2. Put(n) => StatusOK' /\ Raised
      BY <1>1, <2>1, Puts
    <2> QED BY <2>2 DEF n
  <1>9. /\ StatusOK'
        /\ \/ Answered /\ child'.pc = "control"
           \/ Raised /\ ~resume /\ child'.pc = "final"
    BY <1>1, <1>5, <1>6, <1>8 DEF Idled, Children
  <1>10. /\ ChildOK' /\ child'.pc \in {"control", "final"}
         /\ child'.device \in {child.device, "idle"}
         /\ resume => child'.accepting /\ child'.device = child.device
         /\ ~resume => ~child'.accepting
         /\ ~resume /\ child'.pc = "control" => child'.device = "idle"
    <2>1. CASE resume /\ child' = [child EXCEPT !.accepting = TRUE, !.watch = None]
      BY <1>1, <2>1 DEF ChildOK, Children
    <2>2. CASE ~resume /\ child' = [Idled(child) EXCEPT !.stop = @ \/ r.op = "shutdown"]
      BY <1>1, <2>2 DEF Idled, ChildOK, Children
    <2>3. CASE ~resume /\ child' = [child EXCEPT !.accepting = FALSE, !.watch = None,
                                                 !.pc = "final"]
      BY <1>1, <2>3 DEF ChildOK, Children
    <2> QED BY <1>5, <2>1, <2>2, <2>3
  <1> HIDE DEF reply, resume, r
  <1>11. resume => Resumes' = {} /\ child.device # "holding" /\ ~Settled
    BY <1>3 DEF IInv, ResumesSound, Settled
  <1>12. ChildSound'
    BY <1>1, <1>10, <1>11 DEF ChildSound, HoldIsWatched, InLoop
  <1>13. WordsSound' /\ ~SaysClosed'
    BY <1>1, <1>7, <1>9 DEF IInv, WordsSound, WordSound, SaysClosed
  <1>14. ResumesSound'
    <2>1. Resumes' # {} => ~resume /\ Resumes # {}
      BY <1>3, <1>11
    <2>2. \A j, k \in Resumes' : j = k
      BY <1>3 DEF IInv, ResumesSound
    <2> QED BY <1>10, <2>1, <2>2 DEF IInv, ResumesSound
  <1>15. Settled => Settled'
    BY <1>3, <1>10, <1>11, <1>13 DEF Settled
  <1>16. ASSUME NEW i \in Nat, IdleAsked(i) PROVE IdleAsked(i)'
    <2>1. ASSUME NEW k \in DOMAIN control', control'[k].id = i
          PROVE  control'[k].op = "safe_idle" /\ \A j \in Resumes' : j < k
      <3>1. k + 1 \in DOMAIN control /\ control'[k] = control[k + 1] /\ k \in Nat
        BY <1>2
      <3>2. control[k + 1].op = "safe_idle" /\ \A j \in Resumes : j < k + 1
        BY <1>16, <2>1, <3>1 DEF IdleAsked
      <3> QED BY <1>3, <3>1, <3>2
    <2>2. ASSUME NEW m \in Said', m.type = "reply", m.id = i PROVE Settled'
      <3>1. CASE m \in Said
        BY <1>15, <1>16, <2>2, <3>1 DEF IdleAsked
      <3>2. CASE m \notin Said
        <4>1. r.id = i /\ Answered
          BY <1>7, <1>9, <2>2, <3>2
        <4>2. control[1].op = "safe_idle" /\ \A j \in Resumes : j < 1
          BY <1>2, <1>16, <4>1 DEF IdleAsked
        <4>3. ~resume /\ Resumes' = {}
          BY <1>2, <1>3, <4>2 DEF resume
        <4>4. child'.pc = "control" => child'.device = "idle"
          BY <1>10, <4>3
        <4>5. child'.pc = "control"
          BY <1>9, <2>2, <3>2
        <4> QED BY <1>10, <1>13, <4>3, <4>4, <4>5 DEF Settled
      <3> QED BY <3>1, <3>2
    <2> QED BY <2>1, <2>2 DEF IdleAsked
  <1> QED BY <1>1, <1>3, <1>4, <1>9, <1>10, <1>12, <1>13, <1>14, <1>15, <1>16, ChildKeeps

-----------------------------------------------------------------------------
(* The theorems *)

LEMMA InitIInv == Init => IInv
  <1> SUFFICES ASSUME Init PROVE IInv
    OBVIOUS
  <1>1. /\ child.pc = "none" /\ child.device = "off" /\ ~child.accepting /\ op = NoOp
        /\ bus = "free" /\ parent.stopped = NoWord /\ control = <<>> /\ status = <<>>
    BY DEF Init, NoChild, NewParent
  <1>2. Typed
    <2>1. DriverOK /\ OpOK /\ ControlOK /\ MailboxOK /\ StatusOK /\ FlagsOK
      <3>1. DriverOK /\ OpOK /\ MailboxOK /\ FlagsOK
        BY DEF Init, DriverOK, OpOK, MailboxOK, FlagsOK
      <3>2. ControlOK /\ StatusOK
        BY <1>1, CapAssumption DEF ControlOK, StatusOK
      <3> QED BY <3>1, <3>2
    <2>2. ParentOK
      BY DEF Init, NewParent, NoWord, ParentOK, Parents, Words
    <2>3. ChildOK
      BY DEF Init, NoChild, ChildOK, Children
    <2> QED BY <2>1, <2>2, <2>3 DEF Typed
  <1>3. ChildSound /\ BusSound
    BY <1>1 DEF ChildSound, BusSound, HoldIsWatched, InLoop
  <1>4. Said = {} /\ Resumes = {}
    BY <1>1 DEF Said, Resumes
  <1>5. WordsSound /\ ResumesSound /\ Settled
    BY <1>1, <1>4 DEF WordsSound, WordSound, NoWord, ResumesSound, Settled
  <1>6. OpSound /\ QuietSound
    BY <1>1, <1>5 DEF OpSound, NoOp, QuietSound
  <1> QED BY <1>2, <1>3, <1>5, <1>6 DEF IInv

LEMMA CallKeeps == ASSUME IInv, up, Call PROVE IInv' /\ BusStep
  BY StartDoneKeeps, StartFailsKeeps, EnableDoneKeeps, EnableFailsKeeps, SendChecksKeeps,
     SendPutsKeeps, SendEndsKeeps, IdleDoneKeeps, IdleFailsKeeps, StopIdledKeeps,
     StopAskedKeeps, JoinForcesKeeps, StopEndsKeeps DEF Call

LEMMA WorkKeeps == ASSUME IInv, Work PROVE IInv' /\ BusStep
  BY BootKeeps, HandleControlKeeps, ControlDrainedKeeps, TakeCommandKeeps, WatchdogFiresKeeps,
     EndIterationKeeps, FinalIdleKeeps, FinalCloseKeeps DEF Work

LEMMA StepIInv == ASSUME IInv, [Next]_vars PROVE IInv' /\ BusStep
  <1>1. CASE Drain \/ Monitor \/ (up /\ Call) \/ Work
    BY <1>1, DrainKeeps, MonitorKeeps, CallKeeps, WorkKeeps
  <1>2. CASE Connect \/ Apply \/ SafeIdle \/ TimerFires \/ LatchFault \/ Disconnect \/ ForgetFault
    BY <1>2, ConnectKeeps, ApplyKeeps, SafeIdleKeeps, TimerFiresKeeps, LatchFaultKeeps,
       DisconnectKeeps, ForgetFaultKeeps
  <1>3. CASE Killed \/ Crashes \/ Lags \/ CatchesUp
    BY <1>3, DiesKeeps, LagKeeps DEF Killed, Crashes
  <1>4. CASE ParentDies \/ Tick
    BY <1>4, ParentDiesKeeps, TickKeeps
  <1>5. CASE UNCHANGED vars
    <2>1. UNCHANGED <<driver, op, parent, child, control, mailbox, status, up, quiet>>
      BY <1>5 DEF vars, queues
    <2>2. ParentOnly /\ ParentOK' /\ ControlGrows /\ SaidLess
      BY <2>1, SameTypes, SameChild, SameControl, SameStatus DEF IInv
    <2>3. op.kind \in {"idle", "stopIdle"} /\ parent'.replied => Settled
      BY <2>1 DEF IInv, OpSound
    <2> QED BY <2>1, <2>2, <2>3, SameOpKeeps
  <1> QED BY <1>1, <1>2, <1>3, <1>4, <1>5 DEF Next

(* The worker's inductive invariant: an answered request to idle leaves    *)
(* commands settled, a request to enable them finds the device at rest and *)
(* is alone on its way, and the child's last word is true                  *)
(* (_request_control, the child's loop and its finally clause).            *)
THEOREM Inductive == Spec => []IInv
  <1>1. IInv /\ [Next]_vars => IInv'
    BY StepIInv
  <1> QED BY InitIInv, <1>1, PTL DEF Spec

(* The state keeps its shape, and the queues their limits.                 *)
THEOREM TypeCorrect == Spec => []TypeOK
  <1>1. IInv => TypeOK
    BY DEF IInv, Typed, DriverOK, ChildOK, Children, ControlOK, StatusOK, TypeOK
  <1> QED BY <1>1, Inductive, PTL

(* Once safe_idle of the driver has returned, no command sent before it    *)
(* moves the device, however late the child takes it.                      *)
THEOREM ConfirmedIdleHolds == Spec => []IdleHolds
  <1>1. IInv => IdleHolds
    BY DEF IInv, QuietSound, Settled, IdleHolds
  <1> QED BY <1>1, Inductive, PTL

(* Whatever the device follows is watched, and no older than the limit     *)
(* plus the time since it was accepted (_validate_command, the watchdog).  *)
THEOREM HeldDeviceIsWatched == Spec => []HoldIsWatched
  <1>1. IInv => HoldIsWatched
    BY DEF IInv, ChildSound
  <1> QED BY <1>1, Inductive, PTL

(* The worker keeps to ArmBus: the lease is released with the device off,  *)
(* and a device in no known state keeps its bus (shutdown's evidence), for *)
(* as long as ctrl-pi lives; with it goes its lock.                        *)
THEOREM KeepsToArmBus == Spec => ImplementsArmBus
  <1>1. Init => ArmBusSpec!Init
    BY DEF Init, NoChild, ArmBusSpec!Init
  <1>2. IInv /\ [Next]_vars => [ArmBusSpec!Next]_<<bus, child.device>>
    BY StepIInv DEF BusStep
  <1> QED BY <1>1, <1>2, Inductive, PTL DEF Spec, ImplementsArmBus, ArmBusSpec!Spec
=============================================================================
