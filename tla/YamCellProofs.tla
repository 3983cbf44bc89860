---------------------------- MODULE YamCellProofs ----------------------------
(***************************************************************************)
(* For any arms, pairs, interfaces and configurations, and any number of   *)
(* failures: a bus has one owner, every arm keeps to ArmBus, no arm moves  *)
(* beside a fault of its pair, and a failed connect leaves nothing behind. *)
(***************************************************************************)
EXTENDS YamCell, WellFoundedInduction, TLAPS

Runtimes == [interface : Interfaces \cup {None}, blocked : BOOLEAN, healthy : BOOLEAN,
             timer : BOOLEAN]

ConnectOps == [kind : {"connect"}, todo : SUBSET Arms, started : SUBSET Arms,
               starting : BOOLEAN, before : SUBSET Arms]
UndoOps == [kind : {"undo"}, todo : SUBSET Arms, stop : SUBSET Arms, before : SUBSET Arms]
StopOps == [kind : {"disconnect", "reset"}, todo : SUBSET Arms, stop : SUBSET Arms]
LatchOps == [kind : {"latch"}, todo : SUBSET Arms, stop : SUBSET Arms, given : SUBSET Arms]
CheckOps == [kind : {"check"}, todo : SUBSET Arms]

SetupOK == mode \in {"empty", "legacy", "cell"} /\ cell \in SUBSET Arms
RuntimeOK == runtime \in [Arms -> Runtimes]
DeviceOK == device \in [Arms -> {"off", "idle", "holding", "unknown"}]
LeasesOK == leases \in SUBSET [arm : Arms, interface : Interfaces, by : {"worker", "handle"}]
FaultsOK == faults \in SUBSET Arms
HandleOK == handle \in [Arms -> {"none", "sampling", "stuck"}]
InventoryOK == inventory \in [Arms -> Interfaces \cup {None}]
OpOK == op \in {NoOp} \cup ConnectOps \cup UndoOps \cup StopOps \cup LatchOps \cup CheckOps

TypeOK == /\ SetupOK /\ RuntimeOK /\ DeviceOK /\ LeasesOK /\ FaultsOK
          /\ HandleOK /\ InventoryOK /\ OpOK

(* Who has a lock is known by what it is for, and a device that may be on  *)
(* has a worker's.                                                         *)
LeasesSound ==
    /\ OneOwnerPerBus
    /\ \A l \in leases : l.by = "handle" <=> handle[l.arm] # "none"
    /\ \A a \in Starting : handle[a] = "none"
    /\ \A a \in Arms : device[a] # "off" => a \in Connected \cup Starting

(* What an operation has still to do, and whom it has started.             *)
OpSound ==
    /\ op.kind = "connect" =>
          /\ Connected = op.before \cup op.started /\ op.before \cap op.started = {}
          /\ op.starting => op.todo # {} /\ ~Has(Turn)
    /\ op.kind = "undo" =>
          /\ op.before \subseteq Connected /\ op.before \cap (op.todo \cup op.stop) = {}
          /\ \A a \in Connected : \/ a \in op.before \cup op.todo \cup op.stop
                                  \/ runtime[a].blocked
    /\ op.kind \in {"disconnect", "reset", "latch"} => op.stop \subseteq Connected
    /\ op.kind = "reset" => \A a \in Arms : handle[a] = "none"
    /\ op.kind = "check" => op.todo # {}
    /\ \A a, b \in Stops : a = b
    /\ op.kind # "none" => op.todo \subseteq cell
    /\ op.kind = "latch" => op.given \subseteq cell /\ op.given \ op.todo \subseteq faults

(* Faults are of arms of the cell, and their pairs are marked.             *)
FaultsSound ==
    /\ {l.arm : l \in leases} \subseteq cell /\ faults \subseteq cell
    /\ \A b \in faults : PairOf[b] \subseteq pairFaults

IInv == TypeOK /\ LeasesSound /\ OpSound /\ FaultsSound

-----------------------------------------------------------------------------
(* Types and the order of the arms *)

LEMMA SameTypes ==
    ASSUME TypeOK
    PROVE  /\ UNCHANGED setup => SetupOK'
           /\ UNCHANGED runtime => RuntimeOK'
           /\ UNCHANGED device => DeviceOK'
           /\ UNCHANGED leases => LeasesOK'
           /\ UNCHANGED faults => FaultsOK'
           /\ UNCHANGED handle => HandleOK'
           /\ UNCHANGED inventory => InventoryOK'
           /\ UNCHANGED op => OpOK'
  BY DEF TypeOK, SetupOK, RuntimeOK, DeviceOK, LeasesOK, FaultsOK, HandleOK, InventoryOK,
     OpOK, setup

LEMMA FirstOf == ASSUME NEW S \in SUBSET Nat, S # {} PROVE \E q \in S : \A r \in S : q <= r
  <1> DEFINE R == {ss \in Nat \X Nat : ss[1] < ss[2]}
  <1>1. IsWellFoundedOn(R, Nat)
    BY NatLessThanWellFounded, Zenon DEF OpToRel
  <1>2. \A a, b \in Nat : a < b => <<a, b>> \in R
    OBVIOUS
  <1> HIDE DEF R
  <1>3. PICK x \in S : \A y \in S : ~(<<y, x>> \in R)
    BY <1>1, WFMin
  <1>4. ASSUME NEW r \in S PROVE x <= r
    <2>1. ~(r < x)
      BY <1>2, <1>3, Zenon
    <2> QED BY <2>1
  <1> QED BY <1>4

LEMMA LastOf ==
    ASSUME NEW n \in Nat, NEW S \in SUBSET (1..n), S # {}
    PROVE  \E q \in S : \A r \in S : r <= q
  <1> DEFINE T == {n - i : i \in S}
  <1>1. T \in SUBSET Nat /\ T # {}
    <2>1. \A i \in S : i \in 1..n /\ n - i \in Nat
      OBVIOUS
    <2>2. PICK i \in S : TRUE
      OBVIOUS
    <2>3. n - i \in T
      BY <2>2
    <2> QED BY <2>1, <2>3
  <1>2. PICK t \in T : \A u \in T : t <= u
    <2> HIDE DEF T
    <2> QED BY <1>1, FirstOf
  <1>3. PICK q \in S : t = n - q
    BY <1>2
  <1>4. ASSUME NEW r \in S PROVE r <= q
    <2>1. n - q <= n - r
      BY <1>2, <1>3
    <2> QED BY <2>1
  <1> QED BY <1>4

(* An arm that sorting picks from a set is one of it.                      *)
LEMMA Picked ==
    ASSUME NEW S \in SUBSET Arms, S # {}
    PROVE  Lowest(S) \in S /\ Highest(S) \in S
  <1> DEFINE I == {i \in 1..Len(Ids) : Ids[i] \in S}
  <1>1. I # {} /\ I \in SUBSET (1..Len(Ids)) /\ I \in SUBSET Nat /\ Len(Ids) \in Nat
    <2>1. PICK a \in S : TRUE
      OBVIOUS
    <2>2. PICK i \in 1..Len(Ids) : Ids[i] = a
      BY <2>1, ArmsAssumption DEF ToSet
    <2> QED BY <2>1, <2>2, ArmsAssumption
  <1>2. SelectInSeq(Ids, LAMBDA a : a \in S) \in I
    <2>1. Min(I) \in I
      BY <1>1, FirstOf DEF Min
    <2> QED BY <1>1, <2>1 DEF SelectInSeq
  <1>3. SelectLastInSeq(Ids, LAMBDA a : a \in S) \in I
    <2>1. Max(I) \in I
      BY <1>1, LastOf DEF Max
    <2> QED BY <1>1, <2>1 DEF SelectLastInSeq
  <1> QED BY <1>2, <1>3 DEF Lowest, Highest

LEMMA TurnIsNext ==
    ASSUME op.todo \in SUBSET Arms, op.todo # {}
    PROVE  Turn \in op.todo
  BY Picked DEF Turn, ConnectFirst, UndoFirst

LEMMA OpFields ==
    ASSUME OpOK
    PROVE  /\ op.kind \in {"none", "connect", "undo", "disconnect", "reset", "latch", "check"}
           /\ op.kind = "none" <=> op = NoOp
           /\ op.kind = "connect" => op \in ConnectOps
           /\ op.kind = "undo" => op \in UndoOps
           /\ op.kind \in {"disconnect", "reset"} => op \in StopOps
           /\ op.kind = "latch" => op \in LatchOps
           /\ op.kind = "check" => op \in CheckOps
           /\ op.kind # "none" => op.todo \in SUBSET Arms
           /\ Stops \in SUBSET Arms
  BY DEF OpOK, NoOp, ConnectOps, UndoOps, StopOps, LatchOps, CheckOps, Stops

-----------------------------------------------------------------------------
(* What an operation may do to workers, devices and faults *)

(* No worker comes or goes, and none is blocked.                           *)
SameWorkers ==
    \A a \in Arms : /\ runtime'[a].interface = runtime[a].interface
                    /\ runtime'[a].blocked = runtime[a].blocked

(* A device is left as it is, or idled.                                    *)
OnlyIdled ==
    \A a \in Arms : \/ device'[a] = device[a]
                    \/ device'[a] = "idle" /\ device[a] \in {"idle", "holding"}

(* Faults are only added, of arms of the cell and with their pairs.        *)
FaultsAdded ==
    /\ FaultsOK' /\ faults \subseteq faults' /\ faults' \subseteq cell
    /\ \A b \in faults' : PairOf[b] \subseteq pairFaults'

LEMMA SameWorkersConnected ==
    ASSUME SameWorkers
    PROVE  /\ Connected' = Connected
           /\ \A a \in Arms : Has(a)' <=> Has(a)
  BY DEF SameWorkers, Connected, Has

LEMMA IdleOnlyIdles ==
    ASSUME DeviceOK, NEW S \in SUBSET Arms, \A a \in S : CanIdle(a), Idle(S)
    PROVE  DeviceOK' /\ OnlyIdled
  BY DEF DeviceOK, CanIdle, Idle, OnlyIdled

LEMMA UntimedSameWorkers ==
    ASSUME RuntimeOK, NEW S, runtime' = Untimed(S)
    PROVE  RuntimeOK' /\ SameWorkers
  BY DEF RuntimeOK, Runtimes, Untimed, SameWorkers

LEMMA SameRuntime == ASSUME UNCHANGED runtime PROVE SameWorkers
  BY DEF SameWorkers

LEMMA SameDevice == ASSUME UNCHANGED device PROVE OnlyIdled
  BY DEF OnlyIdled

LEMMA SameFaults ==
    ASSUME TypeOK, FaultsSound, UNCHANGED <<faults, pairFaults>>
    PROVE  FaultsAdded
  BY DEF FaultsAdded, TypeOK, FaultsOK, FaultsSound

LEMMA OnePairEach ==
    ASSUME NEW a \in Arms, NEW b \in Counterparts(a), b \in Arms
    PROVE  PairOf[b] = PairOf[a]
  <1>1. PICK p \in PairOf[a] : p \in PairOf[b]
    BY DEF Counterparts
  <1>2. (\A q \in PairOf[a] : q = p) /\ \A q \in PairOf[b] : q = p
    BY <1>1, ArmsAssumption
  <1> QED BY <1>1, <1>2

(* Latching an arm faults the other of its pair only with the pair marked. *)
LEMMA LatchKeeps ==
    ASSUME TypeOK, FaultsSound, NEW a \in cell, Latch(a)
    PROVE  RuntimeOK' /\ DeviceOK' /\ SameWorkers /\ OnlyIdled /\ FaultsAdded
  <1>0. cell \in SUBSET Arms /\ RuntimeOK /\ DeviceOK /\ faults \in SUBSET Arms /\ a \in Arms
    BY DEF TypeOK, SetupOK, FaultsOK
  <1>1. CASE a \in faults
    BY <1>1, SameTypes, SameRuntime, SameDevice, SameFaults DEF Latch
  <1>2. CASE a \notin faults
    <2> DEFINE others == {b \in Counterparts(a) : Has(b)}
    <2>1. PICK idled \in SUBSET {b \in others \cup {a} : CanIdle(b)} :
              /\ Idle(idled)
              /\ faults' = faults \cup {a} \cup (others \ idled)
              /\ pairFaults' = PairMarked({a})
              /\ runtime' = Untimed(others \cup {a})
      BY <1>2, Zenon DEF Latch
    <2>2. others \in SUBSET cell /\ \A b \in others : PairOf[b] = PairOf[a]
      BY <1>0, OnePairEach DEF Counterparts
    <2> HIDE DEF others
    <2>3. RuntimeOK' /\ SameWorkers
      BY <1>0, <2>1, UntimedSameWorkers
    <2>4. DeviceOK' /\ OnlyIdled
      BY <1>0, <2>1, <2>2, IdleOnlyIdles
    <2>5. FaultsAdded
      BY <1>0, <2>1, <2>2 DEF FaultsAdded, FaultsSound, FaultsOK, PairMarked
    <2> QED BY <2>3, <2>4, <2>5
  <1> QED BY <1>1, <1>2

(* A device is idled, closed, or left in no known state, and set in motion *)
(* only beside no fault.                                                   *)
DeviceMoves ==
    \A a \in Arms :
        \/ device'[a] = device[a]
        \/ device[a] = "holding" /\ device'[a] = "idle"
        \/ device[a] = "idle" /\ device'[a] = "off"
        \/ device[a] # "off" /\ device'[a] = "unknown"
        \/ /\ device[a] = "idle" /\ device'[a] = "holding"
           /\ \A b \in faults : b # a /\ PairOf[b] \cap PairOf[a] = {}

LEMMA OnlyIdledMoves == ASSUME OnlyIdled PROVE DeviceMoves
  BY DEF OnlyIdled, DeviceMoves

(* What no step may do to the bus of an arm, nor to the arm.               *)
BusStep(a) == [ArmBusSpec(a)!Next]_<<BusOf(a), device[a]>>
MoveStep(a) == device[a] # "holding" /\ device'[a] = "holding" =>
                   \A b \in faults : b # a /\ PairOf[b] \cap PairOf[a] = {}
StepSound == \A a \in Arms : BusStep(a) /\ MoveStep(a)

LEMMA StartingArms ==
    ASSUME OpOK, OpSound
    PROVE  Starting \in SUBSET Arms /\ (op.kind = "connect" /\ op.starting => Starting = {Turn})
  BY OpFields, TurnIsNext DEF OpSound, Starting

LEMMA WorkerHasLease ==
    ASSUME TypeOK, LeasesSound, NEW a \in Connected \cup Starting
    PROVE  handle[a] = "none" /\ \E l \in leases : l.arm = a /\ l.by = "worker"
  <1>1. CASE a \in Connected
    <2>1. PICK l \in leases : l.arm = a /\ l.by = "worker"
      BY <1>1 DEF LeasesSound, OneOwnerPerBus, Lease
    <2> QED BY <2>1 DEF LeasesSound
  <1>2. CASE a \in Starting
    <2>1. PICK l \in leases : l.arm = a
      BY <1>2 DEF LeasesSound, OneOwnerPerBus
    <2> QED BY <1>2, <2>1 DEF TypeOK, LeasesOK, LeasesSound
  <1> QED BY <1>1, <1>2

(* Who owns the buses is as sound as it was when no lock, no worker and no *)
(* handle's check changes hands and no device is switched on.              *)
LEMMA SameOwners ==
    ASSUME TypeOK, LeasesSound, UNCHANGED hands, SameWorkers, DeviceMoves,
           Connected' \cup Starting' = Connected \cup Starting,
           Starting \in SUBSET Arms
    PROVE  LeasesSound'
  <1>1. Connected' = Connected /\ Connected \in SUBSET Arms /\ Starting' \in SUBSET Arms
    BY SameWorkersConnected DEF Connected
  <1>2. \A a \in Connected : handle[a] = "none"
    BY WorkerHasLease
  <1>3. OneOwnerPerBus'
    BY <1>1 DEF LeasesSound, OneOwnerPerBus, hands, SameWorkers
  <1>4. \A a \in Starting' : handle'[a] = "none"
    BY <1>1, <1>2 DEF LeasesSound, hands
  <1>5. \A a \in Arms : device'[a] # "off" => a \in Connected' \cup Starting'
    BY DEF LeasesSound, DeviceMoves
  <1> QED BY <1>3, <1>4, <1>5 DEF LeasesSound, hands

(* The bus of an arm is the same to everyone while its worker is.          *)
LEMMA SameBus ==
    ASSUME NEW a \in Arms,
           runtime'[a].interface = runtime[a].interface, runtime'[a].blocked = runtime[a].blocked,
           (\E l \in leases' : l.arm = a /\ l.by = "worker")
             <=> (\E l \in leases : l.arm = a /\ l.by = "worker")
    PROVE  BusOf(a)' = BusOf(a)
  BY DEF BusOf, Has

LEMMA StillBus ==
    ASSUME NEW a \in Arms, UNCHANGED device, BusOf(a)' = BusOf(a)
    PROVE  BusStep(a) /\ MoveStep(a)
  BY DEF BusStep, MoveStep

LEMMA MovesSound ==
    ASSUME TypeOK, LeasesSound, UNCHANGED leases, SameWorkers, DeviceMoves
    PROVE  StepSound
  <1> SUFFICES ASSUME NEW a \in Arms PROVE BusStep(a) /\ MoveStep(a)
    BY DEF StepSound
  <1>1. BusOf(a)' = BusOf(a)
    BY SameBus DEF SameWorkers
  <1>2. device[a] # "off" => BusOf(a) # "free"
    BY WorkerHasLease DEF LeasesSound, BusOf
  <1>3. BusStep(a)
    BY <1>1, <1>2 DEF DeviceMoves, BusStep, ArmBusSpec!Next, ArmBusSpec!Operate, ArmBusSpec!Lose
  <1>4. MoveStep(a)
    BY DEF DeviceMoves, MoveStep
  <1> QED BY <1>3, <1>4

LEMMA Keeps ==
    ASSUME IInv, UNCHANGED setup, UNCHANGED hands, InventoryOK', RuntimeOK', DeviceOK',
           SameWorkers, DeviceMoves, FaultsOK', FaultsSound', OpOK', OpSound',
           Connected' \cup Starting' = Connected \cup Starting
    PROVE  IInv' /\ StepSound
  <1>1. LeasesSound'
    BY SameOwners, StartingArms DEF IInv, TypeOK
  <1>2. TypeOK'
    BY SameTypes DEF IInv, TypeOK, hands
  <1>3. StepSound
    BY MovesSound DEF IInv, hands
  <1> QED BY <1>1, <1>2, <1>3 DEF IInv

LEMMA FaultsAddedSound ==
    ASSUME FaultsSound, FaultsAdded, UNCHANGED setup, UNCHANGED leases
    PROVE  FaultsOK' /\ FaultsSound'
  BY DEF FaultsAdded, FaultsSound, setup

(* While an operation holds the lock, the rest does not disturb it.        *)
LEMMA SameOpSound ==
    ASSUME TypeOK, OpSound, UNCHANGED op, UNCHANGED setup, UNCHANGED handle, SameWorkers,
           faults \subseteq faults'
    PROVE  OpOK' /\ OpSound' /\ Starting' = Starting
  <1>1. OpOK' /\ Starting' = Starting /\ Turn' = Turn
    BY SameTypes DEF Starting, Turn, Stops
  <1>2. Connected' = Connected /\ \A a \in Arms : Has(a)' <=> Has(a)
    BY SameWorkersConnected
  <1>3. op.kind = "connect" /\ op.starting => ~Has(Turn)'
    <2> SUFFICES ASSUME op.kind = "connect", op.starting PROVE ~Has(Turn)'
      OBVIOUS
    <2>1. Turn \in Arms /\ ~Has(Turn)
      BY StartingArms DEF TypeOK, OpSound
    <2> QED BY <1>1, <1>2, <2>1 DEF Has
  <1>4. \A a \in Connected : runtime'[a].blocked = runtime[a].blocked
    BY DEF Connected, SameWorkers
  <1> QED BY <1>1, <1>2, <1>3, <1>4 DEF OpSound, setup, Stops

LEMMA NoOpSound ==
    ASSUME op' = NoOp
    PROVE  OpOK' /\ OpSound' /\ Starting' = {}
  BY DEF NoOp, OpOK, OpSound, Starting, Stops

LEMMA KeepsOp ==
    ASSUME IInv, UNCHANGED <<setup, runtime, device, hands, faults, pairFaults, inventory>>,
           OpOK', OpSound', Connected \cup Starting' = Connected \cup Starting
    PROVE  IInv' /\ StepSound
  <1>1. SameWorkers /\ DeviceMoves /\ Connected' = Connected
    BY SameRuntime, SameDevice, OnlyIdledMoves, SameWorkersConnected
  <1>2. InventoryOK' /\ RuntimeOK' /\ DeviceOK'
    BY SameTypes DEF IInv
  <1>3. FaultsOK' /\ FaultsSound'
    BY SameFaults, FaultsAddedSound DEF IInv, hands
  <1> QED BY <1>1, <1>2, <1>3, Keeps

-----------------------------------------------------------------------------
(* Operations that begin *)

LEMMA FreeStartsNone == ASSUME Free PROVE Starting = {}
  BY DEF Free, NoOp, Starting

LEMMA ConnectBeginsKeeps == ASSUME IInv, ConnectBegins PROVE IInv' /\ StepSound
  <1>1. PICK S \in SUBSET cell \ {{}} :
            op' = [kind |-> "connect", todo |-> S, started |-> {}, starting |-> FALSE,
                   before |-> Connected]
    BY DEF ConnectBegins
  <1>2. /\ S \in SUBSET Arms /\ Connected \in SUBSET Arms
        /\ UNCHANGED <<setup, runtime, device, hands, faults, pairFaults, inventory>>
    BY <1>1 DEF IInv, TypeOK, SetupOK, Connected, ConnectBegins
  <1>3. OpOK'
    BY <1>1, <1>2 DEF OpOK, ConnectOps
  <1>4. OpSound'
    BY <1>1, <1>2, SameRuntime, SameWorkersConnected DEF OpSound, setup, Stops
  <1>5. Starting = {} /\ Starting' = {}
    BY <1>1, FreeStartsNone DEF ConnectBegins, Starting
  <1> QED BY <1>2, <1>3, <1>4, <1>5, KeepsOp

LEMMA DisconnectBeginsKeeps == ASSUME IInv, DisconnectBegins PROVE IInv' /\ StepSound
  <1>1. PICK S \in SUBSET cell \ {{}} :
            op' = [kind |-> "disconnect", todo |-> S, stop |-> {}]
    BY DEF DisconnectBegins
  <1>2. /\ S \in SUBSET Arms
        /\ UNCHANGED <<setup, runtime, device, hands, faults, pairFaults, inventory>>
    BY <1>1 DEF IInv, TypeOK, SetupOK, DisconnectBegins
  <1>3. OpOK'
    BY <1>1, <1>2 DEF OpOK, StopOps
  <1>4. OpSound'
    BY <1>1, <1>2 DEF OpSound, setup, Stops
  <1>5. Starting = {} /\ Starting' = {}
    BY <1>1, FreeStartsNone DEF DisconnectBegins, Starting
  <1> QED BY <1>2, <1>3, <1>4, <1>5, KeepsOp

LEMMA ResetBeginsKeeps == ASSUME IInv, ResetBegins PROVE IInv' /\ StepSound
  <1>1. op' = [kind |-> "reset", todo |-> Connected, stop |-> {}]
    BY DEF ResetBegins
  <1>2. UNCHANGED <<setup, runtime, device, hands, faults, pairFaults, inventory>>
    BY DEF ResetBegins
  <1>3. Connected \in SUBSET Arms /\ Connected \subseteq cell
    BY DEF IInv, Connected, LeasesSound, OneOwnerPerBus, FaultsSound
  <1>4. OpOK'
    BY <1>1, <1>3 DEF OpOK, StopOps
  <1>5. OpSound'
    BY <1>1, <1>2, <1>3 DEF OpSound, setup, Stops, ResetBegins, hands
  <1>6. Starting = {} /\ Starting' = {}
    BY <1>1, FreeStartsNone DEF ResetBegins, Starting
  <1> QED BY <1>2, <1>4, <1>5, <1>6, KeepsOp

LEMMA LatchBeginsKeeps == ASSUME IInv, LatchBegins PROVE IInv' /\ StepSound
  <1>1. PICK S \in SUBSET cell \ {{}} :
            op' = [kind |-> "latch", todo |-> S, stop |-> {}, given |-> S]
    BY DEF LatchBegins
  <1>2. /\ S \in SUBSET Arms
        /\ UNCHANGED <<setup, runtime, device, hands, faults, pairFaults, inventory>>
    BY <1>1 DEF IInv, TypeOK, SetupOK, LatchBegins
  <1>3. OpOK'
    BY <1>1, <1>2 DEF OpOK, LatchOps
  <1>4. OpSound'
    BY <1>1, <1>2 DEF OpSound, setup, Stops
  <1>5. Starting = {} /\ Starting' = {}
    BY <1>1, FreeStartsNone DEF LatchBegins, Starting
  <1> QED BY <1>2, <1>3, <1>4, <1>5, KeepsOp

-----------------------------------------------------------------------------
(* connect_arms *)

LEMMA ConnectHasKeeps == ASSUME IInv, ConnectHas PROVE IInv' /\ StepSound
  <1>1. op.kind = "connect" /\ op.todo # {} /\ op \in ConnectOps /\ Has(Turn) /\ ~op.starting
    BY OpFields DEF ConnectHas, IInv, TypeOK, OpSound
  <1>2. Turn \in op.todo /\ Turn \in cell /\ op.todo \in SUBSET Arms
    BY <1>1, TurnIsNext DEF IInv, OpSound, ConnectOps
  <1>3. UNCHANGED <<setup, hands, inventory>> /\ op' = [op EXCEPT !.todo = Rest]
    BY DEF ConnectHas
  <1>4. RuntimeOK' /\ DeviceOK' /\ SameWorkers /\ OnlyIdled /\ FaultsAdded
    <2>1. CASE runtime[Turn].healthy
      BY <2>1, SameTypes, SameRuntime, SameDevice, SameFaults DEF ConnectHas, IInv
    <2>2. CASE ~runtime[Turn].healthy
      BY <1>2, <2>2, LatchKeeps DEF ConnectHas, IInv
    <2> QED BY <2>1, <2>2
  <1>5. op'.kind = "connect" /\ op'.todo = op.todo \ {Turn} /\ op'.started = op.started
        /\ op'.before = op.before /\ ~op'.starting /\ OpOK'
    BY <1>1, <1>3 DEF ConnectOps, OpOK, Rest
  <1>6. OpSound'
    BY <1>1, <1>3, <1>4, <1>5, SameWorkersConnected DEF IInv, OpSound, setup, Stops
  <1>7. Starting = {} /\ Starting' = {}
    BY <1>1, <1>5 DEF Starting
  <1> QED BY <1>3, <1>4, <1>5, <1>6, <1>7, Keeps, FaultsAddedSound, OnlyIdledMoves, SameTypes,
             SameWorkersConnected DEF IInv, hands

LEMMA ConnectLocksKeeps == ASSUME IInv, ConnectLocks PROVE IInv' /\ StepSound
  <1> DEFINE a == Turn
             i == inventory[Turn]
  <1>1. op.kind = "connect" /\ op.todo # {} /\ op \in ConnectOps /\ ~op.starting
    BY OpFields DEF ConnectLocks, IInv, TypeOK
  <1>2. a \in op.todo /\ a \in cell /\ a \in Arms /\ op.todo \in SUBSET Arms
    BY <1>1, TurnIsNext DEF IInv, OpSound, ConnectOps
  <1>3. ~Has(a) /\ i \in Interfaces /\ Lockable(a, i)
    BY <1>2 DEF ConnectLocks, IInv, TypeOK, InventoryOK
  <1>4. UNCHANGED <<setup, runtime, device, handle, faults, pairFaults, inventory>>
        /\ leases' = leases \cup {Lease(a, i, "worker")}
    BY DEF ConnectLocks
  <1>5. /\ op'.kind = "connect" /\ op'.starting /\ op'.todo = op.todo
        /\ op'.started = op.started /\ op'.before = op.before /\ OpOK'
    BY <1>1 DEF ConnectLocks, ConnectOps, OpOK
  <1>6. SameWorkers /\ Connected' = Connected /\ Turn' = a
    BY <1>1, <1>4, <1>5, SameRuntime, SameWorkersConnected DEF Turn
  <1>7. Starting = {} /\ Starting' = {a}
    BY <1>1, <1>5, <1>6 DEF Starting
  <1>8. handle[a] = "none" /\ \A l \in leases : l.arm # a /\ l.interface # i
    <2>1. \A l \in leases : l.arm # a /\ l.interface # i
      BY <1>3 DEF Lockable
    <2> QED BY <1>2, <2>1 DEF IInv, LeasesSound, OneOwnerPerBus
  <1>9. LeasesOK' /\ TypeOK'
    BY <1>2, <1>3, <1>4, <1>5, SameTypes DEF IInv, TypeOK, LeasesOK, Lease
  <1> HIDE DEF a, i
  <1>10. LeasesSound'
    <2> DEFINE k == Lease(a, i, "worker")
    <2>0. k.arm = a
      BY DEF Lease
    <2> HIDE DEF k
    <2>1. {l.arm : l \in leases'} = {l.arm : l \in leases} \cup {a}
      BY <1>4, <2>0 DEF k
    <2>2. OneOwnerPerBus'
      BY <1>4, <1>6, <1>7, <1>8, <2>1 DEF IInv, LeasesSound, OneOwnerPerBus, Lease
    <2> QED BY <1>4, <1>6, <1>7, <1>8, <2>2 DEF IInv, LeasesSound, Lease
  <1>11. OpSound'
    <2>1. ~Has(Turn)'
      BY <1>3, <1>4, <1>6 DEF Has
    <2> QED BY <1>1, <1>4, <1>5, <1>6, <2>1 DEF IInv, OpSound, setup, Stops
  <1>12. FaultsSound'
    BY <1>2, <1>4 DEF IInv, FaultsSound, setup, Lease
  <1>13. StepSound
    <2> SUFFICES ASSUME NEW b \in Arms PROVE BusStep(b) /\ MoveStep(b)
      BY DEF StepSound
    <2>1. CASE b = a
      <3>1. BusOf(b) = "free" /\ BusOf(b)' = "owned"
        <4>1. \E l \in leases' : l.arm = b /\ l.by = "worker"
          <5>1. Lease(a, i, "worker") \in leases'
            BY <1>4
          <5>2. Lease(a, i, "worker").arm = a /\ Lease(a, i, "worker").by = "worker"
            BY DEF Lease
          <5> QED BY <2>1, <5>1, <5>2
        <4>2. ~Has(b) /\ ~Has(b)'
          BY <1>3, <1>4, <2>1 DEF Has
        <4> QED BY <1>8, <2>1, <4>1, <4>2 DEF BusOf
      <3> QED BY <1>4, <3>1 DEF BusStep, MoveStep, ArmBusSpec!Next, ArmBusSpec!Acquire
    <2>2. CASE b # a
      <3>1. BusOf(b)' = BusOf(b)
        BY <1>4, <2>2, SameBus DEF Lease
      <3> QED BY <1>4, <3>1, StillBus
    <2> QED BY <2>1, <2>2
  <1> QED BY <1>9, <1>10, <1>11, <1>12, <1>13 DEF IInv

LEMMA ConnectFailsKeeps == ASSUME IInv, ConnectFails PROVE IInv' /\ StepSound
  <1>1. op.kind = "connect" /\ op.todo # {} /\ op \in ConnectOps /\ ~op.starting
    BY OpFields DEF ConnectFails, IInv, TypeOK
  <1>2. UNCHANGED <<setup, hands, inventory>>
    BY DEF ConnectFails
  <1>3. RuntimeOK' /\ DeviceOK' /\ SameWorkers /\ OnlyIdled /\ FaultsAdded
    <2>1. CASE UNCHANGED <<faults, pairFaults, runtime, device>>
      BY <2>1, SameTypes, SameRuntime, SameDevice, SameFaults DEF IInv
    <2>2. CASE \E b \in Moved : Latch(b)
      <3>1. Moved \subseteq cell
        BY DEF Moved, IInv, LeasesSound, OneOwnerPerBus, FaultsSound
      <3> QED BY <2>2, <3>1, LatchKeeps DEF IInv
    <2> QED BY <2>1, <2>2 DEF ConnectFails
  <1>4. /\ op'.kind = "undo" /\ op'.todo = op.started /\ op'.stop = {}
        /\ op'.before = op.before /\ OpOK'
    BY <1>1 DEF ConnectFails, Undo, ConnectOps, UndoOps, OpOK
  <1>5. Connected' = Connected /\ Connected = op.before \cup op.started
        /\ op.before \cap op.started = {} /\ Connected \subseteq cell
    BY <1>1, <1>3, SameWorkersConnected
       DEF IInv, OpSound, LeasesSound, OneOwnerPerBus, FaultsSound
  <1>6. OpSound'
    BY <1>2, <1>4, <1>5 DEF OpSound, setup, Stops
  <1>7. Starting = {} /\ Starting' = {}
    BY <1>1, <1>4 DEF Starting, Stops
  <1> QED BY <1>2, <1>3, <1>4, <1>5, <1>6, <1>7, Keeps, FaultsAddedSound, OnlyIdledMoves,
             SameTypes DEF IInv, hands

LEMMA StartFailsKeeps == ASSUME IInv, StartFails PROVE IInv' /\ StepSound
  <1>1. op.kind = "connect" /\ op.todo # {} /\ op \in ConnectOps /\ op.starting /\ ~Has(Turn)
    BY OpFields DEF StartFails, IInv, TypeOK, OpSound
  <1>2. UNCHANGED <<setup, runtime, device, hands, faults, pairFaults, inventory>>
    BY DEF StartFails
  <1>3. Turn \in Arms
    BY <1>1, TurnIsNext DEF ConnectOps
  <1>4. /\ op'.kind = "undo" /\ op'.todo = op.started /\ op'.stop = {Turn}
        /\ op'.before = op.before /\ OpOK'
    BY <1>1, <1>3 DEF StartFails, ConnectOps, UndoOps, OpOK
  <1>5. Connected' = Connected /\ Connected = op.before \cup op.started
        /\ op.before \cap op.started = {} /\ Connected \subseteq cell /\ Turn \notin Connected
    BY <1>1, <1>2, SameRuntime, SameWorkersConnected
       DEF IInv, OpSound, LeasesSound, OneOwnerPerBus, FaultsSound, Connected
  <1>6. OpSound'
    BY <1>2, <1>4, <1>5 DEF OpSound, setup, Stops
  <1>7. Starting = {Turn} /\ Starting' = {Turn}
    BY <1>1, <1>4 DEF Starting, Stops
  <1> QED BY <1>2, <1>4, <1>6, <1>7, KeepsOp

LEMMA ConnectEndsKeeps == ASSUME IInv, ConnectEnds PROVE IInv' /\ StepSound
  <1>1. op' = NoOp /\ UNCHANGED <<setup, runtime, device, hands, faults, pairFaults, inventory>>
    BY DEF ConnectEnds
  <1>2. Starting = {}
    BY DEF ConnectEnds, IInv, OpSound, Starting
  <1> QED BY <1>1, <1>2, NoOpSound, KeepsOp

LEMMA StartOpensKeeps == ASSUME IInv, StartOpens PROVE IInv' /\ StepSound
  <1>1. op.kind = "connect" /\ op.starting /\ op.todo # {}
    BY DEF StartOpens
  <1>2. UNCHANGED <<setup, runtime, hands, faults, pairFaults, inventory, op>>
    BY DEF StartOpens
  <1>3. DeviceOK' /\ \A a \in Arms : device'[a] # "off" => device[a] # "off" \/ a = Turn
    BY DEF StartOpens, IInv, TypeOK, DeviceOK
  <1>4. OpOK' /\ OpSound' /\ Starting' = Starting /\ Starting = {Turn}
    BY <1>1, <1>2, SameOpSound, StartingArms, SameRuntime DEF IInv, TypeOK, hands
  <1>5. Connected' = Connected
    BY <1>2, SameRuntime, SameWorkersConnected
  <1>6. LeasesSound'
    BY <1>2, <1>3, <1>4, <1>5 DEF IInv, LeasesSound, OneOwnerPerBus, hands
  <1>7. TypeOK' /\ FaultsSound'
    BY <1>2, <1>3, SameTypes DEF IInv, TypeOK, FaultsSound, hands, setup
  <1>8. StepSound
    <2> SUFFICES ASSUME NEW b \in Arms PROVE BusStep(b) /\ MoveStep(b)
      BY DEF StepSound
    <2>1. BusOf(b)' = BusOf(b) /\ (b = Turn => BusOf(b) # "free")
      BY <1>2, <1>4, SameBus, WorkerHasLease DEF BusOf, IInv, hands
    <2>2. device'[b] = device[b] \/ (b = Turn /\ device[b] = "off" /\ device'[b] = "idle")
      BY DEF StartOpens, IInv, TypeOK, DeviceOK
    <2> QED BY <2>1, <2>2 DEF BusStep, MoveStep, ArmBusSpec!Next, ArmBusSpec!Operate
  <1> QED BY <1>4, <1>6, <1>7, <1>8 DEF IInv

LEMMA StartedKeeps == ASSUME IInv, Started PROVE IInv' /\ StepSound
  <1> DEFINE a == Turn
  <1>1. op.kind = "connect" /\ op.todo # {} /\ op \in ConnectOps /\ op.starting
    BY OpFields DEF Started, IInv, TypeOK
  <1>2. a \in op.todo /\ a \in Arms /\ ~Has(a) /\ Starting = {a}
    BY <1>1, TurnIsNext, StartingArms DEF IInv, TypeOK, OpSound, ConnectOps
  <1>3. PICK l \in leases :
            l.arm = a /\ runtime' = [runtime EXCEPT ![a] = NewRuntime(l.interface)]
    BY DEF Started
  <1>4. UNCHANGED <<setup, device, hands, faults, pairFaults, inventory>>
    BY DEF Started
  <1>5. l.interface \in Interfaces /\ l.by = "worker" /\ l = Lease(a, l.interface, "worker")
    BY <1>2, <1>3 DEF IInv, TypeOK, LeasesOK, LeasesSound, Lease
  <1>6. RuntimeOK' /\ TypeOK'
    <2>1. RuntimeOK'
      BY <1>2, <1>3, <1>5 DEF IInv, TypeOK, RuntimeOK, Runtimes, NewRuntime
    <2>2. OpOK'
      BY <1>1, <1>2 DEF Started, ConnectOps, OpOK, Rest
    <2> QED BY <1>4, <2>1, <2>2, SameTypes DEF IInv, TypeOK, hands
  <1>7. runtime'[a].interface = l.interface /\ \A b \in Arms \ {a} : runtime'[b] = runtime[b]
    BY <1>2, <1>3 DEF IInv, TypeOK, RuntimeOK, NewRuntime
  <1>8. /\ op'.kind = "connect" /\ op'.todo = op.todo \ {a} /\ ~op'.starting
        /\ op'.started = op.started \cup {a} /\ op'.before = op.before
    BY <1>1 DEF Started, ConnectOps, Rest
  <1> HIDE DEF a
  <1>9. Connected' = Connected \cup {a} /\ a \notin Connected /\ Starting' = {}
    BY <1>2, <1>5, <1>7, <1>8, ArmsAssumption DEF Connected, Has, Starting
  <1>10. LeasesSound'
    <2>1. OneOwnerPerBus'
      BY <1>2, <1>3, <1>4, <1>5, <1>7, <1>9 DEF IInv, LeasesSound, OneOwnerPerBus, hands, Lease,
         Connected
    <2> QED BY <1>2, <1>4, <1>9, <2>1 DEF IInv, LeasesSound, hands
  <1>11. OpSound'
    BY <1>1, <1>4, <1>8, <1>9 DEF IInv, OpSound, setup, Stops
  <1>12. FaultsSound'
    BY <1>4 DEF IInv, FaultsSound, setup, hands
  <1>13. StepSound
    <2> SUFFICES ASSUME NEW b \in Arms PROVE BusStep(b) /\ MoveStep(b)
      BY DEF StepSound
    <2>1. CASE b = a
      <3>1. ~runtime'[a].blocked
        BY <1>2, <1>3 DEF a, IInv, TypeOK, RuntimeOK, NewRuntime
      <3>2. BusOf(b) = "owned" /\ BusOf(b)' = "owned"
        BY <1>2, <1>3, <1>4, <1>5, <2>1, <3>1 DEF BusOf, hands
      <3> QED BY <1>4, <3>2, StillBus
    <2>2. CASE b # a
      BY <1>4, <1>7, <2>2, SameBus, StillBus DEF hands
    <2> QED BY <2>1, <2>2
  <1> QED BY <1>6, <1>10, <1>11, <1>12, <1>13 DEF IInv

-----------------------------------------------------------------------------
(* disconnect_arms, reset_setup and the rollback *)

LEMMA StopNextKeeps == ASSUME IInv, StopNext PROVE IInv' /\ StepSound
  <1> DEFINE a == Turn
  <1>1. op.kind \in {"undo", "disconnect", "reset"} /\ op.todo # {} /\ op.stop = {}
    BY DEF StopNext
  <1>2. a \in op.todo /\ a \in Arms /\ op.todo \in SUBSET Arms
    BY <1>1, TurnIsNext, OpFields DEF IInv, TypeOK
  <1>3. /\ UNCHANGED <<setup, device, hands, pairFaults, inventory>>
        /\ faults' \subseteq faults
    BY DEF StopNext
  <1>4. RuntimeOK' /\ SameWorkers
    BY UntimedSameWorkers DEF StopNext, IInv, TypeOK
  <1>5. /\ op'.kind = op.kind /\ op'.todo = op.todo \ {a}
        /\ op'.stop = IF Has(a) THEN {a} ELSE {}
        /\ op.kind = "undo" => op'.before = op.before
        /\ OpOK'
    BY <1>1, <1>2, OpFields DEF StopNext, IInv, TypeOK, UndoOps, StopOps, OpOK, Rest
  <1> HIDE DEF a
  <1>6. Connected' = Connected /\ (a \in Connected <=> Has(a))
    BY <1>2, <1>4, SameWorkersConnected DEF Connected
  <1>7. OpSound'
    <2>1. \A b \in Connected : runtime'[b].blocked = runtime[b].blocked
      BY <1>4 DEF Connected, SameWorkers
    <2> QED BY <1>1, <1>2, <1>3, <1>5, <1>6, <2>1 DEF IInv, OpSound, setup, hands, Stops
  <1>8. FaultsOK' /\ FaultsSound' /\ DeviceMoves
    BY <1>3 DEF IInv, TypeOK, FaultsOK, FaultsSound, setup, hands, DeviceMoves
  <1>9. Connected' \cup Starting' = Connected \cup Starting
    BY <1>1, <1>5, <1>6 DEF Starting, Stops
  <1> QED BY <1>3, <1>4, <1>5, <1>7, <1>8, <1>9, Keeps, SameTypes DEF IInv

LEMMA StopCleanKeeps == ASSUME IInv, StopClean PROVE IInv' /\ StepSound
  <1>1. PICK a \in Stops :
            /\ device[a] = "off"
            /\ runtime' = [runtime EXCEPT ![a] = NoRuntime]
            /\ leases' = Released(a)
            /\ faults' = IF op.kind = "latch" THEN faults ELSE faults \ {a}
            /\ op' = [op EXCEPT !.stop = {}]
            /\ UNCHANGED <<setup, device, handle, pairFaults, inventory>>
    BY DEF StopClean
  <1>2. /\ op.kind \in {"undo", "disconnect", "reset", "latch"} /\ Stops = op.stop
        /\ a \in Arms /\ Stops = {a}
    BY <1>1, OpFields DEF Stops, IInv, TypeOK, OpSound
  <1>3. /\ op'.kind = op.kind /\ op'.todo = op.todo /\ op'.stop = {}
        /\ op.kind = "undo" => op'.before = op.before
        /\ op.kind = "latch" => op'.given = op.given
        /\ OpOK'
    BY <1>1, <1>2, OpFields DEF IInv, TypeOK, UndoOps, StopOps, LatchOps, OpOK
  <1>4. /\ runtime'[a].interface = None /\ RuntimeOK'
        /\ \A b \in Arms \ {a} : runtime'[b] = runtime[b]
    BY <1>1, <1>2 DEF IInv, TypeOK, RuntimeOK, Runtimes, NoRuntime, NewRuntime
  <1>5. leases' = {l \in leases : l.arm # a} /\ TypeOK'
    BY <1>1, <1>3, <1>4, SameTypes DEF Released, IInv, TypeOK, LeasesOK, FaultsOK
  <1>6. Connected' = Connected \ {a} /\ Starting' = {}
    BY <1>2, <1>3, <1>4 DEF Connected, Has, Starting, Stops
  <1>7. Starting \subseteq {a} /\ a \in Connected \cup Starting /\ handle[a] = "none"
    <2>1. Starting \subseteq {a} /\ a \in Connected \cup Starting
      BY <1>2 DEF Starting, IInv, OpSound
    <2>2. CASE a \in Connected
      <3>1. PICK l \in leases : l.arm = a /\ l.by = "worker"
        BY <2>2 DEF IInv, LeasesSound, OneOwnerPerBus, Lease
      <3> QED BY <2>1, <3>1 DEF IInv, LeasesSound
    <2>3. CASE a \in Starting
      BY <2>1, <2>3 DEF IInv, LeasesSound
    <2> QED BY <2>1, <2>2, <2>3
  <1>8. LeasesSound'
    <2>1. {l.arm : l \in leases'} = {l.arm : l \in leases} \ {a}
      BY <1>5
    <2>2. \A b \in Connected' : Lease(b, runtime'[b].interface, "worker") \in leases'
      <3> SUFFICES ASSUME NEW b \in Connected'
                   PROVE  Lease(b, runtime'[b].interface, "worker") \in leases'
        OBVIOUS
      <3>1. b \in Connected /\ b # a /\ runtime'[b] = runtime[b]
        BY <1>4, <1>6 DEF Connected
      <3> QED BY <1>5, <3>1 DEF IInv, LeasesSound, OneOwnerPerBus, Lease
    <2>3. OneOwnerPerBus'
      BY <1>1, <1>5, <1>6, <1>7, <2>1, <2>2 DEF IInv, LeasesSound, OneOwnerPerBus
    <2> QED BY <1>1, <1>5, <1>6, <1>7, <2>3 DEF IInv, LeasesSound
  <1>9. OpSound'
    <2>1. \A b \in Connected' : runtime'[b] = runtime[b]
      BY <1>4, <1>6 DEF Connected
    <2> QED BY <1>1, <1>2, <1>3, <1>6, <2>1 DEF IInv, OpSound, setup, Stops
  <1>10. FaultsSound'
    BY <1>1, <1>5 DEF IInv, FaultsSound, setup
  <1>11. StepSound
    <2> SUFFICES ASSUME NEW b \in Arms PROVE BusStep(b) /\ MoveStep(b)
      BY DEF StepSound
    <2>1. CASE b = a
      <3>1. BusOf(a) # "free" /\ BusOf(a)' = "free"
        BY <1>5, <1>7, WorkerHasLease DEF BusOf, IInv
      <3> QED BY <1>1, <2>1, <3>1 DEF BusStep, MoveStep, ArmBusSpec!Next, ArmBusSpec!Release
    <2>2. CASE b # a
      BY <1>1, <1>4, <1>5, <2>2, SameBus, StillBus
    <2> QED BY <2>1, <2>2
  <1> QED BY <1>5, <1>8, <1>9, <1>10, <1>11 DEF IInv

LEMMA StopUncleanKeeps == ASSUME IInv, StopUnclean PROVE IInv' /\ StepSound
  <1>1. PICK a \in Stops, l \in leases :
            /\ l.arm = a /\ runtime' = [runtime EXCEPT ![a] = Blocked(l.interface)]
            /\ faults' = faults \cup {a} /\ pairFaults' = PairMarked({a})
            /\ op' = [op EXCEPT !.stop = {}]
            /\ UNCHANGED <<setup, device, hands, inventory>>
    BY DEF StopUnclean
  <1>2. /\ op.kind \in {"undo", "disconnect", "reset", "latch"} /\ Stops = op.stop
        /\ a \in Arms /\ Stops = {a}
    BY <1>1, OpFields DEF Stops, IInv, TypeOK, OpSound
  <1>3. /\ op'.kind = op.kind /\ op'.todo = op.todo /\ op'.stop = {}
        /\ op.kind = "undo" => op'.before = op.before
        /\ op.kind = "latch" => op'.given = op.given
        /\ OpOK'
    BY <1>1, <1>2, OpFields DEF IInv, TypeOK, UndoOps, StopOps, LatchOps, OpOK
  <1>4. l.interface \in Interfaces
    BY <1>1 DEF IInv, TypeOK, LeasesOK
  <1>5. /\ runtime'[a].interface = l.interface /\ runtime'[a].blocked
        /\ (\A b \in Arms \ {a} : runtime'[b] = runtime[b]) /\ RuntimeOK'
    BY <1>1, <1>2, <1>4 DEF IInv, TypeOK, RuntimeOK, Runtimes, Blocked, NewRuntime
  <1>6. TypeOK'
    BY <1>1, <1>2, <1>3, <1>5, SameTypes DEF IInv, TypeOK, FaultsOK, hands
  <1>7. Connected' = Connected \cup {a} /\ Starting' = {}
    BY <1>2, <1>3, <1>4, <1>5, ArmsAssumption DEF Connected, Has, Starting, Stops
  <1>8. Starting \subseteq {a} /\ a \in Connected \cup Starting
    BY <1>2 DEF Starting, IInv, OpSound
  <1>9. l.by = "worker" /\ l = Lease(a, l.interface, "worker")
    <2>1. CASE a \in Connected
      <3> DEFINE k == Lease(a, runtime[a].interface, "worker")
      <3>1. k \in leases /\ k.arm = a /\ k.by = "worker" /\ k.interface = runtime[a].interface
        BY <2>1 DEF IInv, LeasesSound, OneOwnerPerBus, Lease
      <3> HIDE DEF k
      <3>2. l = k
        BY <1>1, <3>1 DEF IInv, LeasesSound, OneOwnerPerBus
      <3> QED BY <3>1, <3>2 DEF k
    <2>2. CASE a \in Starting
      BY <1>1, <2>2 DEF IInv, LeasesSound, TypeOK, LeasesOK, Lease
    <2> QED BY <1>8, <2>1, <2>2
  <1>10. LeasesSound'
    <2>1. \A b \in Connected' : Lease(b, runtime'[b].interface, "worker") \in leases'
      BY <1>1, <1>5, <1>7, <1>9 DEF IInv, LeasesSound, OneOwnerPerBus, Lease, hands, Connected
    <2>2. OneOwnerPerBus'
      BY <1>1, <1>7, <1>8, <2>1 DEF IInv, LeasesSound, OneOwnerPerBus, hands
    <2> QED BY <1>1, <1>7, <1>8, <2>2 DEF IInv, LeasesSound, hands
  <1>11. OpSound'
    <2>1. \A b \in Connected' \ {a} : runtime'[b] = runtime[b]
      BY <1>5, <1>7 DEF Connected
    <2> QED BY <1>1, <1>2, <1>3, <1>5, <1>7, <2>1 DEF IInv, OpSound, setup, Stops, hands
  <1>12. FaultsSound'
    <2>1. a \in cell
      BY <1>1 DEF IInv, FaultsSound
    <2> QED BY <1>1, <2>1 DEF IInv, FaultsSound, PairMarked, setup, hands
  <1>13. StepSound
    <2> SUFFICES ASSUME NEW b \in Arms PROVE BusStep(b) /\ MoveStep(b)
      BY DEF StepSound
    <2>1. CASE b = a
      <3>1. BusOf(a) \in {"owned", "blocked"} /\ BusOf(a)' = "blocked"
        BY <1>1, <1>4, <1>5, <1>9, ArmsAssumption DEF BusOf, Has, hands
      <3> QED BY <1>1, <2>1, <3>1 DEF BusStep, MoveStep, ArmBusSpec!Next, ArmBusSpec!Block
    <2>2. CASE b # a
      BY <1>1, <1>5, <2>2, SameBus, StillBus DEF hands
    <2> QED BY <2>1, <2>2
  <1> QED BY <1>6, <1>10, <1>11, <1>12, <1>13 DEF IInv

LEMMA DoneStartsNone == ASSUME NEW kind, kind # "connect", StopsDone(kind) PROVE Starting = {}
  BY DEF StopsDone, Starting

LEMMA UndoEndsKeeps == ASSUME IInv, UndoEnds PROVE IInv' /\ StepSound
  BY DoneStartsNone, NoOpSound, KeepsOp DEF UndoEnds

LEMMA DisconnectEndsKeeps == ASSUME IInv, DisconnectEnds PROVE IInv' /\ StepSound
  <1>1. /\ op' = NoOp /\ UNCHANGED <<setup, runtime, device, hands, faults, inventory>>
        /\ pairFaults' = UNION {PairOf[a] : a \in faults \cap cell}
    BY DEF DisconnectEnds
  <1>2. FaultsOK' /\ FaultsSound'
    BY <1>1, SameTypes DEF IInv, FaultsSound, setup, hands
  <1>3. Starting = {} /\ Starting' = {} /\ OpOK' /\ OpSound'
    BY <1>1, DoneStartsNone, NoOpSound DEF DisconnectEnds
  <1> QED BY <1>1, <1>2, <1>3, Keeps, SameTypes, SameRuntime, SameDevice, OnlyIdledMoves,
             SameWorkersConnected DEF IInv

(* With no arm connected and no handle's check, the setup may change.      *)
LEMMA SetupChanges ==
    ASSUME IInv, Connected = {}, Starting = {}, \A a \in Arms : handle[a] = "none", SetupOK',
           faults' = {}, pairFaults' = {}, op' = NoOp,
           UNCHANGED <<runtime, device, hands, inventory>>
    PROVE  IInv' /\ StepSound
  <1>1. OpOK' /\ OpSound' /\ Starting' = {} /\ Connected' = {}
    BY NoOpSound, SameRuntime, SameWorkersConnected
  <1>2. TypeOK'
    BY <1>1, SameTypes DEF IInv, TypeOK, FaultsOK, hands
  <1>3. {l.arm : l \in leases} = {}
    BY DEF IInv, LeasesSound, OneOwnerPerBus
  <1>4. LeasesSound'
    BY <1>1 DEF IInv, LeasesSound, OneOwnerPerBus, hands
  <1>5. FaultsSound'
    BY <1>3 DEF FaultsSound, hands
  <1>6. StepSound
    BY SameRuntime, SameDevice, OnlyIdledMoves, MovesSound DEF IInv, hands
  <1> QED BY <1>1, <1>2, <1>4, <1>5, <1>6 DEF IInv

LEMMA ResetEndsKeeps == ASSUME IInv, ResetEnds PROVE IInv' /\ StepSound
  <1>1. op' = NoOp /\ UNCHANGED <<runtime, device, hands, inventory>> /\ Starting = {}
    BY DoneStartsNone DEF ResetEnds
  <1>2. \A a \in Arms : handle[a] = "none"
    BY DEF ResetEnds, StopsDone, IInv, OpSound
  <1>3. CASE Connected = {}
    <2>1. SetupOK' /\ faults' = {} /\ pairFaults' = {}
      BY <1>3 DEF ResetEnds, SetupOK
    <2> QED BY <1>1, <1>2, <1>3, <2>1, SetupChanges
  <1>4. CASE Connected # {}
    BY <1>1, <1>4, NoOpSound, KeepsOp DEF ResetEnds
  <1> QED BY <1>3, <1>4

LEMMA ApplySetupKeeps == ASSUME IInv, ApplySetup PROVE IInv' /\ StepSound
  <1>1. /\ UNCHANGED <<runtime, device, hands, inventory, op>> /\ Connected = {}
        /\ (\A a \in Arms : handle[a] = "none") /\ faults' = {} /\ pairFaults' = {}
        /\ Starting = {} /\ op' = NoOp
    BY FreeStartsNone DEF ApplySetup, Free
  <1>2. SetupOK'
    BY ArmsAssumption DEF ApplySetup, SetupOK
  <1> QED BY <1>1, <1>2, SetupChanges

-----------------------------------------------------------------------------
(* Commands, idling, and giving an arm up *)

LEMMA ConnectedInCell == ASSUME IInv PROVE Connected \subseteq cell /\ Connected \in SUBSET Arms
  BY DEF IInv, LeasesSound, OneOwnerPerBus, FaultsSound, Connected

LEMMA ApplyKeeps == ASSUME IInv, NEW a \in Arms, Apply(a) PROVE IInv' /\ StepSound
  <1>1. UNCHANGED <<setup, hands, faults, pairFaults, inventory>> /\ Starting = {} /\ a \in cell
    BY FreeStartsNone DEF Apply, Commandable
  <1>2. RuntimeOK' /\ SameWorkers
    BY DEF Apply, IInv, TypeOK, RuntimeOK, Runtimes, SameWorkers
  <1>3. DeviceOK' /\ DeviceMoves
    BY DEF Apply, Commandable, IInv, TypeOK, DeviceOK, FaultsSound, DeviceMoves
  <1>4. op' = [kind |-> "check", todo |-> {a}]
    BY DEF Apply
  <1>5. OpOK' /\ OpSound' /\ Starting' = {}
    BY <1>1, <1>4 DEF OpOK, CheckOps, OpSound, Starting, Stops, setup
  <1> QED BY <1>1, <1>2, <1>3, <1>5, Keeps, SameTypes, SameFaults, FaultsAddedSound,
             SameWorkersConnected DEF IInv, hands

(* An arm is latched, or nothing changes, and the operation is over.       *)
LEMMA LatchedKeeps ==
    ASSUME IInv, UNCHANGED <<setup, hands, inventory>>, Starting = {}, op' = NoOp,
           RuntimeOK', DeviceOK', SameWorkers, OnlyIdled, FaultsAdded
    PROVE  IInv' /\ StepSound
  BY NoOpSound, Keeps, SameTypes, FaultsAddedSound, OnlyIdledMoves, SameWorkersConnected
     DEF IInv, hands

LEMMA ApplyChecksKeeps == ASSUME IInv, ApplyChecks PROVE IInv' /\ StepSound
  <1>1. op' = NoOp /\ UNCHANGED <<setup, hands, inventory>> /\ Starting = {}
    BY DEF ApplyChecks, Starting
  <1>2. Turn \in cell
    BY TurnIsNext, OpFields DEF ApplyChecks, IInv, TypeOK, OpSound
  <1>3. RuntimeOK' /\ DeviceOK' /\ SameWorkers /\ OnlyIdled /\ FaultsAdded
    <2>1. CASE runtime[Turn].healthy
      BY <2>1, SameTypes, SameRuntime, SameDevice, SameFaults DEF ApplyChecks, IInv
    <2>2. CASE ~runtime[Turn].healthy
      BY <1>2, <2>2, LatchKeeps DEF ApplyChecks, IInv
    <2> QED BY <2>1, <2>2
  <1> QED BY <1>1, <1>3, LatchedKeeps

LEMMA ApplyFailsKeeps == ASSUME IInv, NEW a \in Arms, ApplyFails(a) PROVE IInv' /\ StepSound
  <1>1. op' = NoOp /\ UNCHANGED <<setup, hands, inventory>> /\ Starting = {} /\ a \in cell
    BY FreeStartsNone DEF ApplyFails, Commandable, Free
  <1> QED BY <1>1, LatchKeeps, LatchedKeeps DEF ApplyFails, IInv

LEMMA RefreshKeeps == ASSUME IInv, NEW a \in Arms, Refresh(a) PROVE IInv' /\ StepSound
  <1>1. op' = NoOp /\ UNCHANGED <<setup, hands, inventory>> /\ Starting = {} /\ a \in cell
    BY FreeStartsNone, ConnectedInCell DEF Refresh, Free, Connected
  <1> QED BY <1>1, LatchKeeps, LatchedKeeps DEF Refresh, IInv

LEMMA SafeIdleKeeps == ASSUME IInv, NEW a \in Arms, SafeIdle(a) PROVE IInv' /\ StepSound
  <1>1. op' = NoOp /\ UNCHANGED <<setup, hands, inventory>> /\ Starting = {} /\ a \in cell
    BY FreeStartsNone, ConnectedInCell DEF SafeIdle, Free, Connected
  <1>2. RuntimeOK' /\ DeviceOK' /\ SameWorkers /\ OnlyIdled /\ FaultsAdded
    <2>1. CASE CanIdle(a) /\ Idle({a}) /\ runtime' = Untimed({a})
               /\ UNCHANGED <<faults, pairFaults>>
      BY <2>1, IdleOnlyIdles, UntimedSameWorkers, SameFaults DEF IInv, TypeOK
    <2>2. CASE Latch(a)
      BY <1>1, <2>2, LatchKeeps DEF IInv
    <2> QED BY <2>1, <2>2 DEF SafeIdle
  <1> QED BY <1>1, <1>2, LatchedKeeps

LEMMA LatchNextKeeps == ASSUME IInv, LatchNext PROVE IInv' /\ StepSound
  <1> DEFINE a == Turn
  <1>1. op.kind = "latch" /\ op.todo # {} /\ op.stop = {} /\ op \in LatchOps
    BY OpFields DEF LatchNext, IInv, TypeOK
  <1>2. a \in op.todo /\ a \in Arms /\ a \in cell /\ op.todo \in SUBSET Arms
    BY <1>1, TurnIsNext DEF IInv, OpSound, LatchOps
  <1>3. UNCHANGED <<setup, hands, inventory>>
    BY DEF LatchNext
  <1>4. /\ faults' = faults \cup {a}
        /\ pairFaults' = IF a \in faults THEN pairFaults ELSE PairMarked({a})
    BY DEF LatchNext
  <1>5. RuntimeOK' /\ SameWorkers
    BY SameRuntime, SameTypes, UntimedSameWorkers DEF LatchNext, IInv, TypeOK
  <1>6. /\ op'.kind = "latch" /\ op'.todo = op.todo \ {a} /\ op'.given = op.given
        /\ op'.stop = {} \/ (op'.stop = {a} /\ Has(a))
        /\ OpOK'
    <2>1. CASE op' = [op EXCEPT !.todo = Rest]
      BY <1>1, <1>2, <2>1 DEF LatchOps, OpOK, Rest
    <2>2. CASE Has(a) /\ op' = [op EXCEPT !.todo = Rest, !.stop = {a}]
      BY <1>1, <1>2, <2>2 DEF LatchOps, OpOK, Rest
    <2> QED BY <2>1, <2>2 DEF LatchNext
  <1>7. DeviceOK' /\ OnlyIdled
    <2>1. CASE UNCHANGED device
      BY <2>1, SameDevice, SameTypes DEF IInv
    <2>2. CASE (~Has(a) \/ CanIdle(a)) /\ Idle({a} \cap Connected)
      <3>1. \A b \in {a} \cap Connected : CanIdle(b)
        BY <2>2 DEF Connected
      <3> QED BY <1>2, <2>2, <3>1, IdleOnlyIdles DEF IInv, TypeOK
    <2> QED BY <2>1, <2>2 DEF LatchNext
  <1> HIDE DEF a
  <1>8. FaultsAdded
    BY <1>2, <1>4 DEF IInv, TypeOK, FaultsOK, FaultsSound, FaultsAdded, PairMarked
  <1>9. Connected' = Connected /\ (Has(a) => a \in Connected)
    BY <1>2, <1>5, SameWorkersConnected DEF Connected
  <1>10. OpSound'
    BY <1>1, <1>2, <1>3, <1>4, <1>6, <1>9 DEF IInv, OpSound, setup, Stops
  <1>11. Starting = {} /\ Starting' = {}
    BY <1>1, <1>6 DEF Starting
  <1> QED BY <1>3, <1>5, <1>6, <1>7, <1>8, <1>9, <1>10, <1>11, Keeps, SameTypes,
             FaultsAddedSound, OnlyIdledMoves DEF IInv, hands

LEMMA LatchEndsKeeps == ASSUME IInv, LatchEnds PROVE IInv' /\ StepSound
  <1> DEFINE others == {b \in Connected : \E a \in op.given : b \in Counterparts(a)}
  <1>1. op' = NoOp /\ UNCHANGED <<setup, hands, pairFaults, inventory>> /\ Starting = {}
    BY DoneStartsNone DEF LatchEnds
  <1>2. PICK idled \in SUBSET {b \in others : CanIdle(b)} :
            /\ Idle(idled) /\ faults' = faults \cup (others \ idled)
            /\ runtime' = Untimed(others)
    BY DEF LatchEnds
  <1>3. op.given \subseteq faults /\ op.given \subseteq cell
    BY DEF LatchEnds, StopsDone, IInv, OpSound
  <1>4. others \in SUBSET cell /\ others \in SUBSET Arms
    BY ConnectedInCell
  <1>5. \A b \in others : PairOf[b] \subseteq pairFaults
    <2> SUFFICES ASSUME NEW b \in others PROVE PairOf[b] \subseteq pairFaults
      OBVIOUS
    <2>1. PICK a \in op.given : b \in Counterparts(a)
      OBVIOUS
    <2>2. PairOf[b] = PairOf[a]
      BY <1>3, <1>4, <2>1, OnePairEach DEF IInv, TypeOK, SetupOK
    <2> QED BY <1>3, <2>2 DEF IInv, FaultsSound
  <1> HIDE DEF others
  <1>6. RuntimeOK' /\ SameWorkers /\ DeviceOK' /\ OnlyIdled
    BY <1>2, <1>4, IdleOnlyIdles, UntimedSameWorkers DEF IInv, TypeOK
  <1>7. FaultsAdded
    BY <1>1, <1>2, <1>4, <1>5 DEF FaultsAdded, IInv, TypeOK, FaultsOK, FaultsSound
  <1> QED BY <1>1, <1>6, <1>7, LatchedKeeps

-----------------------------------------------------------------------------
(* The check of a handle; workers and adapters on their own *)

LEMMA HandleBeginsKeeps ==
    ASSUME IInv, NEW a \in Arms, HandleBegins(a)
    PROVE  IInv' /\ StepSound
  <1> DEFINE k == Lease(a, inventory[a], "handle")
  <1>1. /\ UNCHANGED <<setup, runtime, device, faults, pairFaults, inventory, op>>
        /\ leases' = leases \cup {k} /\ a \in cell
        /\ Starting = {} /\ op' = NoOp
    BY FreeStartsNone DEF HandleBegins, Free
  <1>2. /\ k.arm = a /\ k.by = "handle" /\ k.interface = inventory[a]
        /\ k \in [arm : Arms, interface : Interfaces, by : {"worker", "handle"}]
    BY DEF HandleBegins, Lease, IInv, TypeOK, InventoryOK
  <1>3. (\A l \in leases : l.arm # a /\ l.interface # inventory[a]) /\ ~Has(a)
    BY DEF HandleBegins, Lockable
  <1>4. HandleOK' /\ handle'[a] = "sampling" /\ \A b \in Arms \ {a} : handle'[b] = handle[b]
    BY DEF HandleBegins, IInv, TypeOK, HandleOK
  <1> HIDE DEF k
  <1>5. OpOK' /\ OpSound' /\ Starting' = {} /\ Connected' = Connected
    BY <1>1, NoOpSound, SameRuntime, SameWorkersConnected
  <1>6. TypeOK'
    BY <1>1, <1>2, <1>4, <1>5, SameTypes DEF IInv, TypeOK, LeasesOK
  <1>7. {l.arm : l \in leases'} = {l.arm : l \in leases} \cup {a}
    BY <1>1, <1>2
  <1>8. Connected \in SUBSET Arms /\ a \notin Connected
        /\ \A l \in leases : l.arm \in Arms \ {a}
    BY <1>3 DEF Connected, IInv, TypeOK, LeasesOK
  <1>9. LeasesSound'
    <2>1. {b \in Arms : handle'[b] # "none"} = {b \in Arms : handle[b] # "none"} \cup {a}
      BY <1>4
    <2>2. OneOwnerPerBus'
      BY <1>1, <1>2, <1>3, <1>5, <1>7, <1>8, <2>1 DEF IInv, LeasesSound, OneOwnerPerBus
    <2> QED BY <1>1, <1>2, <1>4, <1>5, <1>8, <2>2 DEF IInv, LeasesSound
  <1>10. FaultsSound'
    BY <1>1, <1>7 DEF IInv, FaultsSound, setup
  <1>11. StepSound
    <2> SUFFICES ASSUME NEW b \in Arms PROVE BusStep(b) /\ MoveStep(b)
      BY DEF StepSound
    <2> QED BY <1>1, <1>2, SameBus, StillBus
  <1> QED BY <1>5, <1>6, <1>9, <1>10, <1>11 DEF IInv

LEMMA HandleEndsKeeps ==
    ASSUME IInv, NEW a \in Arms, HandleEnds(a)
    PROVE  IInv' /\ StepSound
  <1>1. /\ UNCHANGED <<setup, runtime, device, faults, pairFaults, inventory, op>>
        /\ leases' = {l \in leases : l.arm # a}
        /\ Starting = {} /\ op' = NoOp /\ handle[a] = "sampling"
    BY FreeStartsNone DEF HandleEnds, Free, Released
  <1>2. HandleOK' /\ handle'[a] = "none" /\ \A b \in Arms \ {a} : handle'[b] = handle[b]
    BY DEF HandleEnds, IInv, TypeOK, HandleOK
  <1>3. OpOK' /\ OpSound' /\ Starting' = {} /\ Connected' = Connected
    BY <1>1, NoOpSound, SameRuntime, SameWorkersConnected
  <1>4. TypeOK'
    BY <1>1, <1>2, <1>3, SameTypes DEF IInv, TypeOK, LeasesOK
  <1>5. {l.arm : l \in leases'} = {l.arm : l \in leases} \ {a}
    BY <1>1
  <1>6. Connected \in SUBSET Arms /\ a \notin Connected
        /\ \A l \in leases : l.arm \in Arms /\ (l.arm = a => l.by = "handle")
    <2>1. a \notin Connected
      BY <1>1, WorkerHasLease DEF IInv
    <2> QED BY <1>1, <2>1 DEF Connected, IInv, TypeOK, LeasesOK, LeasesSound
  <1>7. LeasesSound'
    <2>1. {b \in Arms : handle'[b] # "none"} = {b \in Arms : handle[b] # "none"} \ {a}
      BY <1>2
    <2>2. \A b \in Connected : Lease(b, runtime[b].interface, "worker") \in leases'
      BY <1>1, <1>6 DEF IInv, LeasesSound, OneOwnerPerBus, Lease
    <2>3. OneOwnerPerBus'
      BY <1>1, <1>3, <1>5, <1>6, <2>1, <2>2 DEF IInv, LeasesSound, OneOwnerPerBus
    <2> QED BY <1>1, <1>2, <1>3, <1>6, <2>3 DEF IInv, LeasesSound
  <1>8. FaultsSound'
    BY <1>1, <1>5 DEF IInv, FaultsSound, setup
  <1>9. StepSound
    <2> SUFFICES ASSUME NEW b \in Arms PROVE BusStep(b) /\ MoveStep(b)
      BY DEF StepSound
    <2> QED BY <1>1, <1>6, SameBus, StillBus
  <1> QED BY <1>3, <1>4, <1>7, <1>8, <1>9 DEF IInv

LEMMA HandleStuckKeeps ==
    ASSUME IInv, NEW a \in Arms, HandleStuck(a)
    PROVE  IInv' /\ StepSound
  <1>1. /\ UNCHANGED <<setup, runtime, device, leases, inventory, op>>
        /\ Starting = {} /\ op' = NoOp /\ handle[a] = "sampling"
        /\ faults' = faults \cup {a} /\ pairFaults' = PairMarked({a})
    BY FreeStartsNone DEF HandleStuck, Free
  <1>2. HandleOK' /\ \A b \in Arms : handle'[b] = "none" <=> handle[b] = "none"
    BY DEF HandleStuck, IInv, TypeOK, HandleOK
  <1>3. OpOK' /\ OpSound' /\ Starting' = {} /\ Connected' = Connected
    BY <1>1, NoOpSound, SameRuntime, SameWorkersConnected
  <1>4. TypeOK'
    BY <1>1, <1>2, <1>3, SameTypes DEF IInv, TypeOK, FaultsOK
  <1>5. LeasesSound'
    <2>1. {b \in Arms : handle'[b] # "none"} = {b \in Arms : handle[b] # "none"}
      BY <1>2
    <2>2. OneOwnerPerBus'
      BY <1>1, <1>3, <2>1 DEF IInv, LeasesSound, OneOwnerPerBus
    <2> QED BY <1>1, <1>2, <1>3, <2>2 DEF IInv, LeasesSound, TypeOK, LeasesOK
  <1>6. FaultsSound'
    <2>1. a \in cell
      BY <1>1 DEF IInv, LeasesSound, OneOwnerPerBus, FaultsSound
    <2> QED BY <1>1, <2>1 DEF IInv, FaultsSound, PairMarked, setup
  <1>7. StepSound
    <2> SUFFICES ASSUME NEW b \in Arms PROVE BusStep(b) /\ MoveStep(b)
      BY DEF StepSound
    <2> QED BY <1>1, SameBus, StillBus
  <1> QED BY <1>3, <1>4, <1>5, <1>6, <1>7 DEF IInv

(* What happens to workers and adapters by itself, whoever holds the lock. *)
LEMMA AloneKeeps ==
    ASSUME IInv, UNCHANGED <<setup, hands, faults, pairFaults, op>>, InventoryOK', RuntimeOK',
           DeviceOK', SameWorkers, DeviceMoves
    PROVE  IInv' /\ StepSound
  <1>1. FaultsOK' /\ FaultsSound'
    BY SameFaults, FaultsAddedSound DEF IInv, hands
  <1>2. OpOK' /\ OpSound' /\ Starting' = Starting
    BY SameOpSound DEF IInv, hands
  <1> QED BY <1>1, <1>2, Keeps, SameWorkersConnected

LEMMA WorkerFaultsKeeps ==
    ASSUME IInv, NEW a \in Arms, WorkerFaults(a)
    PROVE  IInv' /\ StepSound
  <1>1. UNCHANGED <<setup, device, hands, faults, pairFaults, inventory, op>>
    BY DEF WorkerFaults
  <1>2. RuntimeOK' /\ SameWorkers
    BY DEF WorkerFaults, IInv, TypeOK, RuntimeOK, Runtimes, SameWorkers
  <1> QED BY <1>1, <1>2, AloneKeeps, SameTypes, SameDevice, OnlyIdledMoves DEF IInv

LEMMA DeviceChangesKeeps ==
    ASSUME IInv, NEW a \in Arms, DeviceChanges(a)
    PROVE  IInv' /\ StepSound
  <1>1. UNCHANGED <<setup, runtime, hands, faults, pairFaults, inventory, op>>
    BY DEF DeviceChanges
  <1>2. DeviceOK' /\ DeviceMoves
    BY DEF DeviceChanges, IInv, TypeOK, DeviceOK, DeviceMoves
  <1> QED BY <1>1, <1>2, AloneKeeps, SameTypes, SameRuntime DEF IInv

LEMMA ReplugKeeps ==
    ASSUME IInv, NEW a \in Arms, Replug(a)
    PROVE  IInv' /\ StepSound
  <1>1. UNCHANGED <<setup, runtime, device, hands, faults, pairFaults, op>>
    BY DEF Replug
  <1>2. InventoryOK'
    BY DEF Replug, IInv, TypeOK, InventoryOK
  <1> QED BY <1>1, <1>2, AloneKeeps, SameTypes, SameRuntime, SameDevice, OnlyIdledMoves DEF IInv

-----------------------------------------------------------------------------
(* The invariant *)

LEMMA InitIInv == Init => IInv
  <1> SUFFICES ASSUME Init PROVE IInv
    OBVIOUS
  <1>1. Connected = {} /\ Starting = {} /\ Stops = {}
    BY DEF Init, Connected, Has, NoRuntime, NewRuntime, Starting, Stops, NoOp
  <1>2. TypeOK
    BY DEF Init, TypeOK, SetupOK, RuntimeOK, Runtimes, NoRuntime, NewRuntime, DeviceOK,
       LeasesOK,
       FaultsOK, HandleOK, InventoryOK, OpOK
  <1>3. LeasesSound
    BY <1>1 DEF Init, LeasesSound, OneOwnerPerBus
  <1>4. OpSound /\ FaultsSound
    BY <1>1 DEF Init, OpSound, FaultsSound, NoOp
  <1> QED BY <1>2, <1>3, <1>4 DEF IInv

LEMMA StepIInv == ASSUME IInv, [Next]_vars PROVE IInv' /\ StepSound
  <1>1. CASE ConnectHas \/ ConnectLocks \/ ConnectFails \/ StartOpens \/ Started \/ StartFails
             \/ ConnectEnds \/ ConnectBegins
    BY <1>1, ConnectHasKeeps, ConnectLocksKeeps, ConnectFailsKeeps, StartOpensKeeps,
       StartedKeeps, StartFailsKeeps, ConnectEndsKeeps, ConnectBeginsKeeps
  <1>2. CASE StopNext \/ StopClean \/ StopUnclean \/ UndoEnds \/ DisconnectEnds \/ ResetEnds
             \/ DisconnectBegins \/ ResetBegins \/ ApplySetup
    BY <1>2, StopNextKeeps, StopCleanKeeps, StopUncleanKeeps, UndoEndsKeeps,
       DisconnectEndsKeeps, ResetEndsKeeps, DisconnectBeginsKeeps, ResetBeginsKeeps,
       ApplySetupKeeps
  <1>3. CASE ApplyChecks \/ LatchNext \/ LatchEnds \/ LatchBegins
    BY <1>3, ApplyChecksKeeps, LatchNextKeeps, LatchEndsKeeps, LatchBeginsKeeps
  <1>4. ASSUME NEW a \in Arms, Apply(a) \/ ApplyFails(a) \/ Refresh(a) \/ SafeIdle(a)
        PROVE  IInv' /\ StepSound
    BY <1>4, ApplyKeeps, ApplyFailsKeeps, RefreshKeeps, SafeIdleKeeps
  <1>5. ASSUME NEW a \in Arms, HandleBegins(a) \/ HandleEnds(a) \/ HandleStuck(a)
        PROVE  IInv' /\ StepSound
    BY <1>5, HandleBeginsKeeps, HandleEndsKeeps, HandleStuckKeeps
  <1>6. ASSUME NEW a \in Arms, WorkerFaults(a) \/ DeviceChanges(a) \/ Replug(a)
        PROVE  IInv' /\ StepSound
    BY <1>6, WorkerFaultsKeeps, DeviceChangesKeeps, ReplugKeeps
  <1>7. CASE UNCHANGED vars
    <2>1. UNCHANGED <<setup, runtime, device, hands, faults, pairFaults, inventory, op>>
      BY <1>7 DEF vars, setup, hands
    <2> QED BY <2>1, AloneKeeps, SameTypes, SameRuntime, SameDevice, OnlyIdledMoves DEF IInv
  <1> QED BY <1>1, <1>2, <1>3, <1>4, <1>5, <1>6, <1>7 DEF Next, Step

(* What holds of the locks, the operation that holds the driver's lock and *)
(* the faults at every step, whatever the arms, pairs and interfaces are.  *)
THEOREM Inductive == Spec => []IInv
  <1>1. IInv /\ [Next]_vars => IInv'
    BY StepIInv
  <1> QED BY <1>1, InitIInv, PTL DEF Spec

(* No bus has two owners and no lock is held for nobody (the bus locks of  *)
(* _connect_one_locked and check_handle_range).                            *)
THEOREM BusesHaveOneOwner == Spec => []OneOwnerPerBus
  <1>1. IInv => OneOwnerPerBus
    BY DEF IInv, LeasesSound
  <1> QED BY <1>1, Inductive, PTL

(* Whichever way a worker goes (_disconnect_one_locked, the rollback of    *)
(* connect_arms, latch_fault, reset_setup), its bus is given back only     *)
(* with the device off: each arm keeps to ArmBus.                          *)
THEOREM KeepsToArmBus == Spec => ImplementsArmBus
  <1>1. Init => \A a \in Arms : ArmBusSpec(a)!Init
    BY DEF Init, BusOf, ArmBusSpec!Init
  <1>2. IInv /\ [Next]_vars =>
            [\A a \in Arms : [ArmBusSpec(a)!Next]_<<BusOf(a), device[a]>>]_vars
    BY StepIInv DEF StepSound, BusStep
  <1> QED BY <1>1, <1>2, Inductive, PTL DEF Spec, ImplementsArmBus

(* apply_action: an arm is set in motion only while no fault of its pair   *)
(* is on record, for every way a fault may get there.                      *)
THEOREM NoMotionBesideFault == Spec => MovesBesideNoFault
  <1>1. IInv /\ [Next]_vars =>
            [\A a \in Arms : device[a] # "holding" /\ device'[a] = "holding" =>
                \A b \in faults : b # a /\ PairOf[b] \cap PairOf[a] = {}]_vars
    BY StepIInv DEF StepSound, MoveStep
  <1> QED BY <1>1, Inductive, PTL DEF Spec, MovesBesideNoFault

(* connect_arms: a connect that fails leaves no worker of its own but a    *)
(* blocked one, and takes away none that ran before.                       *)
THEOREM FailedConnectsUndone == Spec => FailedConnectUndone
  <1> DEFINE Undone == op.kind = "undo" /\ op' = NoOp =>
                           /\ op.before \subseteq Connected
                           /\ \A a \in Connected : a \in op.before \/ runtime[a].blocked
  <1>1. ASSUME IInv, Next PROVE Undone
    <2> SUFFICES ASSUME op.kind = "undo", op' = NoOp
                 PROVE  /\ op.before \subseteq Connected
                        /\ \A a \in Connected : a \in op.before \/ runtime[a].blocked
      OBVIOUS
    <2>1. op.stop \in SUBSET Arms /\ op \in UndoOps /\ Stops = op.stop
      BY <1>1, OpFields DEF IInv, TypeOK, UndoOps, Stops
    <2>2. UndoEnds
      <3>1. ~StopNext /\ ~StopClean /\ ~StopUnclean
        BY <2>1 DEF StopNext, StopClean, StopUnclean, NoOp, UndoOps
      <3>2. ~Free /\ ~UNCHANGED op
        BY DEF Free, NoOp
      <3>3. ~Step \/ UndoEnds
        BY <3>1 DEF Step, ConnectHas, ConnectLocks, ConnectFails, StartOpens, Started,
           StartFails, ConnectEnds, DisconnectEnds, ResetEnds, ApplyChecks, LatchNext, LatchEnds,
           StopsDone
      <3> QED BY <1>1, <3>2, <3>3 DEF Next, ConnectBegins, DisconnectBegins, ResetBegins,
                 ApplySetup, LatchBegins, Apply, ApplyFails, Refresh, SafeIdle, HandleBegins,
                 HandleEnds, HandleStuck, WorkerFaults, DeviceChanges, Replug
    <2> QED BY <1>1, <2>1, <2>2 DEF UndoEnds, StopsDone, IInv, OpSound
  <1> HIDE DEF Undone
  <1>2. IInv /\ [Next]_vars => [Undone]_vars
    BY <1>1
  <1>3. Spec => [][Undone]_vars
    BY <1>2, Inductive, PTL DEF Spec
  <1> QED BY <1>3 DEF Undone, FailedConnectUndone
=============================================================================
