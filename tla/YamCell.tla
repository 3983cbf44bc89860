------------------------------ MODULE YamCell ------------------------------
(***************************************************************************)
(* The driver of a cell of arms (drivers/yam_cell.py): which arms have a   *)
(* worker, which buses they hold, and which are out of service, while      *)
(* arms are connected in groups, fail one by one, and adapters are moved   *)
(* between CAN interfaces.                                                 *)
(*                                                                         *)
(* The driver's lock admits one operation at a time, op, which goes from   *)
(* arm to arm; a worker may fail or crash between any two of its steps,    *)
(* and the check of a teaching handle samples outside the lock.  What one  *)
(* worker does in a call is that of I2RTWorker: confirmed, or not.         *)
(***************************************************************************)
EXTENDS Naturals, Sequences, FiniteSets, SequencesExt

CONSTANTS Arms,        \* logical ids
          Leaders,     \* the arms with a teaching handle; the others follow
          PairOf,      \* the pairs an arm is in: none or one
          Ids,         \* the arms as their logical ids are sorted
          Interfaces,  \* CAN interfaces of the host
          Movable,     \* the arms whose adapters are moved (a bound)
          Cells        \* the configurations that are applied: sets of arms

None == "none"

ASSUME ArmsAssumption == /\ Leaders \subseteq Arms
                         /\ \A a \in Arms : \A p, q \in PairOf[a] : p = q
                         /\ None \notin Interfaces
                         /\ Ids \in Seq(Arms) /\ ToSet(Ids) = Arms
                         /\ Cells \subseteq SUBSET Arms

VARIABLES mode,       \* "empty", "legacy" or "cell"
          cell,       \* the arms configured
          runtime,    \* _runtimes: per arm None or its runtime
          device,     \* per arm the state of its device
          leases,     \* the bus locks this process holds
          faults, pairFaults,   \* _faults, _pair_faults
          handle,     \* per arm "none", "sampling", "stuck": its handle's check
          inventory,  \* per arm the interface its adapter is found at, or None
          op          \* the operation that holds the driver's lock, and its step

vars == <<mode, cell, runtime, device, leases, faults, pairFaults, handle, inventory, op>>
setup == <<mode, cell>>
hands == <<leases, handle>>

NoOp == [kind |-> "none"]

\* _ArmRuntime.  healthy: its supervisor has no fault.
NewRuntime(interface) == [interface |-> interface, blocked |-> FALSE,
                          healthy |-> TRUE, timer |-> FALSE]
NoRuntime == NewRuntime(None)
Blocked(interface) == [NewRuntime(interface) EXCEPT !.blocked = TRUE, !.healthy = FALSE]

Has(a) == runtime[a].interface # None
Connected == {a \in Arms : Has(a)}
Pairs == UNION {PairOf[a] : a \in Arms}
Counterparts(a) == {b \in cell \ {a} : PairOf[a] \cap PairOf[b] # {}}

Free == op = NoOp
Stops == IF op.kind \in {"undo", "disconnect", "reset", "latch"}
         THEN op.stop ELSE {}                            \* whose worker is to stop

\* sorted(selected); connect_arms puts the followers first, and undoes in reverse.
Lowest(S) == Ids[SelectInSeq(Ids, LAMBDA a : a \in S)]
Highest(S) == Ids[SelectLastInSeq(Ids, LAMBDA a : a \in S)]
ConnectFirst(S) == Lowest(IF S \subseteq Leaders THEN S ELSE S \ Leaders)
UndoFirst(S) == Highest(IF S \cap Leaders = {} THEN S ELSE S \cap Leaders)

\* The arm whose turn it is.
Turn == IF op.kind = "connect" THEN ConnectFirst(op.todo)
        ELSE IF op.kind = "undo" THEN UndoFirst(op.todo) ELSE Lowest(op.todo)
Rest == op.todo \ {Turn}

Init == /\ mode = "empty" /\ cell = {}
        /\ runtime = [a \in Arms |-> NoRuntime] /\ device = [a \in Arms |-> "off"]
        /\ leases = {} /\ faults = {} /\ pairFaults = {}
        /\ handle = [a \in Arms |-> "none"]
        /\ inventory \in {f \in [Arms -> Interfaces] : IsInjective(f)}
        /\ op = NoOp

-----------------------------------------------------------------------------
(* Locks, idling and faults *)

\* FileBusLockManager: one lock for the arm's identity and one for the interface,
\* neither of which may have an owner.
Lockable(a, interface) ==
    \A l \in leases : l.arm # a /\ l.interface # interface

Lease(a, interface, by) == [arm |-> a, interface |-> interface, by |-> by]
Released(a) == {l \in leases : l.arm # a}

\* A worker that was idled at all has its device in gravity compensation.
CanIdle(a) == Has(a) /\ ~runtime[a].blocked /\ device[a] \in {"idle", "holding"}
Idle(S) == device' = [a \in Arms |-> IF a \in S THEN "idle" ELSE device[a]]
Untimed(S) == [a \in Arms |-> IF a \in S
                              THEN [runtime[a] EXCEPT !.timer = FALSE] ELSE runtime[a]]

\* _mark_pair_fault_locked
PairMarked(S) == pairFaults \cup UNION {PairOf[a] : a \in S}

\* _latch_fault_locked: the fault, and one attempt to idle the arm and the other of its
\* pair; that one is faulted too when its idle is not confirmed.
Latch(a) ==
    IF a \in faults THEN UNCHANGED <<faults, pairFaults, runtime, device>>
    ELSE LET others == {b \in Counterparts(a) : Has(b)} IN
         \E idled \in SUBSET {b \in others \cup {a} : CanIdle(b)} :
            /\ Idle(idled)
            /\ faults' = faults \cup {a} \cup (others \ idled)
            /\ pairFaults' = PairMarked({a})
            /\ runtime' = Untimed(others \cup {a})

-----------------------------------------------------------------------------
(* connect_arms *)

ConnectBegins ==
    /\ Free /\ mode = "cell"
    /\ \E S \in SUBSET cell \ {{}} :
          /\ S \cap faults = {} /\ \A a \in S : handle[a] = "none"
          /\ op' = [kind |-> "connect", todo |-> S, started |-> {},
                    starting |-> FALSE, before |-> Connected]
    /\ UNCHANGED <<setup, runtime, device, hands, faults, pairFaults, inventory>>

\* What was started by this call is stopped again, the last one first.
Undo == op' = [kind |-> "undo", todo |-> op.started, stop |-> {},
               before |-> op.before]

\* An arm that has a worker is only looked at; a fault found is latched.
ConnectHas ==
    /\ op.kind = "connect" /\ op.todo # {}
    /\ LET a == Turn IN
       /\ Has(a) /\ ~runtime[a].blocked
       /\ IF runtime[a].healthy THEN UNCHANGED <<faults, pairFaults, runtime, device>>
                                ELSE Latch(a)
    /\ op' = [op EXCEPT !.todo = Rest]
    /\ UNCHANGED <<setup, hands, inventory>>

\* The adapters of the other arms are where they were when these were connected.
Moved == {b \in Connected : inventory[b] # runtime[b].interface}

\* _connect_one_locked up to the lock of its bus.
ConnectLocks ==
    /\ op.kind = "connect" /\ op.todo # {} /\ ~op.starting
    /\ LET a == Turn
           i == inventory[a] IN
       /\ ~Has(a) /\ i # None /\ Moved = {}
       /\ \A b \in Connected : runtime[b].interface # i
       /\ Lockable(a, i)
       /\ leases' = leases \cup {Lease(a, i, "worker")}
       /\ op' = [op EXCEPT !.starting = TRUE]
    /\ UNCHANGED <<setup, runtime, device, handle, faults, pairFaults, inventory>>

\* The bus is not ready, has an owner, or another arm's adapter has moved: latched.
ConnectFails ==
    /\ op.kind = "connect" /\ op.todo # {} /\ ~op.starting
    /\ ~Has(Turn) \/ runtime[Turn].blocked
    /\ \/ UNCHANGED <<faults, pairFaults, runtime, device>>
       \/ ~Has(Turn) /\ \E b \in Moved : Latch(b)
    /\ Undo
    /\ UNCHANGED <<setup, hands, inventory>>

\* The device of the arm in question, while its worker starts.
StartOpens ==
    /\ op.kind = "connect" /\ op.todo # {} /\ op.starting
    /\ device[Turn] = "off"
    /\ device' = [device EXCEPT ![Turn] = "idle"]
    /\ UNCHANGED <<setup, runtime, hands, faults, pairFaults, inventory, op>>

\* Mutant: a worker that started is not noted for the rollback.
StartedUnnoted ==
    /\ op.kind = "connect" /\ op.todo # {} /\ op.starting
    /\ LET a == Turn IN
       /\ device[a] = "idle"
       /\ \E l \in leases : /\ l.arm = a
                            /\ runtime' = [runtime EXCEPT ![a] = NewRuntime(l.interface)]
       /\ op' = [op EXCEPT !.todo = Rest, !.starting = FALSE]
    /\ UNCHANGED <<setup, device, hands, faults, pairFaults, inventory>>

Started ==
    /\ op.kind = "connect" /\ op.todo # {} /\ op.starting
    /\ LET a == Turn IN
       /\ device[a] = "idle"
       /\ \E l \in leases : /\ l.arm = a
                            /\ runtime' = [runtime EXCEPT ![a] = NewRuntime(l.interface)]
       /\ op' = [op EXCEPT !.todo = Rest, !.starting = FALSE,
                           !.started = @ \cup {a}]
    /\ UNCHANGED <<setup, device, hands, faults, pairFaults, inventory>>

\* A failed start is shut down, before what was started is.
StartFails ==
    /\ op.kind = "connect" /\ op.todo # {} /\ op.starting
    /\ op' = [kind |-> "undo", todo |-> op.started, stop |-> {Turn},
              before |-> op.before]
    /\ UNCHANGED <<setup, runtime, device, hands, faults, pairFaults, inventory>>

ConnectEnds ==
    /\ op.kind = "connect" /\ op.todo = {}
    /\ op' = NoOp
    /\ UNCHANGED <<setup, runtime, device, hands, faults, pairFaults, inventory>>

-----------------------------------------------------------------------------
(* disconnect_arms, reset_setup and the rollback, arm by arm *)

DisconnectBegins ==
    /\ Free /\ mode = "cell"
    /\ \E S \in SUBSET cell \ {{}} :
          op' = [kind |-> "disconnect", todo |-> S, stop |-> {}]
    /\ UNCHANGED <<setup, runtime, device, hands, faults, pairFaults, inventory>>

\* _require_cell_stopped_locked, before a setup is reset.
ResetBegins ==
    /\ Free /\ \A a \in Arms : handle[a] = "none"
    /\ op' = [kind |-> "reset", todo |-> Connected, stop |-> {}]
    /\ UNCHANGED <<setup, runtime, device, hands, faults, pairFaults, inventory>>

\* _disconnect_one_locked asks the worker to stop.  Without a worker, the record of a
\* fault goes, but not that of a handle's check which may still hold its bus.
StopNext ==
    /\ op.kind \in {"undo", "disconnect", "reset"} /\ op.todo # {} /\ op.stop = {}
    /\ LET a == Turn IN
       /\ op' = [op EXCEPT !.todo = Rest, !.stop = IF Has(a) THEN {a} ELSE {}]
       /\ runtime' = Untimed({a})
       /\ faults' = IF Has(a) \/ handle[a] = "stuck" THEN faults ELSE faults \ {a}
    /\ UNCHANGED <<setup, device, hands, pairFaults, inventory>>

\* Mutant: the bus of an arm that was given up and stopped is not released.
StopKeepsLease ==
    \E a \in Stops :
        /\ device[a] = "off"
        /\ runtime' = [runtime EXCEPT ![a] = NoRuntime]
        /\ leases' = IF op.kind = "latch" THEN leases ELSE Released(a)
        /\ faults' = IF op.kind = "latch" THEN faults ELSE faults \ {a}
        /\ op' = [op EXCEPT !.stop = {}]
        /\ UNCHANGED <<setup, device, handle, pairFaults, inventory>>

\* Mutant: a worker that answers is taken for stopped, whatever its device does.
StopUnproved ==
    \E a \in Stops :
        /\ runtime' = [runtime EXCEPT ![a] = NoRuntime]
        /\ leases' = Released(a)
        /\ faults' = IF op.kind = "latch" THEN faults ELSE faults \ {a}
        /\ op' = [op EXCEPT !.stop = {}]
        /\ UNCHANGED <<setup, device, handle, pairFaults, inventory>>

\* A clean end: the bus is released and the worker dropped, with its fault unless this
\* is what the fault was latched for.
StopClean ==
    \E a \in Stops :
        /\ device[a] = "off"
        /\ runtime' = [runtime EXCEPT ![a] = NoRuntime]
        /\ leases' = Released(a)
        /\ faults' = IF op.kind = "latch" THEN faults ELSE faults \ {a}
        /\ op' = [op EXCEPT !.stop = {}]
        /\ UNCHANGED <<setup, device, handle, pairFaults, inventory>>

\* No evidence of a clean end: the arm keeps its bus, and a fault.
StopUnclean ==
    \E a \in Stops :
        /\ \E l \in leases : /\ l.arm = a
                             /\ runtime' = [runtime EXCEPT ![a] = Blocked(l.interface)]
        /\ faults' = faults \cup {a} /\ pairFaults' = PairMarked({a})
        /\ op' = [op EXCEPT !.stop = {}]
        /\ UNCHANGED <<setup, device, hands, inventory>>

StopsDone(kind) == op.kind = kind /\ op.todo = {} /\ Stops = {}

UndoEnds == /\ StopsDone("undo") /\ op' = NoOp
            /\ UNCHANGED <<setup, runtime, device, hands, faults, pairFaults, inventory>>

\* Mutant: the faults of the pairs are simply dropped.
DisconnectForgets == /\ StopsDone("disconnect") /\ op' = NoOp
                     /\ pairFaults' = {}
                     /\ UNCHANGED <<setup, runtime, device, hands, faults, inventory>>

\* _rebuild_pair_faults_locked
DisconnectEnds == /\ StopsDone("disconnect") /\ op' = NoOp
                  /\ pairFaults' = UNION {PairOf[a] : a \in faults \cap cell}
                  /\ UNCHANGED <<setup, runtime, device, hands, faults, inventory>>

\* The setup goes when every worker is gone; which of the other modes follows is for
\* the legacy driver to say.
ResetEnds ==
    /\ StopsDone("reset") /\ op' = NoOp
    /\ IF Connected = {}
       THEN cell' = {} /\ mode' \in {"empty", "legacy"} /\ faults' = {} /\ pairFaults' = {}
       ELSE UNCHANGED <<setup, faults, pairFaults>>
    /\ UNCHANGED <<runtime, device, hands, inventory>>

\* apply_setup of a cell, or of a legacy pair.  It raises with arms connected, with a
\* handle's check under way, and when the host cannot be inspected.
ApplySetup ==
    /\ Free /\ Connected = {} /\ \A a \in Arms : handle[a] = "none"
    /\ \/ mode' = "cell" /\ cell' \in Cells /\ <<mode, cell>>' # <<mode, cell>>
       \/ mode' = "legacy" /\ cell' = {}
    /\ faults' = {} /\ pairFaults' = {}
    /\ UNCHANGED <<runtime, device, hands, inventory, op>>

-----------------------------------------------------------------------------
(* Commands, idling, and giving an arm up *)

\* apply_action: only an arm in service, of a pair without a fault, is commanded.
Commandable(a) == /\ a \in cell \ Leaders /\ a \notin faults
                  /\ PairOf[a] \cap pairFaults = {}
                  /\ Has(a) /\ ~runtime[a].blocked

\* A target is sent, the idle timer armed, and the worker looked at again.
Apply(a) ==
    /\ Free /\ Commandable(a) /\ runtime[a].healthy
    /\ device[a] \in {"idle", "holding"}
    /\ device' = [device EXCEPT ![a] = "holding"]
    /\ runtime' = [runtime EXCEPT ![a].timer = TRUE]
    /\ op' = [kind |-> "check", todo |-> {a}]
    /\ UNCHANGED <<setup, hands, faults, pairFaults, inventory>>

ApplyChecks ==
    /\ op.kind = "check" /\ op' = NoOp
    /\ LET a == Turn IN
       IF runtime[a].healthy THEN UNCHANGED <<faults, pairFaults, runtime, device>>
                             ELSE Latch(a)
    /\ UNCHANGED <<setup, hands, inventory>>

\* apply_action of a worker that does not answer, and _refresh_runtime_locked of one
\* found unhealthy, which every look at an arm's state makes.
ApplyFails(a) == /\ Free /\ Commandable(a) /\ Latch(a)
                 /\ UNCHANGED <<setup, hands, inventory, op>>

Refresh(a) == /\ Free /\ Has(a) /\ ~runtime[a].blocked /\ ~runtime[a].healthy
              /\ a \notin faults /\ Latch(a)
              /\ UNCHANGED <<setup, hands, inventory, op>>

\* safe_idle: confirmed, or the arm is latched.  idle_if_current does the same when
\* the stream pauses; a timer that was cancelled or replaced does nothing.
SafeIdle(a) ==
    /\ Free /\ Has(a)
    /\ \/ /\ CanIdle(a) /\ Idle({a}) /\ runtime' = Untimed({a})
          /\ UNCHANGED <<faults, pairFaults>>
       \/ a \notin faults /\ Latch(a)
    /\ UNCHANGED <<setup, hands, inventory, op>>

\* latch_fault: each arm is latched and idled, or else stopped for good.
LatchBegins ==
    /\ Free /\ mode = "cell"
    /\ \E S \in SUBSET cell \ {{}} :
          op' = [kind |-> "latch", todo |-> S, stop |-> {}, given |-> S]
    /\ UNCHANGED <<setup, runtime, device, hands, faults, pairFaults, inventory>>

LatchNext ==
    /\ op.kind = "latch" /\ op.todo # {} /\ op.stop = {}
    /\ LET a == Turn IN
       /\ faults' = faults \cup {a}
       /\ pairFaults' = IF a \in faults THEN pairFaults ELSE PairMarked({a})
       /\ runtime' = IF a \in faults THEN runtime ELSE Untimed({a})
       /\ \/ /\ ~Has(a) \/ CanIdle(a)
             /\ Idle({a} \cap Connected)
             /\ op' = [op EXCEPT !.todo = Rest]
          \/ /\ Has(a) /\ UNCHANGED device
             /\ op' = [op EXCEPT !.todo = Rest, !.stop = {a}]
    /\ UNCHANGED <<setup, hands, inventory>>

LatchEnds ==
    /\ StopsDone("latch") /\ op' = NoOp
    /\ LET others == {b \in Connected : \E a \in op.given : b \in Counterparts(a)} IN
       \E idled \in SUBSET {b \in others : CanIdle(b)} :
          /\ Idle(idled)
          /\ faults' = faults \cup (others \ idled)
          /\ runtime' = Untimed(others)
    /\ UNCHANGED <<setup, hands, pairFaults, inventory>>

-----------------------------------------------------------------------------
(* check_handle_range *)

HandleBegins(a) ==
    /\ Free /\ a \in cell \cap Leaders /\ ~Has(a)
    /\ inventory[a] # None /\ Lockable(a, inventory[a])
    /\ \A b \in Connected : runtime[b].interface # inventory[a]
    /\ leases' = leases \cup {Lease(a, inventory[a], "handle")}
    /\ handle' = [handle EXCEPT ![a] = "sampling"]
    /\ UNCHANGED <<setup, runtime, device, faults, pairFaults, inventory, op>>

HandleEnds(a) ==
    /\ Free /\ handle[a] = "sampling"
    /\ leases' = Released(a)
    /\ handle' = [handle EXCEPT ![a] = "none"]
    /\ UNCHANGED <<setup, runtime, device, faults, pairFaults, inventory, op>>

\* The process that sampled could not be ended: the bus stays locked.
HandleStuck(a) ==
    /\ Free /\ handle[a] = "sampling"
    /\ handle' = [handle EXCEPT ![a] = "stuck"]
    /\ faults' = faults \cup {a} /\ pairFaults' = PairMarked({a})
    /\ UNCHANGED <<setup, runtime, device, leases, inventory, op>>

-----------------------------------------------------------------------------
(* Workers and adapters on their own *)

WorkerFaults(a) ==
    /\ Has(a) /\ runtime[a].healthy
    /\ runtime' = [runtime EXCEPT ![a].healthy = FALSE]
    /\ UNCHANGED <<setup, device, hands, faults, pairFaults, inventory, op>>

\* The watchdog idles the device; a worker that ends closes it; one that crashes
\* leaves it as it may be.
DeviceChanges(a) ==
    /\ \/ device[a] = "holding" /\ device' = [device EXCEPT ![a] = "idle"]
       \/ /\ device[a] = "idle"
          /\ a \in Stops \/ (Has(a) => ~runtime[a].healthy)
          /\ \E l \in leases : l.arm = a
          /\ device' = [device EXCEPT ![a] = "off"]
       \/ /\ device[a] \in {"idle", "holding"} /\ (Has(a) => ~runtime[a].healthy)
          /\ device' = [device EXCEPT ![a] = "unknown"]
    /\ UNCHANGED <<setup, runtime, hands, faults, pairFaults, inventory, op>>

\* An adapter is unplugged, or plugged in again, perhaps under another interface.
Replug(a) ==
    /\ a \in Movable
    /\ inventory' \in {[inventory EXCEPT ![a] = i] :
                         i \in {None} \cup (Interfaces \ {inventory[b] : b \in Arms})}
    /\ inventory' # inventory
    /\ UNCHANGED <<setup, runtime, device, hands, faults, pairFaults, op>>

-----------------------------------------------------------------------------
Step == \/ ConnectHas \/ ConnectLocks \/ ConnectFails \/ StartOpens \/ Started
        \/ StartFails \/ ConnectEnds \/ StopNext \/ StopClean \/ StopUnclean
        \/ UndoEnds \/ DisconnectEnds \/ ResetEnds \/ ApplyChecks \/ LatchNext \/ LatchEnds

Next == \/ Step
        \/ ConnectBegins \/ DisconnectBegins \/ ResetBegins \/ ApplySetup \/ LatchBegins
        \/ \E a \in Arms : \/ Apply(a) \/ ApplyFails(a) \/ Refresh(a) \/ SafeIdle(a)
                           \/ HandleBegins(a) \/ HandleEnds(a) \/ HandleStuck(a)
                           \/ WorkerFaults(a) \/ DeviceChanges(a) \/ Replug(a)

Spec == Init /\ [][Next]_vars
-----------------------------------------------------------------------------
(* Properties *)

Starting == IF op.kind = "connect" /\ op.starting THEN {Turn}
            ELSE IF op.kind = "undo" THEN Stops ELSE {}

\* No bus has two owners, be it two workers or a worker and the check of a handle, and
\* no lock is held for nobody: whatever interface an adapter came back under.
OneOwnerPerBus ==
    /\ \A l, k \in leases : l # k => l.interface # k.interface /\ l.arm # k.arm
    /\ {l.arm : l \in leases} =
          Connected \cup Starting \cup {a \in Arms : handle[a] # "none"}
    /\ \A a \in Connected : Lease(a, runtime[a].interface, "worker") \in leases

BusOf(a) == IF \E l \in leases : l.arm = a /\ l.by = "worker"
            THEN IF Has(a) /\ runtime[a].blocked THEN "blocked" ELSE "owned"
            ELSE "free"
ArmBusSpec(a) == INSTANCE ArmBus WITH bus <- BusOf(a), device <- device[a]

\* Every arm's bus is given back only with its device off, whichever way the worker
\* goes: disconnected, rolled back, given up or reset.
ImplementsArmBus ==
    /\ \A a \in Arms : ArmBusSpec(a)!Init
    /\ [][\A a \in Arms : [ArmBusSpec(a)!Next]_<<BusOf(a), device[a]>>]_vars

\* An arm is not set in motion while it, or the arm it is paired with, has a fault on
\* record (_pair_faults as apply_action reads it).
MovesBesideNoFault ==
    [][\A a \in Arms : device[a] # "holding" /\ device'[a] = "holding" =>
          \A b \in faults : b # a /\ PairOf[b] \cap PairOf[a] = {}]_vars

\* A connect that fails leaves no worker it started, but for one whose bus is blocked,
\* and none of those that ran before is gone.
FailedConnectUndone ==
    [][op.kind = "undo" /\ op' = NoOp =>
          /\ op.before \subseteq Connected
          /\ \A a \in Connected : a \in op.before \/ runtime[a].blocked]_vars
=============================================================================
