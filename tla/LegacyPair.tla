----------------------------- MODULE LegacyPair -----------------------------
(***************************************************************************)
(* The driver of one leader and one follower (RealYAMDriver,               *)
(* drivers/real_yam.py): a thread that samples both, callers that command  *)
(* the follower, and the setup manager, which starts, stops and            *)
(* reconfigures the pair one operation at a time.  A step is what a thread *)
(* does under the state lock, or a call into the vendor's devices; the two *)
(* I/O locks are variables.  A vendor call may fail, and takes any time.   *)
(*                                                                         *)
(* latch_fault is left out: safe_idle of this driver never fails (it is    *)
(* YAMDriver's), so that nobody comes to call it.                          *)
(***************************************************************************)
EXTENDS Naturals

CONSTANTS
    Configs,     \* configurations of a pair
    MaxStarts    \* pairs of devices made, numbered

ASSUME PairAssumption == Configs # {} /\ MaxStarts \in Nat \ {0}

VARIABLES
    driver,      \* what the state lock protects
    device,      \* each pair of devices that was made
    lock,        \* who holds the leader's and the follower's I/O lock
    life,        \* where the lifecycle operation stands: startup, shutdown, replace
    sampler,     \* where the sampling thread stands, and the pair it reads
    writer       \* where a command stands, and the follower it is for

vars == <<driver, device, lock, life, sampler, writer>>

Pairs == 1..MaxStarts
None == 0
Statuses == {"configured", "missing", "error"}

Init ==
    /\ \E config \in Configs, status \in Statuses :
          driver = [config |-> config, status |-> status, accepting |-> FALSE, stop |-> FALSE,
                    leader |-> None, follower |-> None, position |-> FALSE,
                    connected |-> FALSE, thread |-> "none"]
    /\ device = [p \in Pairs |-> [leader |-> "none", follower |-> "none", mode |-> "none",
                                  config |-> driver.config]]
    /\ lock = [leader |-> "free", follower |-> "free"]
    /\ life = [pc |-> "idle", op |-> "none"]
    /\ sampler = [pc |-> "none", leader |-> None, follower |-> None]
    /\ writer = [pc |-> "idle", follower |-> None]

-----------------------------------------------------------------------------
(* What the threads share *)

Alive == driver.thread = "alive"

\* _latch_fault_state_locked
Latched(d) == [d EXCEPT !.accepting = FALSE, !.stop = TRUE, !.status = "error",
                        !.connected = FALSE]

\* _close_leader and _close_follower, zero torque before.  A vendor's close that raises is
\* logged, and the device let go of all the same: it is "stuck", closed or not, and
\* nobody tries again.
ShutLeader(p) ==
    IF p = None THEN {device}
    ELSE {[device EXCEPT ![p].leader = end] : end \in {"closed", "stuck"}}
ShutFollower(devices, p) ==
    IF p = None THEN {devices}
    ELSE {[devices EXCEPT ![p].follower = "closed", ![p].mode = "none"],
          [devices EXCEPT ![p].follower = "stuck"]}

\* _disconnect_devices, by one of two threads: the leader's lock, then the follower's,
\* and with both the devices are taken from the driver and closed.
TakesLeaderLock(who) ==
    /\ lock.leader = "free" /\ lock' = [lock EXCEPT !.leader = who]
    /\ UNCHANGED <<driver, device>>

\* Mutant: the follower is closed under the leader's lock alone.
ClosesUnlocked(who) ==
    /\ lock.leader = who
    /\ \E half \in ShutLeader(driver.leader) : device' \in ShutFollower(half, driver.follower)
    /\ driver' = [driver EXCEPT !.leader = None, !.follower = None, !.position = FALSE]
    /\ lock' = [lock EXCEPT !.leader = "free"]

ClosesBoth(who) ==
    /\ lock.leader = who /\ lock.follower = "free"
    /\ \E half \in ShutLeader(driver.leader) : device' \in ShutFollower(half, driver.follower)
    /\ driver' = [driver EXCEPT !.leader = None, !.follower = None, !.position = FALSE]
    /\ lock' = [lock EXCEPT !.leader = "free"]

-----------------------------------------------------------------------------
(* Lifecycle operations, under the lifecycle lock *)

GoesOn(pc) == life' = [life EXCEPT !.pc = pc]
Ends == life' = [pc |-> "idle", op |-> "none"]
Owner == UNCHANGED <<sampler, writer>>

\* startup: nothing while commands are accepted or a sampling thread is alive; a
\* preflight that fails is what it says.
StartsUp ==
    /\ life.pc = "idle" /\ ~driver.accepting /\ ~Alive
    /\ \E p \in Pairs : device[p].leader = "none"
    /\ \/ \E status \in Statuses \ {"configured"} :
             driver' = [driver EXCEPT !.status = status, !.connected = FALSE]
          /\ UNCHANGED life
       \/ /\ driver' = [driver EXCEPT !.stop = FALSE, !.position = FALSE]
          /\ life' = [pc |-> "make", op |-> "startup"]
    /\ UNCHANGED <<device, lock>> /\ Owner

\* The vendor's factory.
Makes ==
    /\ life.pc = "make"
    /\ LET p == CHOOSE q \in Pairs : /\ device[q].leader = "none"
                                     /\ \A r \in Pairs : device[r].leader = "none" => q <= r IN
       /\ device' = [device EXCEPT ![p] = [leader |-> "made", follower |-> "made",
                                           mode |-> "none", config |-> driver.config]]
       /\ driver' = [driver EXCEPT !.leader = p, !.follower = p]
    /\ GoesOn("leader")
    /\ UNCHANGED lock /\ Owner

ConnectsLeader ==
    /\ life.pc = "leader" /\ lock.leader = "free"
    /\ device' = [device EXCEPT ![driver.leader].leader = "open"]
    /\ GoesOn("follower")
    /\ UNCHANGED <<driver, lock>> /\ Owner

\* The follower starts in zero gravity.
ConnectsFollower ==
    /\ life.pc = "follower" /\ lock.follower = "free"
    /\ device' = [device EXCEPT ![driver.follower].follower = "open",
                                ![driver.follower].mode = "gravity"]
    /\ GoesOn("sample")
    /\ UNCHANGED <<driver, lock>> /\ Owner

\* The first sample, once both locks were to be had.
SamplesFirst ==
    /\ life.pc = "sample" /\ lock.leader = "free" /\ lock.follower = "free"
    /\ driver' = [driver EXCEPT !.connected = TRUE]
    /\ GoesOn("accept")
    /\ UNCHANGED <<device, lock>> /\ Owner

\* The factory, a connection or the first sample fails, a device opened or not.
StartFails ==
    /\ life.pc \in {"make", "leader", "follower", "sample"}
    /\ \/ UNCHANGED device
       \/ /\ life.pc = "follower"
          /\ device' = [device EXCEPT ![driver.follower].follower = "open",
                                      ![driver.follower].mode = "gravity"]
    /\ GoesOn("undo")
    /\ UNCHANGED <<driver, lock>> /\ Owner

Accepts ==
    /\ life.pc = "accept"
    /\ driver' = [driver EXCEPT !.accepting = TRUE, !.status = "connected",
                                !.thread = "unstarted"]
    /\ GoesOn("thread")
    /\ UNCHANGED <<device, lock>> /\ Owner

StartsThread ==
    /\ life.pc = "thread"
    /\ \/ /\ driver' = [driver EXCEPT !.thread = "alive"]
          /\ sampler' = [sampler EXCEPT !.pc = "top"]
          /\ Ends
       \/ /\ driver' = [driver EXCEPT !.accepting = FALSE, !.stop = TRUE]
          /\ GoesOn("undo")
          /\ UNCHANGED sampler
    /\ UNCHANGED <<device, lock, writer>>

\* shutdown, and _replace_config, which begins with it.
Stops ==
    /\ life.pc = "idle"
    /\ driver' = [driver EXCEPT !.accepting = FALSE, !.stop = TRUE]
    /\ \E op \in {"shutdown", "replace"} :
          life' = [pc |-> IF Alive THEN "join" ELSE "undo", op |-> op]
    /\ UNCHANGED <<device, lock>> /\ Owner

Joins ==
    /\ life.pc = "join" /\ ~Alive
    /\ GoesOn("undo")
    /\ UNCHANGED <<driver, device, lock>> /\ Owner

\* Mutant: the configuration is replaced whether the thread is over or not.
ReplacesAnyway ==
    /\ life.pc = "join" /\ Alive
    /\ \/ /\ life.op = "shutdown" /\ UNCHANGED driver
       \/ /\ life.op = "replace"
          /\ \E config \in Configs : driver' = [driver EXCEPT !.config = config]
    /\ Ends
    /\ UNCHANGED <<device, lock>> /\ Owner

\* The thread is not over in time: the devices are left to it, and a configuration that
\* was to be replaced is not.
JoinTimesOut ==
    /\ life.pc = "join" /\ Alive
    /\ driver' = [driver EXCEPT !.status = "error", !.connected = FALSE]
    /\ Ends
    /\ UNCHANGED <<device, lock>> /\ Owner

Undoes ==
    /\ \/ life.pc = "undo" /\ TakesLeaderLock("life") /\ GoesOn("close")
       \/ life.pc = "close" /\ ClosesBoth("life") /\ GoesOn("closed")
    /\ Owner

\* How an operation ends once the devices are closed.
Concludes ==
    /\ life.pc = "closed"
    /\ \/ /\ life.op = "startup"
          /\ \E status \in {"missing", "error"} :
                driver' = [driver EXCEPT !.status = status, !.connected = FALSE,
                                         !.thread = "none"]
       \/ /\ life.op = "shutdown"
          /\ driver' = [driver EXCEPT !.status = IF @ = "connected" THEN "configured" ELSE @,
                                      !.connected = FALSE, !.thread = "none"]
       \/ /\ life.op = "replace"
          /\ \E config \in Configs, status \in Statuses :
                driver' = [driver EXCEPT !.config = config, !.status = status,
                                         !.connected = FALSE, !.thread = "none"]
    /\ Ends
    /\ UNCHANGED <<device, lock>> /\ Owner

-----------------------------------------------------------------------------
(* The sampling thread *)

SamplerGoes(pc) == sampler' = [sampler EXCEPT !.pc = pc]
Sampler == UNCHANGED <<life, writer>>

\* A turn of _sample_loop: the thread reads which devices there are.
Turns ==
    /\ sampler.pc = "top"
    /\ IF driver.stop \/ ~driver.accepting THEN SamplerGoes("finally")
       ELSE IF driver.leader = None \/ driver.follower = None THEN SamplerGoes("fault")
       ELSE sampler' = [pc |-> "leader", leader |-> driver.leader, follower |-> driver.follower]
    /\ UNCHANGED <<driver, device, lock>> /\ Sampler

\* It samples each device under its lock; anything wrong with what it gets is an error.
Locks(side, pc) ==
    /\ sampler.pc = side /\ lock[side] = "free"
    /\ lock' = [lock EXCEPT ![side] = "sampler"]
    /\ SamplerGoes(pc)
    /\ UNCHANGED <<driver, device>> /\ Sampler

Gets(pc, side, next) ==
    /\ sampler.pc = pc
    /\ lock' = [lock EXCEPT ![side] = "free"]
    /\ \/ SamplerGoes("fault")
       \/ device[sampler[side]][side] = "open" /\ SamplerGoes(next)
    /\ UNCHANGED <<driver, device>> /\ Sampler

Samples == \/ Locks("leader", "leader read") \/ Gets("leader read", "leader", "follower")
           \/ Locks("follower", "follower read") \/ Gets("follower read", "follower", "store")

\* The end of _sample_io: a sample of devices that are no longer these is dropped.
Stores ==
    /\ sampler.pc = "store"
    /\ driver' = [driver EXCEPT !.connected =
                    @ \/ (/\ driver.leader = sampler.leader
                          /\ driver.follower = sampler.follower
                          /\ driver.accepting)]
    /\ SamplerGoes("top")
    /\ UNCHANGED <<device, lock>> /\ Sampler

Faults ==
    /\ sampler.pc = "fault"
    /\ driver' = Latched(driver)
    /\ SamplerGoes("finally")
    /\ UNCHANGED <<device, lock>> /\ Sampler

\* Mutant: the thread leaves the devices to others.
JustDies ==
    /\ sampler.pc = "finally"
    /\ SamplerGoes("none") /\ driver' = [driver EXCEPT !.thread = "dead"]
    /\ UNCHANGED <<device, lock>> /\ Sampler

\* Once told to stop it closes what is left, before it ends.
Dies ==
    /\ \/ /\ sampler.pc = "finally" /\ driver.stop
          /\ TakesLeaderLock("sampler") /\ SamplerGoes("close")
       \/ sampler.pc = "close" /\ ClosesBoth("sampler") /\ SamplerGoes("end")
       \/ /\ sampler.pc = "end"
          /\ SamplerGoes("none") /\ driver' = [driver EXCEPT !.thread = "dead"]
          /\ UNCHANGED <<device, lock>>
    /\ Sampler

-----------------------------------------------------------------------------
(* A command: jog or apply_action, then _write *)

WriterGoes(pc) == writer' = [writer EXCEPT !.pc = pc]
Writer == UNCHANGED <<life, sampler>>

\* _require_commandable_locked
Commandable == driver.accepting /\ driver.connected

Asks ==
    /\ writer.pc = "idle" /\ Commandable
    /\ WriterGoes("lock")
    /\ UNCHANGED <<driver, device, lock>> /\ Writer

TakesFollowerLock ==
    /\ writer.pc = "lock" /\ lock.follower = "free"
    /\ lock' = [lock EXCEPT !.follower = "writer"]
    /\ WriterGoes("check")
    /\ UNCHANGED <<driver, device>> /\ Writer

Leaves ==
    /\ lock' = [lock EXCEPT !.follower = "free"]
    /\ writer' = [pc |-> "idle", follower |-> None]

\* Everything is looked at again under both locks.  A target out of bounds is refused,
\* a sample that is too old ends the pair.
Checks ==
    /\ writer.pc = "check"
    /\ \/ Leaves /\ UNCHANGED driver
       \/ /\ Commandable /\ driver' = Latched(driver)
          /\ WriterGoes("shut") /\ UNCHANGED lock
       \/ /\ Commandable /\ driver.follower # None
          /\ writer' = [pc |-> IF driver.position THEN "command" ELSE "mode",
                        follower |-> driver.follower]
          /\ UNCHANGED <<driver, lock>>
    /\ UNCHANGED device /\ Writer

SetsMode ==
    /\ writer.pc = "mode"
    /\ device' = [device EXCEPT ![writer.follower].mode = "position"]
    /\ driver' = [driver EXCEPT !.position = TRUE]
    /\ WriterGoes("command")
    /\ UNCHANGED lock /\ Writer

Commands ==
    /\ writer.pc = "command"
    /\ Leaves
    /\ UNCHANGED <<driver, device>> /\ Writer

CommandFails ==
    /\ writer.pc \in {"mode", "command"}
    /\ driver' = Latched(driver)
    /\ WriterGoes("shut")
    /\ UNCHANGED <<device, lock>> /\ Writer

\* _disconnect_follower_io: the leader is left to the sampling thread, since its lock
\* comes before the one that is held.
ShutsFollower ==
    /\ writer.pc = "shut"
    /\ device' \in ShutFollower(device, driver.follower)
    /\ driver' = [driver EXCEPT !.follower = None, !.position = FALSE]
    /\ Leaves
    /\ Writer

-----------------------------------------------------------------------------
Lifecycle == \/ Makes \/ ConnectsLeader \/ ConnectsFollower \/ SamplesFirst \/ StartFails
             \/ Accepts \/ StartsThread \/ Joins \/ JoinTimesOut \/ Undoes \/ Concludes
Sampling == Turns \/ Samples \/ Stores \/ Faults \/ Dies
Writing == TakesFollowerLock \/ Checks \/ SetsMode \/ Commands \/ CommandFails \/ ShutsFollower

Next == StartsUp \/ Stops \/ Lifecycle \/ Sampling \/ Asks \/ Writing

Spec == Init /\ [][Next]_vars

\* Threads run, and what they call in the vendor's code returns.
FairSpec == Spec /\ WF_vars(Lifecycle) /\ WF_vars(Sampling) /\ WF_vars(Writing)

-----------------------------------------------------------------------------
(* What must hold *)

\* Opened, and its close not tried yet.
Open(p) == device[p].leader = "open" \/ device[p].follower = "open"

\* A command reaches a follower that is open, holds its position under control and is
\* the one configured, whatever stops, faults or reconfigures the pair meanwhile.
CommandReachesOpenArm ==
    writer.pc = "command" =>
        LET p == writer.follower IN
        /\ device[p].follower = "open" /\ device[p].mode = "position"
        /\ device[p].config = driver.config

\* No device is forgotten before its close was tried: the driver still has it, under the
\* configuration it was opened with, and no second pair is opened beside it.  (A device
\* whose close raised may be open beside the next pair: nothing in the driver knows.)
NoneForgotten ==
    \A p \in Pairs : Open(p) =>
        /\ driver.leader = p \/ driver.follower = p
        /\ device[p].config = driver.config
        /\ \A q \in Pairs : Open(q) => q = p

\* Once told to stop, both devices are closed, or the vendor's close has raised, whoever
\* has to do it and however long somebody else takes.
ClosedInTheEnd == \A p \in Pairs : driver.stop /\ Open(p) ~> ~Open(p)
=============================================================================
