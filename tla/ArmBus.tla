------------------------------- MODULE ArmBus -------------------------------
(***************************************************************************)
(* What the driver promises of one arm on its CAN bus, whatever happens to *)
(* the process that drives it: a bus is given back only when the device    *)
(* is known to be off, a device is switched off from gravity compensation  *)
(* only, and one whose state is not known keeps its bus.  No lock outlives *)
(* ctrl-pi itself, and so none of this does.                               *)
(***************************************************************************)

VARIABLES bus,     \* "free", "owned", "blocked" after an uncertain teardown, or
                   \* "abandoned" by an owner that has died
          device   \* "off", "idle" (gravity compensation), "holding", "unknown"

Init == bus = "free" /\ device = "off"

\* The bus is taken while the device is off; a start that cannot be undone blocks it.
Acquire == bus = "free" /\ bus' \in {"owned", "blocked"} /\ UNCHANGED device

\* The device is opened, follows commands, goes idle and is closed, in that order.
Operate == /\ bus # "free"
           /\ <<device, device'>> \in {<<"off", "idle">>, <<"idle", "holding">>,
                                       <<"holding", "idle">>, <<"idle", "off">>}
           /\ UNCHANGED bus

\* A crash, or a call that was not confirmed, leaves the device in no known state.
Lose == bus # "free" /\ device' = "unknown" /\ UNCHANGED bus

\* A teardown that could not be confirmed blocks the bus, a later one may free it.
Block == bus = "owned" /\ bus' = "blocked" /\ UNCHANGED device
Release == bus # "free" /\ device = "off" /\ bus' = "free" /\ UNCHANGED device

\* The lock goes with the process that holds it, whatever the device does by then:
\* all that is promised of an orphan is that its device is still switched in order.
Abandon == bus \in {"owned", "blocked"} /\ bus' = "abandoned" /\ UNCHANGED device

Next == Acquire \/ Operate \/ Lose \/ Block \/ Release \/ Abandon

Spec == Init /\ [][Next]_<<bus, device>>
=============================================================================
