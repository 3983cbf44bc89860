----------------------------- MODULE I2RTWorker -----------------------------
(***************************************************************************)
(* One follower arm of the cell driver: the supervisor in ctrl-pi's        *)
(* process, the child process that owns the CAN device, and the queues     *)
(* between them (drivers/yam_i2rt_worker.py), under the one arm's share of *)
(* the driver that calls it (drivers/yam_cell.py).                         *)
(*                                                                         *)
(* The driver's lock admits one operation at a time, op; the supervisor's  *)
(* monitor thread and the child run beside it.  A call or a thread may     *)
(* stop between any two of its steps.  Time is counted in ticks, as ages;  *)
(* the child may lag, blocked in a call of the vendor's library.           *)
(***************************************************************************)
EXTENDS Integers, Sequences, FiniteSets, SequencesExt

CONSTANTS MaxAge,      \* command_max_age_seconds, in ticks
          StatusCap,   \* slots of the status queue
          ControlCap   \* slots of the control queue

ASSUME MaxAgeAssumption == MaxAge \in Nat \ {0}
ASSUME CapAssumption == StatusCap \in Nat \ {0} /\ ControlCap \in Nat \ {0}

VARIABLES bus,      \* the lease on the arm's bus: "free", "owned", "blocked", or
                    \* "abandoned": ctrl-pi died and its file locks with it
          latched,  \* the driver has a fault of this arm on record
          timer,    \* age of the armed idle timer, or None
          op,       \* the operation that holds the driver's lock, and its step
          parent,   \* the supervisor
          child,    \* the child process and its device
          control, mailbox, status,   \* the queues between them
          up,       \* ctrl-pi's process is alive
          quiet     \* history: an idle was confirmed and no command enabled since

queues == <<control, mailbox, status>>
driver == <<bus, latched, timer>>
vars == <<driver, op, parent, child, queues, up, quiet>>

None == -1
Ids == 1..(StatusCap + ControlCap + 1)
NoOp == [kind |-> "none"]

\* _stopped_event: what the child said of its own end.
NoWord == [idle |-> FALSE, closed |-> FALSE]

NewParent == [phase |-> "new", fault |-> FALSE, accepting |-> FALSE, ready |-> FALSE,
              reaped |-> FALSE, spawner |-> FALSE, open |-> FALSE, replied |-> FALSE,
              stopped |-> NoWord]

\* pc: where the child is in i2rt_arm_worker_main.  watch: ticks since it accepted a
\* command; target: the age of the command the device follows; ok: exit code 0.
NoChild == [pc |-> "none", accepting |-> FALSE, watch |-> None, target |-> None,
            stop |-> FALSE, idled |-> FALSE, device |-> "off", signal |-> "none",
            lag |-> FALSE, ok |-> FALSE]

Alive == child.pc \notin {"none", "exited"}
InLoop == child.pc \in {"control", "command", "watchdog"}

Init == /\ bus = "free" /\ latched = FALSE /\ timer = None /\ op = NoOp
        /\ parent = NewParent /\ child = NoChild
        /\ control = <<>> /\ mailbox = None /\ status = <<>>
        /\ up = TRUE /\ quiet = TRUE

-----------------------------------------------------------------------------
(* Queues *)

\* _put_latest: a full queue loses its oldest message.
Put(m) == status' = IF Len(status) < StatusCap THEN Append(status, m)
                    ELSE Append(Tail(status), m)

\* uuid4: an id no request on its way has, nor a reply.
FreshId == CHOOSE i \in Ids : /\ \A k \in DOMAIN control : control[k].id # i
                              /\ \A k \in DOMAIN status :
                                    status[k].type = "reply" => status[k].id # i

\* _send_control_without_wait: nobody waits for the reply; a full queue is let be.
Tell(operation) ==
    control' = IF Len(control) < ControlCap /\ parent.open
               THEN Append(control, [id |-> 0, op |-> operation]) ELSE control

\* _request_control: sends a request and goes on as next, which waits for its reply.
\* With the queue full or closed it fails in the step that follows (id 0).
Request(operation, next) ==
    IF Len(control) < ControlCap /\ parent.open
    THEN /\ control' = Append(control, [id |-> FreshId, op |-> operation])
         /\ op' = [next EXCEPT !.id = FreshId]
    ELSE op' = [next EXCEPT !.id = 0] /\ UNCHANGED control

-----------------------------------------------------------------------------
(* The supervisor *)

\* _latch_fault_locked of the supervisor.
Faulted(p) == [p EXCEPT !.fault = TRUE, !.accepting = FALSE,
                        !.phase = IF @ \in {"stopping", "stopped"} THEN @ ELSE "error"]

\* ensure_healthy, and the checks of _refresh_runtime_locked before it.
Healthy == ~parent.fault /\ parent.phase = "ready" /\ Alive

\* Data of a child that lags may be found stale; the supervisor then latches a fault.
Unhealthy(p) == /\ ~Healthy \/ child.lag
                /\ p = IF child.lag /\ ~parent.fault THEN Faulted(parent) ELSE parent

\* _handle_reply: a reply is known by its request's id, if anybody waits for it.
Answers(m) == m.type = "reply" /\ op # NoOp /\ op.id # 0 /\ m.id = op.id

\* _drain_incoming and _consume_status, one message at a time, by whichever thread
\* comes first.
Drain ==
    /\ up /\ parent.open /\ status # <<>>
    /\ LET m == Head(status)
           news == m.type = "fault" /\ ~parent.fault IN
       /\ parent' =
            CASE m.type = "ready" -> [parent EXCEPT !.ready = TRUE]
              [] Answers(m) -> [parent EXCEPT !.replied = TRUE]
              [] news -> Faulted(parent)
              [] m.type = "stopped" -> [parent EXCEPT !.stopped = m.word]
              [] OTHER -> parent
       /\ IF news THEN Tell("shutdown") ELSE UNCHANGED control
    /\ status' = Tail(status)
    /\ UNCHANGED <<driver, op, child, mailbox, up, quiet>>

\* _monitor_loop: nothing was heard for the heartbeat's or the telemetry's timeout.
MonitorStale ==
    /\ up /\ parent.open /\ ~parent.fault /\ child.lag
    /\ parent.phase = "ready" \/ (parent.ready /\ parent.phase = "starting")
    /\ parent' = Faulted(parent)
    /\ Tell("shutdown")
    /\ UNCHANGED <<driver, op, child, mailbox, status, up, quiet>>

\* _monitor_loop: the child is gone and nobody asked it to go.
MonitorExited ==
    /\ up /\ parent.open /\ child.pc = "exited" /\ ~parent.reaped
    /\ parent.phase \notin {"stopping", "stopped"}
    /\ parent' = [Faulted(parent) EXCEPT !.reaped = TRUE, !.spawner = FALSE]
    /\ UNCHANGED <<driver, op, child, queues, up, quiet>>

\* _force_stop_process: SIGTERM first, SIGKILL when that did not end the child.
Forces == child' = [child EXCEPT !.signal = IF @ = "none" THEN "term" ELSE "kill"]

\* _monitor_loop: the child outlives its fault by the shutdown timeout.
MonitorForces ==
    /\ up /\ parent.open /\ parent.fault /\ Alive /\ child.signal # "kill"
    /\ Forces
    /\ UNCHANGED <<driver, op, parent, queues, up, quiet>>

-----------------------------------------------------------------------------
(* The driver's operations on this arm.  Each holds the lock while op is set. *)

Free == up /\ op = NoOp

\* start holds the thread that the child's life is tied to.
Started == [NewParent EXCEPT !.phase = "starting", !.spawner = TRUE, !.open = TRUE]

\* connect_arms, _connect_one_locked and start: the bus is taken, then the child is
\* started by the spawner's thread.  A process that could not be started blocks the
\* bus: the shutdown that follows cannot join it.
Connect ==
    /\ Free /\ bus = "free" /\ ~latched
    /\ \/ /\ bus' = "owned"
          /\ parent' = Started
          /\ child' = [NoChild EXCEPT !.pc = "boot"]
          /\ op' = [kind |-> "start", id |-> 0]
          /\ UNCHANGED latched
       \/ /\ bus' = "blocked" /\ latched' = TRUE
          /\ parent' = [NewParent EXCEPT !.phase = "error", !.fault = TRUE]
          /\ UNCHANGED <<child, op>>
    /\ control' = <<>> /\ mailbox' = None /\ status' = <<>>
    /\ UNCHANGED <<timer, up, quiet>>

StartDone ==
    /\ op.kind = "start" /\ parent.ready /\ ~parent.fault
    /\ parent' = [parent EXCEPT !.phase = "ready"]
    /\ op' = NoOp
    /\ UNCHANGED <<driver, child, queues, up, quiet>>

\* _failed_start_cleanup, then the shutdown the driver calls: no reply is waited for.
StartFails ==
    /\ op.kind = "start"
    /\ parent' = [parent EXCEPT !.fault = TRUE, !.phase = "error", !.accepting = FALSE]
    /\ Tell("shutdown")
    /\ op' = [kind |-> "join", id |-> 0, idled |-> FALSE, forced |-> FALSE,
              failed |-> TRUE, keep |-> FALSE]
    /\ UNCHANGED <<driver, child, mailbox, status, up, quiet>>

\* safe_idle of the supervisor p; what its failure leads to is fail.
StartIdle(p, fail) ==
    /\ parent' = [p EXCEPT !.accepting = FALSE, !.replied = FALSE]
    /\ mailbox' = IF p.open THEN None ELSE mailbox
    /\ Request("safe_idle", [kind |-> "idle", id |-> 0, fail |-> fail])

\* _latch_fault_locked of the driver: the fault, and one attempt to idle the arm.
Latch(p) == /\ latched' = TRUE /\ timer' = None
            /\ StartIdle(p, "ignore")
            /\ UNCHANGED <<bus, child, status, up, quiet>>

LatchIfUnhealthy == \E p \in {parent, Faulted(parent)} : Unhealthy(p) /\ Latch(p)

\* enable_commands, up to its request.
Enable == /\ parent' = [parent EXCEPT !.replied = FALSE]
          /\ Request("resume_commands", [kind |-> "enable", id |-> 0])
          /\ quiet' = FALSE
          /\ UNCHANGED <<driver, child, mailbox, status, up>>

\* apply_action, up to its first message: only a worker that does not accept commands
\* yet is asked to.  A worker found unhealthy latches the arm.
Apply ==
    /\ Free /\ bus = "owned" /\ ~latched
    /\ \/ /\ Healthy /\ parent.accepting
          /\ op' = [kind |-> "send", id |-> 0]
          /\ UNCHANGED <<driver, parent, child, queues, up, quiet>>
       \/ Healthy /\ ~parent.accepting /\ Enable
       \/ LatchIfUnhealthy

\* enable_commands after its reply: the flag is set whatever the monitor found since.
EnableDone ==
    /\ op.kind = "enable" /\ parent.replied
    /\ parent' = [parent EXCEPT !.accepting = TRUE]
    /\ op' = [kind |-> "send", id |-> 0]
    /\ UNCHANGED <<driver, child, queues, up, quiet>>

EnableFails == op.kind = "enable" /\ ~parent.replied /\ Latch(parent)

\* send_command: first the checks, then the write of the mailbox, which replaces what
\* is there; the driver arms the timer and looks at the worker again.
SendChecks ==
    /\ op.kind = "send"
    /\ \/ /\ Healthy /\ parent.accepting
          /\ op' = [kind |-> "put", id |-> 0]
          /\ UNCHANGED <<driver, parent, child, queues, up, quiet>>
       \/ LatchIfUnhealthy
       \/ Healthy /\ ~parent.accepting /\ Latch(parent)

SendPuts ==
    /\ op.kind = "put"
    /\ mailbox' = 0 /\ timer' = 0
    /\ op' = [kind |-> "check", id |-> 0]
    /\ UNCHANGED <<bus, latched, parent, child, control, status, up, quiet>>

SendEnds ==
    /\ op.kind = "check"
    /\ \/ Healthy /\ op' = NoOp /\ UNCHANGED <<driver, parent, child, queues, up, quiet>>
       \/ LatchIfUnhealthy

\* safe_idle of the driver.  A failure latches an arm that is not latched yet.
SafeIdle ==
    /\ Free /\ bus = "owned"
    /\ timer' = None
    /\ StartIdle(parent, IF latched THEN "ignore" ELSE "latch")
    /\ UNCHANGED <<bus, latched, child, status, up, quiet>>

\* idle_if_current: half the age limit after the last command.  A cancelled or
\* replaced timer does nothing, which is what its generation is compared for.
TimerFires == timer # None /\ 2 * timer >= MaxAge /\ SafeIdle

\* latch_fault of the driver: another component gives the arm up.
LatchFault ==
    /\ Free /\ bus = "owned"
    /\ latched' = TRUE /\ timer' = None
    /\ StartIdle(parent, IF latched THEN "stop" ELSE "again")
    /\ UNCHANGED <<bus, child, status, up, quiet>>

\* shutdown of the supervisor, up to its first request.  keep: the fault stays on record.
StartStop(keep) ==
    /\ parent' = [parent EXCEPT !.phase = "stopping", !.accepting = FALSE,
                                !.replied = FALSE]
    /\ mailbox' = IF parent.open THEN None ELSE mailbox
    /\ timer' = None
    /\ Request("safe_idle", [kind |-> "stopIdle", id |-> 0, keep |-> keep])
    /\ UNCHANGED <<bus, latched, child, status, up, quiet>>

\* latch_fault latched the arm and idled it once by then; it idles it again.
IdleAgain == /\ StartIdle(parent, "stop")
             /\ UNCHANGED <<driver, child, status, up, quiet>>

\* Mutant: safe_idle returns when its request is sent.
IdleSent ==
    /\ op.kind = "idle" /\ op.id # 0
    /\ op' = NoOp /\ quiet' = TRUE
    /\ UNCHANGED <<driver, parent, child, queues, up>>

IdleDone ==
    /\ op.kind = "idle" /\ parent.replied
    /\ \/ op.fail = "again" /\ IdleAgain
       \/ /\ op.fail # "again"
          /\ op' = NoOp /\ quiet' = TRUE
          /\ UNCHANGED <<driver, parent, child, queues, up>>

IdleFails ==
    /\ op.kind = "idle" /\ ~parent.replied
    /\ \/ op.fail = "latch" /\ Latch(parent)
       \/ op.fail = "again" /\ IdleAgain
       \/ op.fail = "stop" /\ StartStop(TRUE)
       \/ /\ op.fail = "ignore" /\ op' = NoOp
          /\ UNCHANGED <<driver, parent, child, queues, up, quiet>>

\* disconnect_arms.  A process that was never started cannot be joined: it raises.
Disconnect == Free /\ bus # "free" /\ child.pc # "none" /\ StartStop(FALSE)

\* shutdown goes on to its second request, with or without the first one's reply.
StopIdled ==
    /\ op.kind = "stopIdle"
    /\ parent' = [parent EXCEPT !.replied = FALSE]
    /\ Request("shutdown", [kind |-> "stopAsk", id |-> 0, idled |-> parent.replied,
                            keep |-> op.keep])
    /\ UNCHANGED <<driver, child, mailbox, status, up, quiet>>

StopAsked ==
    /\ op.kind = "stopAsk"
    /\ op' = [kind |-> "join", id |-> 0, idled |-> op.idled, forced |-> FALSE,
              failed |-> FALSE, keep |-> op.keep]
    /\ UNCHANGED <<driver, parent, child, queues, up, quiet>>

\* The join times out: _force_stop_process, which waits for each of its two signals.
\* The force of a failed start is not one of the shutdown after it.
JoinForces ==
    /\ op.kind = "join" /\ Alive /\ child.signal # "kill"
    /\ Forces
    /\ op' = [op EXCEPT !.forced = ~op.failed]
    /\ UNCHANGED <<driver, parent, queues, up, quiet>>

\* The last messages are drained.
LastWord == LET words == {k \in DOMAIN status : status[k].type = "stopped"} IN
            IF parent.open /\ words # {} THEN status[CHOOSE k \in words : TRUE].word
            ELSE parent.stopped

\* Mutant: an idle and an exit code of 0 are evidence enough.
CleanUnclosed == /\ ~op.forced /\ ~Alive /\ child.ok
                 /\ op.idled \/ LastWord.idle

\* The evidence for a clean end: idle, closed, exited with 0 and never forced.
Clean == /\ ~op.forced /\ ~Alive /\ child.ok
         /\ op.idled \/ LastWord.idle
         /\ LastWord.closed

\* shutdown ends, and _disconnect_one_locked, latch_fault or _connect_one_locked after
\* it: on a clean end the bus is released and the worker dropped.
StopEnds ==
    /\ op.kind = "join" /\ (~Alive \/ child.signal = "kill")
    /\ IF Clean
       THEN /\ bus' = "free" /\ parent' = NewParent /\ child' = NoChild
            /\ latched' = (latched /\ op.keep)
       ELSE /\ bus' = "blocked" /\ latched' = TRUE
            /\ parent' = [parent EXCEPT !.phase = "error", !.fault = TRUE, !.open = FALSE,
                                        !.reaped = ~Alive, !.spawner = Alive,
                                        !.stopped = LastWord]
            /\ UNCHANGED child
    /\ control' = <<>> /\ mailbox' = None /\ status' = <<>>
    /\ op' = NoOp
    /\ UNCHANGED <<timer, up, quiet>>

\* disconnect_arms of an arm without a worker: only the record of its fault goes.
ForgetFault == /\ Free /\ bus = "free" /\ latched
               /\ latched' = FALSE
               /\ UNCHANGED <<bus, timer, op, parent, child, queues, up, quiet>>

-----------------------------------------------------------------------------
(* The child: i2rt_arm_worker_main *)

Running(at) == child.pc = at /\ ~child.lag /\ child.signal # "kill"
ChildOnly == UNCHANGED <<driver, op, parent, up, quiet>>

\* The top of the loop is where a signal is noticed.
Top(c) == [c EXCEPT !.pc = IF c.signal = "none" THEN "control" ELSE "final"]

\* An exception in the loop ends in the handler that reports it.
Raise(c) == child' = [c EXCEPT !.pc = "final"] /\ Put([type |-> "fault"])

\* The checkout is verified, the device opened in gravity compensation and sampled.
Boot ==
    /\ Running("boot") /\ ChildOnly
    /\ \/ /\ child.signal = "none"
          /\ child' = Top([child EXCEPT !.device = "idle"])
          /\ Put([type |-> "ready"])
       \/ Raise(child)
       \/ child.signal = "none" /\ Raise([child EXCEPT !.device = "idle"])
    /\ UNCHANGED <<control, mailbox>>

\* _safe_idle, with the flags and the mailbox cleared before it.
Idled(c) == [c EXCEPT !.accepting = FALSE, !.watch = None, !.target = None,
                      !.idled = TRUE, !.device = "idle"]

\* One request of the control queue.  Idling may raise.
HandleControl ==
    /\ Running("control") /\ control # <<>> /\ ChildOnly
    /\ control' = Tail(control)
    /\ LET r == Head(control) IN
       /\ mailbox' = IF r.op = "resume_commands" THEN mailbox ELSE None
       /\ \/ /\ child' = IF r.op = "resume_commands"
                          THEN [child EXCEPT !.accepting = TRUE, !.watch = None]
                          ELSE [Idled(child) EXCEPT !.stop = @ \/ r.op = "shutdown"]
             /\ Put([type |-> "reply", id |-> r.id])
          \/ /\ r.op # "resume_commands"
             /\ Raise([child EXCEPT !.accepting = FALSE, !.watch = None])

ControlDrained ==
    /\ Running("control") /\ control = <<>> /\ ChildOnly
    /\ child' = [child EXCEPT !.pc = IF child.stop THEN "final" ELSE "command"]
    /\ UNCHANGED queues

\* Mutant: the deadline of a command is not compared with the clock.
FreshForever == TRUE

\* _validate_command: what is older than its deadline is stale.
Fresh == mailbox <= MaxAge

\* The latest command, if there is one: followed, or dropped with a notice.
TakeCommand ==
    /\ Running("command") /\ ChildOnly
    /\ \/ /\ mailbox = None
          /\ child' = [child EXCEPT !.pc = "watchdog"]
          /\ UNCHANGED status
       \/ /\ mailbox # None /\ Fresh /\ child.accepting
          /\ LET c == [child EXCEPT !.device = "holding", !.target = mailbox,
                                    !.watch = 0, !.pc = "watchdog"] IN
             (child' = c /\ UNCHANGED status) \/ Raise(c)
       \/ /\ mailbox # None /\ ~(Fresh /\ child.accepting)
          /\ child' = [child EXCEPT !.pc = "watchdog"]
          /\ Put([type |-> "dropped"])
    /\ mailbox' = None
    /\ UNCHANGED control

\* The age limit since the last accepted command is over.
Due == child.accepting /\ child.watch > MaxAge

\* Mutant: the watchdog takes no more commands, and leaves the device as it is.
WatchdogForgets ==
    /\ Running("watchdog") /\ Due /\ ChildOnly
    /\ child' = Top([child EXCEPT !.accepting = FALSE, !.watch = None])
    /\ UNCHANGED queues

\* The stream was given up: idle, and a fault that ends the worker.
WatchdogFires ==
    /\ Running("watchdog") /\ Due /\ ChildOnly
    /\ Raise(Idled(child)) \/ Raise([child EXCEPT !.accepting = FALSE, !.watch = None])
    /\ mailbox' = None
    /\ UNCHANGED control

\* Telemetry and heartbeat are due or not; reading the device may raise.
EndIteration ==
    /\ Running("watchdog") /\ ~Due /\ ChildOnly
    /\ (child' = Top(child) /\ UNCHANGED status) \/ Raise(child)
    /\ UNCHANGED <<control, mailbox>>

\* The finally clause: idle, which may raise, and then close.  A device that was idle
\* already stays so when it is idled again in vain.
FinalIdle ==
    /\ Running("final") /\ ChildOnly
    /\ \/ child' = IF child.device = "off" THEN [child EXCEPT !.pc = "close"]
                   ELSE [Idled(child) EXCEPT !.pc = "close"]
       \/ /\ child.device # "off"
          /\ child' = [child EXCEPT !.pc = "close", !.idled = FALSE,
                                    !.device = IF @ = "holding" THEN "unknown" ELSE @]
    /\ UNCHANGED queues

FinalClose ==
    /\ Running("close") /\ ChildOnly
    /\ \E closed \in {child.device # "off", FALSE} :
          /\ child' = [child EXCEPT !.pc = "exited", !.ok = TRUE,
                          !.device = IF @ = "off" \/ (closed /\ @ = "idle")
                                     THEN "off" ELSE "unknown"]
          /\ Put([type |-> "stopped", word |-> [idle |-> child.idled, closed |-> closed]])
    /\ UNCHANGED <<control, mailbox>>

\* The process is gone without a word: killed, or crashed in the vendor's code.
Dies == /\ child' = [child EXCEPT !.pc = "exited", !.lag = FALSE,
                        !.device = IF @ = "off" THEN @ ELSE "unknown"]
        /\ ChildOnly /\ UNCHANGED queues
Killed == Alive /\ child.signal = "kill" /\ Dies
Crashes == Alive /\ child.signal # "kill" /\ Dies

\* A call of the vendor's library blocks for longer than the timeouts, and returns.
Lags == /\ Alive /\ ~child.lag
        /\ child' = [child EXCEPT !.lag = TRUE]
        /\ ChildOnly /\ UNCHANGED queues
CatchesUp == /\ child.lag
             /\ child' = [child EXCEPT !.lag = FALSE]
             /\ ChildOnly /\ UNCHANGED queues

\* ctrl-pi's process dies.  The kernel signals the child (PR_SET_PDEATHSIG) and frees
\* the locks of the bus, which the child, spawned, does not share: whoever takes them
\* finds the orphan's device on until the orphan has ended.
ParentDies ==
    /\ up /\ up' = FALSE
    /\ op' = NoOp
    /\ bus' = IF bus = "free" THEN "free" ELSE "abandoned"
    /\ child' = [child EXCEPT !.signal = IF Alive /\ @ = "none" THEN "term" ELSE @]
    /\ UNCHANGED <<latched, timer, parent, queues, quiet>>

Older(age, limit) == IF age = None \/ age = limit THEN age ELSE age + 1

\* Time passes.  Ages beyond the limit they are compared with are not told apart.
Tick ==
    /\ mailbox' = Older(mailbox, MaxAge + 1)
    /\ timer' = Older(timer, MaxAge)
    /\ child' = [child EXCEPT !.watch = Older(@, MaxAge + 1),
                              !.target = Older(@, 2 * MaxAge + 1)]
    /\ <<mailbox, timer, child>>' # <<mailbox, timer, child>>
    /\ UNCHANGED <<bus, latched, op, parent, control, status, up, quiet>>

-----------------------------------------------------------------------------
Monitor == MonitorStale \/ MonitorExited \/ MonitorForces

Call == \/ StartDone \/ StartFails \/ EnableDone \/ EnableFails \/ SendChecks
        \/ SendPuts \/ SendEnds \/ IdleDone \/ IdleFails \/ StopIdled \/ StopAsked
        \/ JoinForces \/ StopEnds

Work == \/ Boot \/ HandleControl \/ ControlDrained \/ TakeCommand \/ WatchdogFires
        \/ EndIteration \/ FinalIdle \/ FinalClose

Next == \/ Drain \/ Monitor \/ (up /\ Call) \/ Work
        \/ Connect \/ Apply \/ SafeIdle \/ TimerFires \/ LatchFault \/ Disconnect
        \/ ForgetFault
        \/ Killed \/ Crashes \/ Lags \/ CatchesUp \/ ParentDies \/ Tick

\* The threads run, time passes, a signal is delivered, and the calls of the vendor's
\* library return; between two that block the child makes a step.  Nobody has to call
\* the driver.
Fairness == /\ WF_vars(Drain) /\ WF_vars(Monitor) /\ WF_vars(up /\ Call)
            /\ SF_vars(Work) /\ WF_vars(Killed) /\ WF_vars(Tick) /\ WF_vars(CatchesUp)

Spec == Init /\ [][Next]_vars /\ Fairness
-----------------------------------------------------------------------------
(* Properties *)

\* The shape of the state.
TypeOK ==
    /\ bus \in {"free", "owned", "blocked", "abandoned"} /\ latched \in BOOLEAN
    /\ timer \in {None} \cup (0..MaxAge)
    /\ child.device \in {"off", "idle", "holding", "unknown"}
    /\ child.watch \in {None} \cup (0..MaxAge + 1)
    /\ child.target \in {None} \cup (0..2 * MaxAge + 1)
    /\ Len(control) <= ControlCap /\ Len(status) <= StatusCap

ArmBusSpec == INSTANCE ArmBus WITH device <- child.device

\* While ctrl-pi lives it gives the bus back only with the device off, and a device in
\* no known state keeps its bus, whatever is lost, late or killed on the way (shutdown's
\* evidence).  When ctrl-pi dies the bus is abandoned with the device as it is.
ImplementsArmBus == ArmBusSpec!Spec

\* Once safe_idle has returned, the device follows nothing until commands are enabled
\* again: no command sent before it is still on its way (safe_idle on both sides).
IdleHolds == quiet /\ up => child.device # "holding"

\* A device that follows a command is watched, and what it follows is never older than
\* the limit plus the time since it was accepted (the freshness check and watchdog).
HoldIsWatched ==
    child.device = "holding" /\ InLoop =>
        /\ child.accepting /\ child.watch # None
        /\ child.target <= MaxAge + child.watch

\* A device is not held for ever: not when the stream stops, nor after a fault of the
\* supervisor, nor when ctrl-pi dies (watchdog, monitor, parent-death signal).
GivenUpEnds ==
    (child.device = "holding" /\ (Due \/ parent.fault \/ ~up))
        ~> \/ child.device # "holding"
           \/ child.watch = 0 /\ up /\ ~parent.fault
=============================================================================
