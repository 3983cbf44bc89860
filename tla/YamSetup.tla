------------------------------ MODULE YamSetup ------------------------------
(***************************************************************************)
(* The setup of the rig (yam_setup.py): the configuration on record, the   *)
(* one the driver has, and who connects its arms: a request, or ctrl-pi on *)
(* its own at boot and when missing hardware appears.                      *)
(*                                                                         *)
(* The operation lock admits one operation at a time, so each is one step; *)
(* what may fail in it is a choice of outcomes, and the roll-back that     *)
(* follows is part of it.  Not so where the monitor connects on its own:   *)
(* its handlers of exceptions run once lock and lease are given back, so   *)
(* that a request may come between (HandlerShuts, HandlerSays; not between *)
(* two calls of a request, where they come too).  A request for a          *)
(* connection reads the record when it arrives and keeps what it read      *)
(* while it waits for the lock.                                            *)
(***************************************************************************)
EXTENDS Naturals, FiniteSets

CONSTANTS LegacyConfigs, CellConfigs,   \* what can be configured
          ArmsOf,                       \* the arms of each
          Env                           \* what the environment configures, or None

CONSTANTS NoSetup, Corrupt              \* no configuration, and one that cannot be read

Setups == LegacyConfigs \cup CellConfigs
ASSUME ConfigsAssumption ==
    /\ LegacyConfigs \cap CellConfigs = {}
    /\ {NoSetup, Corrupt} \cap Setups = {} /\ NoSetup # Corrupt
    /\ Env \in LegacyConfigs \cup {NoSetup}
    /\ \A c \in Setups : IsFiniteSet(ArmsOf[c])

VARIABLES store,    \* the rows of a legacy setup and of a cell, each with its consent
          rig,      \* the driver's configuration and its arms
          manager,  \* _setup_error, _active_attempt_failed, _restore_storage_pending
          monitor,  \* "off", "running", in a handler, or "dead" after an exception there
          request,  \* what a waiting connect request has read, or None
          did,      \* history: whose step the last one was, and whether it succeeded
          tried     \* history: an attempt failed and no request has succeeded since

setupVars == <<store, rig, manager, monitor, request, did, tried>>

\* live: arms whose worker runs; stuck: arms with a fault or a bus that is blocked;
\* passive: what the driver found of its configuration without opening anything.
Driver(config, passive) ==
    [config |-> config, live |-> {}, stuck |-> {}, passive |-> passive]

NoRow == [config |-> NoSetup, auto |-> FALSE]
Fresh == [error |-> FALSE, failed |-> FALSE, pending |-> FALSE]
Passive == {"configured", "missing", "error"}

SetupInit ==
    /\ store \in [cell : {NoRow, [config |-> Corrupt, auto |-> TRUE]}, legacy : {NoRow}]
    /\ rig = Driver(NoSetup, "missing")
    /\ manager = Fresh /\ monitor = "off" /\ request = NoSetup
    /\ did = [by |-> "none", ok |-> TRUE] /\ tried = FALSE

\* _saved_configuration: a cell's row wins, even one that cannot be read.
Saved == IF store.cell # NoRow THEN store.cell ELSE store.legacy
SavedConfig == IF Saved.config = Corrupt THEN NoSetup ELSE Saved.config

-----------------------------------------------------------------------------
(* The driver, as sets of outcomes (module YamCell; the legacy pair's driver does the *)
(* same for its two arms at once)                                                     *)

IsCell(c) == c \in CellConfigs
Arms(d) == IF d.config = NoSetup THEN {} ELSE ArmsOf[d.config]
Ok(d) == [ok |-> TRUE, driver |-> d]
Raises(d) == [ok |-> FALSE, driver |-> d]

\* diagnostic
Status(d) == CASE d.config = NoSetup -> "missing"
               [] d.config # NoSetup /\ d.stuck # {} -> "error"
               [] d.stuck = {} /\ d.live # {} /\ d.live = Arms(d) -> "connected"
               [] d.stuck = {} /\ d.live = {} /\ d.config # NoSetup -> d.passive
               [] OTHER -> "configured"

IsConnected(d) == Status(d) = "connected"

\* disconnect_arms: what could not be stopped for certain keeps its bus.
Disconnect(d, S) ==
    {LET e == [d EXCEPT !.live = @ \ S, !.stuck = (@ \ S) \cup T] IN
     IF T = {} THEN Ok(e) ELSE Raises(e) : T \in SUBSET (S \cap (d.live \cup d.stuck))}

\* shutdown; the legacy driver does not raise.
Shutdown(d) == IF IsCell(d.config) THEN Disconnect(d, Arms(d))
               ELSE {Ok(o.driver) : o \in Disconnect(d, Arms(d))}

\* apply_setup: a cell with arms connected refuses; the host is inspected, which may
\* raise, before a cell is taken over.
Apply(d, c) ==
    IF IsCell(d.config) /\ d.live \cup d.stuck # {} THEN {Raises(d)}
    ELSE IF d.config = c /\ IsCell(c) THEN {Ok(d)}
    ELSE UNION {IF o.driver.stuck # {} /\ ~IsCell(c) THEN {Raises(o.driver)}
                ELSE {Raises(o.driver) : x \in IF IsCell(c) THEN {1} ELSE {}}
                       \cup {Ok(Driver(c, p)) : p \in Passive} : o \in Shutdown(d)}

ResetDriver(d) ==
    {IF o.ok THEN Ok(Driver(Env, "configured")) ELSE o : o \in Disconnect(d, Arms(d))}

\* connect_arms: all of them, or none but for those that cannot be stopped again.
Connect(d, S) ==
    IF S = {} \/ S \cap d.stuck # {} THEN {Raises(d)}
    ELSE {Ok([d EXCEPT !.live = @ \cup S])}
            \cup {Raises([d EXCEPT !.stuck = @ \cup T]) : T \in SUBSET (S \ d.live)}

\* startup: of a cell it raises, of a legacy pair it reports.
Startup(d) ==
    IF d.config = NoSetup THEN {Ok(d)}
    ELSE IF IsCell(d.config) THEN Connect(d, Arms(d))
    ELSE IF d.stuck # {} \/ d.live # {} THEN {Ok(d)}
    ELSE {Ok([d EXCEPT !.live = Arms(d)])}
            \cup {Ok([d EXCEPT !.passive = p]) : p \in {"missing", "error"}}

-----------------------------------------------------------------------------
(* Roll-back *)

\* What an operation gives up with stops everything, and says so unless that raises too.
GiveUp(d) == {[driver |-> o.driver, error |-> o.ok] : o \in Shutdown(d)}

\* Mutant: the roll-back forgets to put the old configuration back.
BackToNothing(d, old) == ResetDriver(d)

\* The driver is given its old configuration again.
BackTo(d, old) == IF old = NoSetup THEN ResetDriver(d) ELSE Apply(d, old)

\* _rollback_driver, of a legacy setup: what was connected is connected again.
Rollback(d, old, connected) ==
    UNION {IF o.ok /\ connected
           THEN UNION {IF s.ok THEN {[driver |-> s.driver, error |-> FALSE]}
                               ELSE GiveUp(s.driver) : s \in Startup(o.driver)}
           ELSE IF o.ok THEN {[driver |-> o.driver, error |-> FALSE]}
           ELSE GiveUp(o.driver) : o \in BackTo(d, old)}

\* _rollback_driver_resources: nothing stays connected.
RollbackResources(d, old) ==
    UNION {IF o.ok
           THEN UNION {IF b.ok THEN {[driver |-> b.driver, error |-> FALSE]}
                               ELSE GiveUp(b.driver) : b \in BackTo(o.driver, old)}
           ELSE GiveUp(o.driver)
           : o \in IF d.live = {} THEN {Ok(d)} ELSE Disconnect(d, d.live)}

-----------------------------------------------------------------------------
(* Requests *)

Up == monitor # "off"
User(ok) == did' = [by |-> "user", ok |-> ok]
Succeeds == User(TRUE) /\ manager' = Fresh /\ tried' = FALSE
RolledBack(outcomes) ==
    /\ \E r \in outcomes : /\ rig' = r.driver
                           /\ manager' = [manager EXCEPT !.error = @ \/ r.error]
    /\ User(FALSE)
    /\ UNCHANGED <<store, tried>>

\* save of the configuration on record without consent: only the record changes.
Revoke ==
    /\ Up
    /\ \E row \in {"cell", "legacy"} :
          /\ store[row].config \in Setups
          /\ row = "cell" => Saved = store.cell
          /\ store' = [store EXCEPT ![row].auto = FALSE]
    /\ manager' = [manager EXCEPT !.error = FALSE, !.pending = FALSE]
    /\ User(TRUE)
    /\ UNCHANGED <<rig, monitor, request, tried>>

\* save of a legacy setup: the driver first, then the record.
SaveLegacy(c, auto) ==
    /\ Up /\ <<store.legacy.config, auto>> # <<c, FALSE>>
    /\ LET old == rig.config
           connected == IsConnected(rig)
           row == [store EXCEPT !.legacy = [config |-> c, auto |-> auto]] IN
       \/ /\ connected /\ old = c   \* nothing for the driver to do
          /\ store' = row /\ Succeeds /\ UNCHANGED rig
       \/ /\ ~(connected /\ old = c)
          /\ \E o \in Apply(rig, c) :
                \/ /\ o.ok /\ Status(o.driver) = "configured"
                   /\ rig' = o.driver /\ store' = row /\ Succeeds
                \/ RolledBack(Rollback(o.driver, old, connected))
    /\ UNCHANGED <<monitor, request>>

\* _save_cell: nothing may be connected; the legacy row goes.
SaveCell(c, auto) ==
    /\ Up /\ <<store.cell.config, auto>> # <<c, FALSE>> /\ rig.live = {}
    /\ auto => ArmsOf[c] # {}
    /\ \E o \in Apply(rig, c) :
          \/ /\ o.ok /\ Status(o.driver) \in {"configured", "connected"}
             /\ rig' = o.driver
             /\ store' = [cell |-> [config |-> c, auto |-> auto], legacy |-> NoRow]
             /\ Succeeds
          \/ RolledBack(RollbackResources(o.driver, rig.config))
    /\ UNCHANGED <<monitor, request>>

\* connect reads the record and then waits for the operation lock.
ConnectArrives ==
    /\ Up /\ request = NoSetup /\ SavedConfig # NoSetup
    /\ request' = SavedConfig
    /\ did' = [by |-> "none", ok |-> TRUE]
    /\ UNCHANGED <<store, rig, manager, monitor, tried>>

\* An attempt that failed is not made again on its own.
Attempted(d, error) ==
    /\ rig' = d
    /\ manager' = [manager EXCEPT !.failed = TRUE, !.error = error]
    /\ tried' = TRUE /\ User(FALSE)

Connected(d) ==
    /\ rig' = d
    /\ manager' = [manager EXCEPT !.failed = FALSE, !.error = FALSE, !.pending = FALSE]
    /\ tried' = FALSE /\ User(TRUE)

\* What comes before an attempt raises, or finds the configuration not ready.
Rejected(d) == /\ rig' = d /\ User(FALSE)
               /\ UNCHANGED <<manager, tried>>

\* The driver has or is given the request's configuration.
Prepared(c) == IF rig.config = c /\ IsCell(c) THEN {Ok(rig)} ELSE Apply(rig, c)

\* _connect_cell.  Its look at the record is answered from the session, with what was
\* read on arrival; a row that is gone fails the commit, and the arms are disconnected.
ConnectCell(S) ==
    /\ Up /\ IsCell(request) /\ S \subseteq ArmsOf[request] /\ S # {}
    /\ \/ /\ S \subseteq rig.live
          /\ manager' = [manager EXCEPT !.error = FALSE]
          /\ User(TRUE) /\ UNCHANGED <<rig, tried>>
       \/ /\ ~(S \subseteq rig.live)
          /\ \E o \in Prepared(request) :
               \/ Rejected(o.driver)
               \/ /\ o.ok
                  /\ rig.config = request \/ Status(o.driver) \in {"configured", "connected"}
                  /\ LET new == S \ rig.live IN
                     \E k \in Connect(o.driver, new) :
                       \/ k.ok /\ store.cell # NoRow /\ Connected(k.driver)
                       \/ \E u \in IF k.driver.live \cap new = {} THEN {Ok(k.driver)}
                                   ELSE Disconnect(k.driver, k.driver.live \cap new) :
                             Attempted(u.driver, u.ok)
    /\ request' = NoSetup
    /\ UNCHANGED <<store, monitor>>

\* connect of a legacy setup.
ConnectLegacy ==
    /\ Up /\ request \in LegacyConfigs
    /\ \/ /\ rig.config = request /\ IsConnected(rig)
          /\ Connected(rig)
       \/ /\ ~(rig.config = request /\ IsConnected(rig))
          /\ \E o \in Prepared(request) :
               \/ Rejected(o.driver)
               \/ /\ o.ok /\ Status(o.driver) = "configured"
                  /\ \E s \in Startup(o.driver) :
                       \/ /\ IsConnected(s.driver) /\ store.legacy # NoRow
                          /\ Connected(s.driver)
                       \/ \E u \in Shutdown(s.driver) : Attempted(u.driver, TRUE)
    /\ request' = NoSetup
    /\ UNCHANGED <<store, monitor>>

Disconnects(S) ==
    /\ Up /\ S # {} /\ S \subseteq Arms(rig)
    /\ IsCell(rig.config) \/ S = Arms(rig)
    /\ \E o \in Disconnect(rig, S) :
          /\ rig' = o.driver
          /\ User(o.ok)
          /\ IF o.ok THEN /\ manager' = [manager EXCEPT !.error = FALSE, !.failed = FALSE]
                          /\ tried' = FALSE
                     ELSE UNCHANGED <<manager, tried>>
    /\ UNCHANGED <<store, monitor, request>>

\* reset: both rows go when the driver's setup is gone.
Reset ==
    /\ Up
    /\ \E o \in ResetDriver(rig) :
          \/ /\ o.ok /\ rig' = o.driver
             /\ store' = [cell |-> NoRow, legacy |-> NoRow] /\ Succeeds
          \/ RolledBack(RollbackResources(o.driver, SavedConfig))
    /\ UNCHANGED <<monitor, request>>

-----------------------------------------------------------------------------
(* ctrl-pi on its own *)

Automatic(d, m) == /\ rig' = d /\ manager' = m
              /\ did' = [by |-> "auto", ok |-> TRUE]

\* Mutant: consent is not asked for.
RestoresUnasked(d) ==
    \E s \in Startup(d) :
       \/ /\ IsConnected(s.driver) /\ Automatic(s.driver, Fresh)
          /\ monitor' = "running" /\ UNCHANGED tried
       \/ \E u \in Shutdown(s.driver) :
             /\ Automatic(u.driver, [Fresh EXCEPT !.failed = TRUE, !.error = TRUE])
             /\ tried' = TRUE /\ monitor' = IF u.ok THEN "running" ELSE "off"

\* At boot the saved configuration is connected if it was consented to and its
\* prerequisites are met.  A commit that fails afterwards shuts the driver down again.  An
\* exception of that shutdown ends the start of ctrl-pi.
Restores(d) ==
    \/ /\ Automatic(d, Fresh)    \* no consent, or not ready
       /\ monitor' = "running" /\ UNCHANGED tried
    \/ /\ Saved.auto
       /\ \E s \in Startup(d) :
            \/ /\ s.ok /\ IsConnected(s.driver) /\ Automatic(s.driver, Fresh)
               /\ monitor' = "running" /\ UNCHANGED tried
            \/ \E u \in Shutdown(s.driver), pending \in {FALSE, s.ok} :
                  /\ Automatic(u.driver, [error |-> u.ok, failed |-> TRUE, pending |-> pending])
                  /\ monitor' = IF u.ok THEN "running" ELSE "off"
                  /\ tried' = (monitor' # "off")

\* _restore_boot_sync: a new process, with what the environment configures.  The
\* database may not answer, and the configuration may not apply.
Boot ==
    /\ ~Up
    /\ \E d \in {Driver(Env, p) : p \in Passive} :
         \/ /\ \/ Automatic(d, [Fresh EXCEPT !.pending = TRUE, !.error = TRUE])
               \/ Saved = NoRow /\ Automatic(d, Fresh)
               \/ Saved.config = Corrupt /\ Automatic(d, [Fresh EXCEPT !.error = TRUE])
            /\ monitor' = "running" /\ UNCHANGED tried
         \/ /\ SavedConfig # NoSetup
            /\ \E o \in Apply(d, SavedConfig) :
                 \/ o.ok /\ Restores(o.driver)
                 \/ /\ ~o.ok /\ Automatic(o.driver, [Fresh EXCEPT !.error = TRUE])
                    /\ monitor' = "running" /\ UNCHANGED tried
    /\ UNCHANGED <<store, request>>

\* What a pass of the monitor came to before it gave the lock back: an end, or an
\* exception of the kind its handler tells apart.
Passes(d, m, end) == Automatic(d, m) /\ monitor' = end

\* The attempt of a pass, which counts as failed until its commit is through.
Attempts(d, m, raised) ==
    \E s \in Startup(d) :
       \/ ~s.ok /\ Passes(s.driver, [m EXCEPT !.failed = TRUE], raised) /\ tried' = TRUE
       \/ /\ s.ok /\ IsConnected(s.driver)
          /\ \/ Passes(s.driver, m, "running") /\ UNCHANGED tried
             \/ Passes(s.driver, [m EXCEPT !.failed = TRUE], "unsaved") /\ tried' = TRUE
       \/ /\ s.ok /\ ~IsConnected(s.driver)
          /\ \E u \in Shutdown(s.driver) :
                \E end \in IF u.ok THEN {"running", "unsaved"} ELSE {raised} :
                   Passes(u.driver, [m EXCEPT !.failed = TRUE, !.error = @ \/ u.ok], end)
          /\ tried' = TRUE

\* _restore_storage_once: perhaps the record can be read again.
RestoreStorage ==
    /\ monitor = "running" /\ manager.pending /\ ~manager.failed
    /\ \/ Passes(rig, manager, "unsaved") /\ UNCHANGED tried
       \/ /\ SavedConfig = NoSetup
          /\ Passes(rig, [manager EXCEPT !.pending = FALSE, !.error = Saved # NoRow], "running")
          /\ UNCHANGED tried
       \/ /\ SavedConfig # NoSetup
          /\ \E o \in Apply(rig, SavedConfig) :
               \/ ~o.ok /\ Passes(o.driver, manager, "unapplied") /\ UNCHANGED tried
               \/ /\ o.ok     \* no consent, not ready, or the preflight raises
                  /\ Passes(o.driver, Fresh, "running") \/ Passes(o.driver, Fresh, "unapplied")
                  /\ UNCHANGED tried
               \/ o.ok /\ Saved.auto /\ Attempts(o.driver, Fresh, "unapplied")
    /\ UNCHANGED <<store, request>>

\* _restore_missing_once: hardware that was missing has appeared.  It is the record's
\* configuration that is looked at, and the driver's that is started.
RestoreMissing ==
    /\ monitor = "running" /\ ~manager.pending /\ ~manager.failed
    /\ Status(rig) = "missing"
    /\ \/ Passes(rig, manager, "unsaved") /\ UNCHANGED tried
       \/ /\ Saved.auto /\ SavedConfig # NoSetup
          /\ \/ Passes(rig, manager, "unopened") /\ UNCHANGED tried
             \/ Attempts(rig, manager, "unopened")
    /\ UNCHANGED <<store, request>>

\* The handlers of both shut the driver down, whatever was done with it since, ...
Handlers == {"unsaved", "unapplied", "unopened"}
Shut(why) == CASE why = "unsaved" -> "says unsaved"
               [] why = "unapplied" -> "says unapplied"
               [] why = "unopened" -> "says unopened"

HandlerShuts ==
    /\ monitor \in Handlers
    /\ \E u \in Shutdown(rig) :
          Passes(u.driver, manager, IF u.ok THEN Shut(monitor) ELSE "dead")
    /\ UNCHANGED <<store, request, tried>>

\* ... and say so, over what was said since.
HandlerSays ==
    /\ \E why \in Handlers :
          /\ monitor = Shut(why)
          /\ Passes(rig, [manager EXCEPT !.error = TRUE,
                                         !.failed = @ \/ why = "unopened",
                                         !.pending = IF why = "unopened" THEN @
                                                     ELSE why = "unsaved"], "running")
    /\ UNCHANGED <<store, request, tried>>

\* An arm fails while it runs; a legacy pair fails as one.
ArmFails ==
    /\ Up
    /\ \E S \in IF IsCell(rig.config) THEN {{a} : a \in rig.live}
                ELSE {rig.live} \ {{}} :
          rig' = [rig EXCEPT !.live = @ \ S, !.stuck = @ \cup S]
    /\ did' = [by |-> "none", ok |-> TRUE]
    /\ UNCHANGED <<store, manager, monitor, request, tried>>

\* The process ends, in order or not.
DriverStops ==
    /\ Up /\ monitor' = "off" /\ request' = NoSetup
    /\ rig' = Driver(Env, "missing") /\ manager' = Fresh
    /\ did' = [by |-> "none", ok |-> TRUE] /\ tried' = FALSE
    /\ UNCHANGED store

-----------------------------------------------------------------------------
SetupNext == \/ Revoke \/ ConnectArrives \/ ConnectLegacy \/ Reset
        \/ \E auto \in BOOLEAN : \/ \E c \in LegacyConfigs : SaveLegacy(c, auto)
                                 \/ \E c \in CellConfigs : SaveCell(c, auto)
        \/ \E S \in SUBSET UNION {ArmsOf[c] : c \in Setups} :
              ConnectCell(S) \/ Disconnects(S)
        \/ Boot \/ RestoreStorage \/ RestoreMissing \/ HandlerShuts \/ HandlerSays
        \/ ArmFails \/ DriverStops

SetupSpec == SetupInit /\ [][SetupNext]_setupVars
-----------------------------------------------------------------------------
(* Properties *)

\* What the record asks for: with nothing on record the driver is reset, and has again what
\* the environment configures.
Recorded == IF SavedConfig = NoSetup THEN Env ELSE SavedConfig

\* An operation that failed leaves the record as it was and the driver with the old or
\* the recorded configuration, or an error is shown; it connects nothing that was not
\* connected (the roll-backs of save, connect and reset).
FailureRollsBack ==
    [][did'.by = "user" /\ ~did'.ok =>
         /\ store' = store
         /\ rig'.live \subseteq rig.live
         /\ \/ rig'.config \in {rig.config, Recorded, request}
            \/ manager'.error \/ Status(rig') = "error"]_setupVars

\* Nothing is connected on its own without consent on record, nor again after an
\* attempt, of whomever, that failed: only a request that succeeds lifts that.  At boot and
\* when the record is read again it is the configuration the consent is for.  Where missing
\* hardware is found again it is the driver's own, which is another when a legacy setup
\* was saved beside a cell's row, or a save or connect failed half-way: consent for the
\* one then connects the other.
NoBlindRetry ==
    [][did'.by = "auto" /\ ~(rig'.live \subseteq rig.live) =>
         /\ Saved.auto /\ ~tried
         /\ \/ rig'.config = SavedConfig
            \/ rig'.config = rig.config /\ Status(rig) = "missing"]_setupVars
=============================================================================
