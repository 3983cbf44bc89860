--------------------------- MODULE TrainingEvents ---------------------------
(***************************************************************************)
(* How a training run comes to show what its training did.  A managed run  *)
(* is fed by its job's monitor (managed_training.py), which reads the      *)
(* workload's events back from the provider's log (ModalTrainingTarget.    *)
(* poll) a page at a time, while the provider shows any part of that log   *)
(* and ctrl-pi may stop between any two awaits.  An external run is fed by *)
(* its trainer's requests (api/trainer.py), which may be answered late,    *)
(* twice or not at all.  Somebody reads the console of either.             *)
(***************************************************************************)
EXTENDS ModalWorkload, TrainingStore, FiniteSetsExt

CONSTANTS PageLimit,     \* events of one poll
          ReadLimit,     \* console lines of one answer
          Reports,       \* what an external trainer reports, in order
          MaxSends       \* times it sends one of them

ASSUME EventsAssumption ==
    /\ PageLimit \in Nat \ {0} /\ ReadLimit \in Nat \ {0} /\ MaxSends \in Nat \ {0}
    /\ Reports \in Seq([kind : {"metric", "checkpoint", "log", "step"},
                         step : Nat, of : Nat])

VARIABLES
    managed,   \* the run belongs to a managed job
    run,       \* TrainingRun
    record,    \* ManagedTrainingJob: cursor, event_gap, outcome, output_revision
    page,      \* the poll the monitor has in its hands, and how far it is with it
    trainer,   \* the external trainer's next report, whether it waits, its sends
    wire,      \* copies of each report that may still reach the server
    reader     \* a reader of the console: its cursor, what it got and was told

monitor == <<record, page>>
outside == <<trainer, wire>>
eventVars == <<workload, managed, run, monitor, outside, reader>>

NoPage == [stage |-> "none"]

EventsInit ==
    /\ WorkloadInit
    /\ managed \in BOOLEAN
    /\ run = NewRun
    /\ record = [cursor |-> 0, gap |-> FALSE, outcome |-> "pending", output |-> 0]
    /\ page = NoPage
    /\ trainer = [next |-> 1, waits |-> FALSE, sends |-> 0]
    /\ wire = [i \in DOMAIN Reports |-> 0]
    /\ reader = [cursor |-> 0, got |-> {}, told |-> FALSE]

-----------------------------------------------------------------------------
(* The monitor of a managed job *)

\* The sequence numbers of a part of the log, those already read left out.
Page(shown, cut) ==
    LET new == {n \in shown : n > record.cursor}
        Earlier(n) == Cardinality({m \in new : m < n})
        events == {n \in new : Earlier(n) < PageLimit}
    IN  [stage |-> "tailed", events |-> events, more |-> events # new,
         gap |-> cut \/ \E n \in new : n - 1 # record.cursor /\ n - 1 \notin new,
         highest |-> IF shown = {} THEN record.cursor ELSE Later(record.cursor, Max(shown)),
         state |-> "unknown", output |-> 0]

\* poll reads the log first.
Tails ==
    /\ managed /\ page = NoPage /\ record.outcome = "pending" /\ ~expired
    /\ \E shown \in SUBSET (DOMAIN out.events), cut \in BOOLEAN : page' = Page(shown, cut)
    /\ UNCHANGED <<workload, managed, run, record, outside, reader>>

\* _parse_result: its cursor tells of events the log has not shown.
WithResult(p) ==
    [p EXCEPT !.state = "succeeded", !.output = Len(hub),
              !.gap = @ \/ out.truncated \/ Len(out.events) > p.highest]

\* Then it asks for the call, and for the result of one that has succeeded; a result
\* that is not to be had leaves the state unknown, any other failure the page unread.
AsksCall ==
    /\ page.stage = "tailed"
    /\ \/ page' = NoPage
       \/ page' = [page EXCEPT !.stage = "polled"]
       \/ /\ call # "succeeded"
          /\ page' = [page EXCEPT !.stage = "polled", !.state = call]
       \/ /\ call = "succeeded"
          /\ page' = [WithResult(page) EXCEPT !.stage = "polled"]
    /\ UNCHANGED <<workload, managed, run, record, outside, reader>>

\* One event in the run.
Shown(r, n) ==
    LET event == out.events[n] IN
    CASE event.kind = "metric" -> AppendMetric(r, event.step, event.of)
      [] event.kind = "checkpoint" -> AppendCheckpoint(r, event.step, event.of)
      [] OTHER -> AppendConsole(r, event.of)

FirstOutcome(outcome) == IF record.outcome = "pending" THEN outcome ELSE record.outcome

\* Those of a page, one after the other: what the run is after the first of them all, the
\* first two, ...
ShownUpTo(r, events) ==
    LET upTo[n \in 0..Len(out.events)] ==
            IF n = 0 THEN r
            ELSE IF n \in events THEN Shown(upTo[n - 1], n) ELSE upTo[n - 1]
    IN  upTo

\* _persist_events: the events, the cursor and the gap in one commit.
Persisted(p) ==
    /\ run' = ShownUpTo(run, p.events)[Len(out.events)]
    /\ record' = [record EXCEPT !.cursor = IF p.events = {} THEN @ ELSE Later(@, Max(p.events)),
                          !.gap = @ \/ p.gap]

\* _ingest_poll verifies the checkpoints and stores the page; what that cannot do it
\* tries again later or takes for the end of the job.
Ingests ==
    /\ page.stage = "polled"
    /\ \/ Persisted(page) /\ page' = [page EXCEPT !.stage = "persisted"]
       \/ page' = NoPage /\ UNCHANGED <<run, record>>
       \/ /\ page.events # {} /\ page' = NoPage
          /\ record' = [record EXCEPT !.outcome = FirstOutcome("failed")]
          /\ UNCHANGED run
    /\ UNCHANGED <<workload, managed, outside, reader>>

\* _verify_and_persist_result, after the last page of a call that has succeeded.
StoresResult ==
    /\ page.stage = "persisted" /\ page.state = "succeeded" /\ ~page.more
    /\ \/ /\ run' = AppendCheckpoint(run, MaxSteps, page.output)
          /\ record' = [record EXCEPT !.output = page.output]
          /\ page' = [page EXCEPT !.stage = "stored"]
       \/ page' = NoPage /\ UNCHANGED <<run, record>>
    /\ UNCHANGED <<workload, managed, outside, reader>>

\* _choose_outcome; otherwise the next poll.
Concludes ==
    /\ LET over == \/ page.stage = "stored"
                   \/ page.stage = "persisted" /\ page.state \in {"failed", "cancelled"} IN
       \/ over /\ record' = [record EXCEPT !.outcome = FirstOutcome(page.state)]
       \/ /\ ~over /\ page.stage = "persisted"
          /\ page.state = "succeeded" => page.more
          /\ UNCHANGED record
    /\ page' = NoPage
    /\ UNCHANGED <<workload, managed, run, outside, reader>>

\* The user, and the deadline at the next turn of the loop.
Cancels ==
    /\ managed /\ record.outcome = "pending"
    /\ record' = [record EXCEPT !.outcome = "cancelled"]
    /\ UNCHANGED <<workload, managed, run, page, outside, reader>>

Expires ==
    /\ expired /\ page = NoPage /\ managed /\ record.outcome = "pending"
    /\ record' = [record EXCEPT !.outcome = "cancelled"]
    /\ UNCHANGED <<workload, managed, run, page, outside, reader>>

\* ctrl-pi stops, and is there again.
Restarts ==
    /\ page # NoPage /\ page' = NoPage
    /\ UNCHANGED <<workload, managed, run, record, outside, reader>>

\* The call is stopped once an outcome is chosen; the provider may end it before.
CallStops ==
    /\ call \in {"pending", "running"} /\ managed
    /\ \/ record.outcome # "pending" /\ Cancelled("cancelled")
       \/ Cancelled("failed")
    /\ UNCHANGED <<managed, run, monitor, outside, reader>>

Works == managed /\ Workload /\ UNCHANGED <<managed, run, monitor, outside, reader>>

-----------------------------------------------------------------------------
(* The trainer of an external run *)

Sends ==
    /\ ~managed /\ ~trainer.waits
    /\ trainer.next \in DOMAIN Reports /\ trainer.sends < MaxSends
    /\ trainer' = [trainer EXCEPT !.waits = TRUE, !.sends = @ + 1]
    /\ wire' = [wire EXCEPT ![trainer.next] = @ + 1]
    /\ UNCHANGED <<workload, managed, run, monitor, reader>>

\* The client raises; the request may still be on its way.
TimesOut ==
    /\ trainer.waits /\ trainer' = [trainer EXCEPT !.waits = FALSE]
    /\ UNCHANGED <<workload, managed, run, monitor, wire, reader>>

Answered(i) ==
    \/ UNCHANGED trainer
    \/ /\ trainer.next = i /\ trainer.waits
       /\ trainer' = [next |-> i + 1, waits |-> FALSE, sends |-> 0]

\* update_run, of current_step alone: it never goes back.
Patched(r, step) == [r EXCEPT !.step = IF step < @ THEN @ ELSE step]

\* log_metrics, register_checkpoint, log_console and update_run, under the row's lock.
Reported(r, report) ==
    CASE report.kind = "metric" -> AppendMetric(r, report.step, report.of)
      [] report.kind = "checkpoint" -> AppendCheckpoint(r, report.step, report.of)
      [] report.kind = "log" -> [AppendConsole(r, report.of)
                                   EXCEPT !.step = Later(@, report.step)]
      [] OTHER -> Patched(r, report.step)

\* A request that is not stored is answered with an error, or not at all.
Handles(i) ==
    /\ wire[i] > 0 /\ wire' = [wire EXCEPT ![i] = @ - 1]
    /\ \/ run' = Reported(run, Reports[i]) /\ Answered(i)
       \/ UNCHANGED run
          /\ trainer' = [trainer EXCEPT !.waits = trainer.next # i /\ @]
    /\ UNCHANGED <<workload, managed, monitor, reader>>

-----------------------------------------------------------------------------
(* A reader of the console *)

TurnsPage(answer) ==
    /\ reader' = [cursor |-> answer.next,
                  got |-> reader.got \cup {line.number : line \in ToSet(answer.lines)},
                  told |-> reader.told \/ answer.truncated]
    /\ UNCHANGED <<workload, managed, run, monitor, outside>>

\* It begins with the newest lines or with the first, and goes on where it was.
BeginsReading == reader.got = {} /\ run.console # <<>> /\ TurnsPage(NewestPage(run.console, ReadLimit))
GoesOnReading == run.console # <<>> /\ TurnsPage(PageAfter(run.console, reader.cursor, ReadLimit))

EventsNext ==
    \/ Works \/ Tails \/ AsksCall \/ Ingests \/ StoresResult \/ Concludes
    \/ Cancels \/ Expires \/ Restarts \/ CallStops
    \/ Sends \/ TimesOut
    \/ \E i \in DOMAIN Reports : Handles(i)
    \/ BeginsReading \/ GoesOnReading

EventsSpec == EventsInit /\ [][EventsNext]_eventVars
-----------------------------------------------------------------------------
(* What must hold *)

\* What a reader of a run may believe: with no gap told, a job that succeeded shows
\* every step it logged at that step, every checkpoint, and the last lines it printed;
\* and whoever was never told of a loss has every line up to where he is.
LossIsTold ==
    /\ record.outcome = "succeeded" /\ ~record.gap =>
         /\ ToSet(run.points) = {[step |-> s, of |-> s] : s \in Logged}
         /\ {checkpoint.step : checkpoint \in ToSet(run.checkpoints)} = Saved
         /\ Last(run.console).number = 1 + Cardinality(Logged)
         /\ \A line \in ToSet(run.console) : Cardinality({s \in Logged \cup {EOF} : s < line.of})
                                              = line.number - 1
    /\ ~reader.told => reader.got = 1..reader.cursor

\* The output of a managed job is a verified, whole commit of its last step, what the
\* run names when it has succeeded; and no checkpoint of it is of half a policy.
OutputIsWhole ==
    managed =>
        /\ record.outcome = "succeeded" => record.output # 0 /\ run.revision = record.output
        /\ record.output # 0 => hub[record.output].final
        /\ \A checkpoint \in ToSet(run.checkpoints) :
              hub[checkpoint.of].whole /\ hub[checkpoint.of].step = checkpoint.step

\* However often and late its reports arrive, an external run has one point for each
\* step and each checkpoint once, in order, and nothing answered is missing; where the
\* trainer has corrected a step's point, any of its reports may have come last.
Of(kind) == {i \in DOMAIN Reports : Reports[i].kind = kind}
Holds(entries, i) == Contains(entries, [step |-> Reports[i].step, of |-> Reports[i].of])
InOrder(entries) ==
    \A k \in DOMAIN entries : k > 1 => ByStep(entries[k - 1], entries[k])
ReportsSurviveRetries ==
    ~managed =>
        /\ InOrder(run.checkpoints)
        /\ \A k \in DOMAIN run.points : k > 1 => run.points[k - 1].step < run.points[k].step
        /\ \A i \in Of("metric") : i < trainer.next =>
              \E j \in Of("metric") : Reports[j].step = Reports[i].step /\ Holds(run.points, j)
        /\ \A i \in Of("checkpoint") : i < trainer.next => Holds(run.checkpoints, i)
        /\ \A i \in DOMAIN Reports : i < trainer.next => Reports[i].step <= run.step
=============================================================================
