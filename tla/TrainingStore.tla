---------------------------- MODULE TrainingStore ----------------------------
(***************************************************************************)
(* What a training run's row holds of its progress, and how a report       *)
(* changes it (training_store.py), under the row's lock.  Points are of    *)
(* one metric; of the two bounds on the console, of lines and of bytes,    *)
(* the model keeps one.                                                    *)
(***************************************************************************)
EXTENDS Naturals, Sequences, SequencesExt

CONSTANT MaxConsole      \* console lines kept

ASSUME StoreAssumption == MaxConsole \in Nat \ {0}

NewRun == [step |-> 0, points |-> <<>>, checkpoints |-> <<>>,
           revision |-> 0, console |-> <<>>]

Later(a, b) == IF a > b THEN a ELSE b
Lesser(a, b) == IF a < b THEN a ELSE b

ByStep(a, b) == a.step < b.step \/ (a.step = b.step /\ a.of < b.of)

\* Appending to a list that is in order, and sorting it.
Inserted(entries, new) ==
    [i \in 1..(Len(entries) + 1) |->
        IF i <= Len(entries) /\ ~ByStep(new, entries[i]) THEN entries[i]
        ELSE IF i = 1 \/ ~ByStep(new, entries[i - 1]) THEN new
        ELSE entries[i - 1]]

\* Mutant: the point is added to those of its step.
AddMetric(run, step, value) ==
    [run EXCEPT !.points = Inserted(@, [step |-> step, of |-> value]),
                !.step = Later(@, step)]

\* append_metrics: a point takes the place of the one its step had.
AppendMetric(run, step, value) ==
    LET point == [step |-> step, of |-> value] IN
    [run EXCEPT !.points = IF \E i \in DOMAIN @ : @[i].step = step
                           THEN [i \in DOMAIN @ |-> IF @[i].step = step THEN point ELSE @[i]]
                           ELSE Inserted(@, point),
                !.step = Later(@, step)]

\* append_checkpoint: what it names becomes the run's output, known or not.
AppendCheckpoint(run, step, revision) ==
    LET checkpoint == [step |-> step, of |-> revision] IN
    [run EXCEPT !.checkpoints = IF Contains(@, checkpoint) THEN @
                                ELSE Inserted(@, checkpoint),
                !.revision = revision,
                !.step = Later(@, step)]

\* append_console_log: numbered after the last, the oldest going.
AppendConsole(run, line) ==
    LET number == IF run.console = <<>> THEN 1 ELSE Last(run.console).number + 1
        grown == Append(run.console, [number |-> number, of |-> line])
    IN  [run EXCEPT !.console =
            SubSeq(grown, IF Len(grown) > MaxConsole THEN Len(grown) - MaxConsole + 1 ELSE 1,
                   Len(grown))]

\* list_console_logs: a page of the console, and the number to go on after.
PageOf(logs, lines, after, truncated) ==
    [lines |-> lines, truncated |-> truncated,
     next |-> IF lines # <<>> THEN Last(lines).number
              ELSE IF logs # <<>> THEN Last(logs).number ELSE after]

\* The lines have ascending numbers.
LinesAfter(logs, after, limit) ==
    LET first == Min({i \in DOMAIN logs : logs[i].number > after} \cup {Len(logs) + 1})
    IN  SubSeq(logs, first, Lesser(Len(logs), first + limit - 1))

PageAfter(logs, after, limit) ==
    PageOf(logs, LinesAfter(logs, after, limit), after,
           logs # <<>> /\ after + 1 < Head(logs).number)

NewestPage(logs, limit) ==
    LET lines == SubSeq(logs, IF Len(logs) > limit THEN Len(logs) - limit + 1 ELSE 1, Len(logs))
    IN  PageOf(logs, lines, 0, Len(lines) < Len(logs) \/ (logs # <<>> /\ Head(logs).number > 1))
=============================================================================
