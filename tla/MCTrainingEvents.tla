-------------------------- MODULE MCTrainingEvents --------------------------
(* Two steps, each logged and saved, shown alike by the tracker; an external *)
(* trainer that reports two steps, a correction of the first among them.     *)
EXTENDS TrainingEvents

Rounded(step) == 0

SomeReports == <<[kind |-> "metric", step |-> 1, of |-> 1],
                 [kind |-> "checkpoint", step |-> 1, of |-> 1],
                 [kind |-> "step", step |-> 2, of |-> 0],
                 [kind |-> "log", step |-> 1, of |-> 1],
                 [kind |-> "metric", step |-> 2, of |-> 2],
                 [kind |-> "metric", step |-> 1, of |-> 2],
                 [kind |-> "checkpoint", step |-> 2, of |-> 2]>>
=============================================================================
