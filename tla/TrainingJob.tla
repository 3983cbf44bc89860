---------------------------- MODULE TrainingJob ----------------------------
(***************************************************************************)
(* What managed training promises of its jobs: one is open at a time, its  *)
(* outcome is settled once, compute starts for it once at the most, and it *)
(* is closed only when none of its compute is left and none can come.      *)
(***************************************************************************)
CONSTANT Jobs

VARIABLES phase, result, compute

vars == <<phase, result, compute>>

Init ==
    /\ phase = [j \in Jobs |-> "none"]
    /\ result = [j \in Jobs |-> "pending"]
    /\ compute = [j \in Jobs |-> "none"]

Accept(j) ==
    /\ phase[j] = "none"
    /\ \A other \in Jobs \ {j} : phase[other] \in {"none", "closed"}
    /\ phase' = [phase EXCEPT ![j] = "open"]
    /\ UNCHANGED <<result, compute>>

Settle(j) ==
    /\ phase[j] = "open"
    /\ phase' = [phase EXCEPT ![j] = "settled"]
    /\ \E out \in {"succeeded", "failed", "cancelled"} :
           result' = [result EXCEPT ![j] = out]
    /\ UNCHANGED compute

(* A launch that is under way may still bring compute for a settled job.   *)
Start(j) ==
    /\ phase[j] \in {"open", "settled"} /\ compute[j] = "none"
    /\ compute' = [compute EXCEPT ![j] = "live"]
    /\ UNCHANGED <<phase, result>>

End(j) ==
    /\ compute[j] = "live"
    /\ compute' = [compute EXCEPT ![j] = "gone"]
    /\ UNCHANGED <<phase, result>>

Close(j) ==
    /\ phase[j] = "settled" /\ compute[j] # "live"
    /\ phase' = [phase EXCEPT ![j] = "closed"]
    /\ UNCHANGED <<result, compute>>

Next == \E j \in Jobs : Accept(j) \/ Settle(j) \/ Start(j) \/ End(j) \/ Close(j)

Spec == Init /\ [][Next]_vars
=============================================================================
