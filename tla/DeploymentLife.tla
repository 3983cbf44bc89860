--------------------------- MODULE DeploymentLife ---------------------------
(***************************************************************************)
(* What the deployment service promises about one deployment, whatever its *)
(* coroutines, the sweeps and the provider do: it is opened once, it may   *)
(* come up only while it opens, "closed" is claimed only of what is down,  *)
(* and what is closed is neither reopened nor brought up again, although a *)
(* late failure may still call it broken.                                  *)
(***************************************************************************)
CONSTANT Deployments

VARIABLES
    life,   \* what the durable state claims
    up      \* whether the provider runs anything for it

lifeVars == <<life, up>>

Lives == {"none", "opening", "serving", "closing", "broken", "closed"}

Init ==
    /\ life = [d \in Deployments |-> "none"]
    /\ up = [d \in Deployments |-> FALSE]

Claims(d, from, to) ==
    /\ life[d] \in from
    /\ life' = [life EXCEPT ![d] = to]
    /\ UNCHANGED up

Open(d) == Claims(d, {"none"}, "opening")
Serve(d) == Claims(d, {"opening"}, "serving")
Close(d) == Claims(d, {"opening", "serving", "broken"}, "closing")
Break(d) == Claims(d, {"opening", "serving", "closing", "closed"}, "broken")
Closed(d) == ~up[d] /\ Claims(d, {"closing", "broken"}, "closed")

ComeUp(d) ==
    /\ life[d] = "opening" /\ ~up[d]
    /\ up' = [up EXCEPT ![d] = TRUE]
    /\ UNCHANGED life

GoDown(d) ==
    /\ up[d]
    /\ up' = [up EXCEPT ![d] = FALSE]
    /\ UNCHANGED life

Next ==
    \E d \in Deployments :
        Open(d) \/ Serve(d) \/ Close(d) \/ Break(d) \/ Closed(d) \/ ComeUp(d) \/ GoDown(d)

Spec == Init /\ [][Next]_lifeVars
=============================================================================
