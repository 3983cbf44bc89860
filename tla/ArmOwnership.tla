---------------------------- MODULE ArmOwnership ----------------------------
(***************************************************************************)
(* What the arbitration promises, arm by arm: an arm has one owner at most,*)
(* only the owner streams positions to it, several arms are taken together *)
(* or not at all, and an arm is given back only when its stream is closed. *)
(***************************************************************************)

CONSTANTS
    Arms,
    Modes     \* control modes: teleop sessions, inference loops, requests

VARIABLES
    owner,    \* the control modes that own each arm
    follows   \* the control mode whose stream each arm follows, if any

Init ==
    /\ owner = [a \in Arms |-> {}]
    /\ follows = [a \in Arms |-> {}]

Take(S, who) ==
    /\ \A a \in S : owner[a] = {}
    /\ owner' = [a \in Arms |-> IF a \in S THEN {who} ELSE owner[a]]
    /\ UNCHANGED follows

Command(a, who) ==
    /\ owner[a] = {who}
    /\ follows' = [follows EXCEPT ![a] = {who}]
    /\ UNCHANGED owner

(* Streams are revoked on some arms, by anyone and at any time.            *)
Revoke(S) == follows' = [a \in Arms |-> IF a \in S THEN {} ELSE follows[a]]
Quiet(S) == Revoke(S) /\ UNCHANGED owner

(* What is given back is quiet from this step on, if not before.           *)
Give(G, S) ==
    /\ Revoke(S)
    /\ \A a \in G : follows'[a] = {}
    /\ owner' = [a \in Arms |-> IF a \in G THEN {} ELSE owner[a]]

vars == <<owner, follows>>

Next ==
    \/ \E S \in SUBSET Arms : \E who \in Modes : Take(S, who)
    \/ \E a \in Arms : \E who \in Modes : Command(a, who)
    \/ \E S \in SUBSET Arms : Quiet(S) \/ \E G \in SUBSET Arms : Give(G, S)

Spec == Init /\ [][Next]_vars
=============================================================================
