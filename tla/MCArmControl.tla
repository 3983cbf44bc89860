---------------------------- MODULE MCArmControl ----------------------------
(* Two recordings of the same pair and an inference loop on its follower.  *)
EXTENDS ArmControl

CONSTANTS leader, left

MCArms == {leader, left}
MCLeader == [r \in Recordings |-> leader]
MCFollower == [r \in Recordings |-> left]
MCLoopArm == [i \in Loops |-> left]
MCScopes == {{Wildcard}, {left}}
=============================================================================
