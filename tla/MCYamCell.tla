----------------------------- MODULE MCYamCell -----------------------------
(* A leader with its follower and a follower on its own, on three buses.    *)
EXTENDS YamCell, TLC

CONSTANTS leader, left, right, can0, can1, can2

MCArms == {leader, left, right}
MCLeaders == {leader}
MCPairOf == [a \in Arms |-> IF a = right THEN {} ELSE {"pair"}]
MCIds == <<leader, left, right>>
MCInterfaces == {can0, can1, can2}
MCMovable == {leader, left}
MCCells == {Arms}
MCSymmetry == Permutations(Interfaces)
=============================================================================
