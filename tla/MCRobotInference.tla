-------------------------- MODULE MCRobotInference --------------------------
(* Chunks of up to four actions in a queue of five: two chunks meet in the queue, *)
(* and half a chunk is more than there is room for.                      *)
EXTENDS RobotInference
=============================================================================
