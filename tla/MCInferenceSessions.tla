------------------------ MODULE MCInferenceSessions ------------------------
(* The session of a deployment has no parameters: the whole state space.   *)
EXTENDS InferenceSessions
=============================================================================
