---------------------------- MODULE MCRecordings ----------------------------
(* One operator and one page that polls, two episodes, two faults, a restart. *)
EXTENDS Recordings

CONSTANTS q1, q2
=============================================================================
