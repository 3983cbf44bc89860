--------------------------- MODULE MCModalTarget ---------------------------
(* One thread that launches and one that lists, stops and cancels.         *)
EXTENDS ModalTarget
=============================================================================
