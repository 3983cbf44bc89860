---------------------------- MODULE MCI2RTWorker ----------------------------
(* The instance of I2RTWorker that is checked. *)
EXTENDS I2RTWorker
=============================================================================
