-------------------------- MODULE MCManagedTraining --------------------------
(* Two jobs, the second after the first.                                    *)
EXTENDS ManagedTraining
=============================================================================
