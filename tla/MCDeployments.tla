--------------------------- MODULE MCDeployments ---------------------------
(* One deployment: several meet only in the flags of shutdown and freeze.  *)
EXTENDS Deployments
=============================================================================
