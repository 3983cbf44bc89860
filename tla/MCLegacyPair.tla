---------------------------- MODULE MCLegacyPair ----------------------------
(* Two configurations, and two pairs of devices one after the other.        *)
EXTENDS LegacyPair
=============================================================================
