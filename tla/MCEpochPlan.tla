---------------------------- MODULE MCEpochPlan ----------------------------
(***************************************************************************)
(* Model-checking module of EpochPlan: the configurations give the scale.  *)
(***************************************************************************)
EXTENDS EpochPlan
=============================================================================
