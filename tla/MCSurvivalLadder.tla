-------------------------- MODULE MCSurvivalLadder --------------------------
(***************************************************************************)
(* Model-checking module of SurvivalLadder: the configurations give the    *)
(* requested batches, the quantiles and the retained fractions.            *)
(***************************************************************************)
EXTENDS SurvivalLadder
=============================================================================
