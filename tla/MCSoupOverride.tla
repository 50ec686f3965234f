--------------------------- MODULE MCSoupOverride ---------------------------
(***************************************************************************)
(* Model-checking module of SoupOverride: the configurations give a        *)
(* schedule long enough for evaluations after the fourth.                  *)
(***************************************************************************)
EXTENDS SoupOverride
=============================================================================
