------------------------------ MODULE MCPacing ------------------------------
(***************************************************************************)
(* Model-checking module of Pacing: the configuration gives the times.     *)
(***************************************************************************)
EXTENDS Pacing
=============================================================================
