----------------------------- MODULE MCForgeRun -----------------------------
(***************************************************************************)
(* Model-checking module of ForgeRun: every kind of task and of cache, and *)
(* enough faults for every rung of the ladder to fail.                     *)
(***************************************************************************)
EXTENDS ForgeRun
=============================================================================
