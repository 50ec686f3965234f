----------------------------- MODULE MCOomRetry -----------------------------
(***************************************************************************)
(* Model-checking module of OomRetry: the configuration gives the bounds.  *)
(***************************************************************************)
EXTENDS OomRetry
=============================================================================
