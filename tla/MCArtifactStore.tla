-------------------------- MODULE MCArtifactStore --------------------------
(***************************************************************************)
(* Model-checking module of ArtifactStore: the configurations give the     *)
(* generations, the platforms and the budgets of errors and crashes.       *)
(***************************************************************************)
EXTENDS ArtifactStore
=============================================================================
