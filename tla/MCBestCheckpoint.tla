-------------------------- MODULE MCBestCheckpoint --------------------------
(***************************************************************************)
(* Model-checking module of BestCheckpoint: the configurations give the    *)
(* schedule, the losses, the periods and the outcomes a save may have.     *)
(***************************************************************************)
EXTENDS BestCheckpoint
=============================================================================
