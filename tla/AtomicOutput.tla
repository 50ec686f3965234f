---------------------------- MODULE AtomicOutput ----------------------------
(***************************************************************************)
(* What save_adapter promises to its callers (src/forge/tasks/common.py):  *)
(* the output is one register that a save replaces in a single step.  The  *)
(* step happens at most once before the save ends; a save that fails or    *)
(* dies may or may not have taken it; a save that returns has taken it,    *)
(* and from then on no crash takes it back.                                *)
(***************************************************************************)
EXTENDS Naturals

CONSTANT PowerLoss  \* TRUE: a crash may also lose what was not flushed

VARIABLES
    slot,    \* the generation a reader finds, or gets after recovery; 0 is none
    gen,     \* generation of the latest save
    base,    \* the slot when that save began
    acked,   \* newest generation a save has returned for
    status   \* "none", "running", "ok" or "failed"

avars == <<slot, gen, base, acked, status>>

Init ==
    /\ slot \in {0, 1} /\ gen = 1 /\ base = 0 /\ acked = 0 /\ status = "none"

Begin ==
    /\ status # "running" /\ status' = "running"
    /\ gen' = gen + 1 /\ base' = slot
    /\ UNCHANGED <<slot, acked>>

Running == status = "running" /\ UNCHANGED <<gen, base>>

Commit == Running /\ slot' = gen /\ UNCHANGED <<acked, status>>

\* A first generation that was about to commit is removed by a failing save.
Withdraw ==
    Running /\ base = 0 /\ slot = gen /\ slot' = 0 /\ UNCHANGED <<acked, status>>

Succeed ==
    Running /\ slot = gen /\ status' = "ok" /\ acked' = gen /\ UNCHANGED slot

\* An error or a kill: the register is as it was.
Abort == Running /\ status' = "failed" /\ UNCHANGED <<slot, acked>>

\* A kill in the middle of a withdrawal.
AbortWithdrawn ==
    Running /\ base = 0 /\ slot = gen /\ slot' = 0 /\ status' = "failed" /\ UNCHANGED acked

\* A power loss may bring back an older generation, never one older than acked,
\* or take the step of a save that had not: the register it replaced is lost.
Outage ==
    /\ PowerLoss
    /\ slot' \in acked .. gen
    /\ status' = IF status = "running" THEN "failed" ELSE status
    /\ UNCHANGED <<gen, base, acked>>

Next == Begin \/ Commit \/ Withdraw \/ Succeed \/ Abort \/ AbortWithdrawn \/ Outage

Spec == Init /\ [][Next]_avars
=============================================================================
