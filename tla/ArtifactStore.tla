--------------------------- MODULE ArtifactStore ---------------------------
(***************************************************************************)
(* How src/forge/tasks/common.py replaces the directory the validator      *)
(* uploads.  save_adapter builds a complete generation in <output>.tmp,    *)
(* validates and flushes it, seals it with a marker and promotes it; every *)
(* call first runs _recover_artifact_dirs, which the fallback also calls   *)
(* on its own.  One action is one filesystem operation, so a kill, a power *)
(* loss or an OSError can fall between any two of them.                    *)
(*                                                                         *)
(* A directory is abstracted to what the code and the properties tell      *)
(* apart: the generation its weights, its metadata (tokenizer, truth file, *)
(* telemetry) and its ready marker come from, 0 meaning "not there".       *)
(***************************************************************************)
EXTENDS Naturals

CONSTANTS
    MaxGen,      \* bound: generations 1 (the initial floor) .. MaxGen
    MaxFaults,   \* bound: operating-system errors in a behaviour
    MaxCrashes,  \* bound: crashes in a behaviour
    Platforms,   \* a subset of {"linux", "portable"}: is renameat2 available
    Outputs,     \* a subset of InitialOutputs: what the first save may find
    PowerLoss    \* TRUE: a crash may also lose what was not flushed

\* What is at the output path before the first save: nothing (the LoRA
\* handlers), or what the full-fine-tune floor copied there: part of it, all of
\* it, all of it and since then written back to the disk by the kernel.
InitialOutputs == {"absent", "torn", "floor", "settled_floor"}

ASSUME ArtifactStoreAssumption ==
    /\ MaxGen \in Nat \ {0}
    /\ MaxFaults \in Nat
    /\ MaxCrashes \in Nat
    /\ Platforms \subseteq {"linux", "portable"}
    /\ Outputs \subseteq InitialOutputs
    /\ PowerLoss \in BOOLEAN

VARIABLES
    dir,       \* the three directories: output, output.tmp, output.old
    journal,   \* the directory maps a power loss may bring back
    pc,        \* next operation of the running call
    op,        \* the running call: save_adapter, or recovery alone
    gen,       \* generation of the latest save
    cand,      \* _recover_artifact_dirs' candidate
    status,    \* how the latest save ended
    acked,     \* ghost: newest generation a save has returned for
    base,      \* ghost: generation recoverable when the latest save began
    platform, faults, crashes

vars == <<dir, journal, pc, op, gen, cand, status, acked, base,
          platform, faults, crashes>>

Slots == {"final", "tmp", "old"}
Gens  == 0 .. MaxGen
FloorGen == 1

Dir == [kind : {"none", "dir"}, weights : Gens, meta : Gens, marker : Gens,
        flushed : {"no", "yes"}]

Absent == [kind |-> "none", weights |-> 0, meta |-> 0, marker |-> 0,
           flushed |-> "no"]
Torn   == [Absent EXCEPT !.kind = "dir"]
Floor  == [Torn EXCEPT !.weights = FloorGen, !.meta = FloorGen]

InitialOutput(o) ==
    CASE o = "absent" -> Absent
      [] o = "torn"   -> Torn
      [] o = "floor"  -> Floor
      [] o = "settled_floor" -> [Floor EXCEPT !.flushed = "yes"]

\* _is_structurally_complete_artifact and _has_ready_marker.
Complete(d) == d.weights # 0
Sealed(d)   == d.marker # 0

\* The directory holds one generation, with everything that belongs to it.
Whole(d) == Complete(d) /\ d.meta = d.weights

RemoveSteps == {"r_clear", "r_tmp", "r_old", "s_clear", "c_drop", "p_drop",
                "j_clear", "j_drop"}

Steps == {"r_test", "r_move", "r_sync", "s_make", "s_weights", "s_meta",
          "s_check", "s_flush", "s_mark", "p_test", "p_first", "p_first_sync",
          "p_swap", "p_swap_sync", "p_drop_sync", "j_park", "j_park_sync",
          "j_swap", "j_swap_sync", "j_undo", "j_undo_sync", "j_drop_sync",
          "return", "raise"} \cup RemoveSteps

\* The directory the operation at pc is removing or overwriting.
Target == CASE pc = "r_clear" -> "final"
            [] pc \in {"r_old", "j_clear", "j_drop"} -> "old"
            [] OTHER -> "tmp"

\* What deletion or lost writes may leave of directory d.
Remnants(d) ==
    {[d EXCEPT !.weights = w, !.meta = m, !.marker = k] :
        w \in {0, d.weights}, m \in {0, d.meta}, k \in {0, d.marker}}

SurvivesPowerLoss(d) == IF d.flushed = "yes" THEN {d} ELSE Remnants(d)

\* The generation that is at the output path, or that recovery would put there.
Recoverable(m) ==
    IF Complete(m["final"]) THEN m["final"].weights
    ELSE IF Complete(m["old"]) THEN m["old"].weights
    ELSE IF Sealed(m["tmp"]) /\ Complete(m["tmp"]) THEN m["tmp"].weights
    ELSE 0

-----------------------------------------------------------------------------
Init ==
    /\ \E o \in Outputs :
           dir = [s \in Slots |-> IF s = "final" THEN InitialOutput(o) ELSE Absent]
    /\ journal = {dir}
    /\ pc = "idle" /\ op = "save" /\ cand = "none" /\ status = "none"
    /\ gen = FloorGen /\ acked = 0 /\ base = 0
    /\ platform \in Platforms
    /\ faults = 0 /\ crashes = 0

Goto(from, to) == pc = from /\ pc' = to

CanFault == faults < MaxFaults /\ faults' = faults + 1

Constant == UNCHANGED <<op, gen, status, acked, base, platform, crashes>>

\* A step that leaves the names and contents of the directories alone.
Touch(from, to) ==
    /\ Goto(from, to)
    /\ Constant /\ UNCHANGED <<dir, journal, cand, faults>>

\* The same step, raising instead.
Fail(from, handler) ==
    /\ Goto(from, handler) /\ CanFault
    /\ Constant /\ UNCHANGED <<dir, journal, cand>>

\* A write that is in the page cache, not yet on the disk.
Become(m) ==
    /\ dir' = m
    /\ journal' = journal \cup {m}

\* _rmtree(slot): ignore_errors, so a fault leaves a remnant and nothing raises.
Rmtree(from, to) ==
    /\ Goto(from, to)
    /\ \/ Become([dir EXCEPT ![Target] = Absent]) /\ UNCHANGED faults
       \/ /\ dir[Target].kind = "dir" /\ CanFault
          /\ \E r \in Remnants(dir[Target]) : Become([dir EXCEPT ![Target] = r])
    /\ Constant /\ UNCHANGED cand

\* os.replace of a directory: refused when the destination is still there.
Replace(from, src, dst, to) ==
    /\ Goto(from, to)
    /\ dir[dst].kind = "none"
    /\ Become([dir EXCEPT ![dst] = dir[src], ![src] = Absent])
    /\ Constant /\ UNCHANGED <<cand, faults>>

ReplaceRefused(from, dst, handler) ==
    /\ dir[dst].kind = "dir"
    /\ Touch(from, handler)

\* _fsync_dir(parent): the names as they are now survive a power loss.  Assumed of
\* the platform: the errors that _fsync_dir swallows, those of a filesystem that
\* cannot flush a directory, do not occur.
SyncParent(from, to) ==
    /\ Goto(from, to)
    /\ journal' = {dir}
    /\ Constant /\ UNCHANGED <<dir, cand, faults>>

\* A change to the staging directory.
Stage(from, to, d) ==
    /\ Goto(from, to)
    /\ Become([dir EXCEPT !["tmp"] = d])
    /\ Constant /\ UNCHANGED <<cand, faults>>

-----------------------------------------------------------------------------
\* Calls.

BeginSave ==
    /\ Goto("idle", "r_test") /\ gen < MaxGen
    /\ op' = "save" /\ gen' = gen + 1 /\ status' = "running"
    /\ base' = Recoverable(dir) /\ cand' = "none"
    /\ UNCHANGED <<dir, journal, acked, platform, faults, crashes>>

\* The fallback repairs an interrupted promotion before it looks for weights.
BeginRepair ==
    /\ Goto("idle", "r_test")
    /\ op' = "repair" /\ cand' = "none"
    /\ UNCHANGED <<dir, journal, gen, status, acked, base, platform, faults, crashes>>

\* save_adapter returns; only a save reports an outcome.
Return ==
    /\ Goto("return", "idle")
    /\ IF op = "save" THEN status' = "ok" /\ acked' = gen
                      ELSE UNCHANGED <<status, acked>>
    /\ UNCHANGED <<dir, journal, op, gen, cand, base, platform, faults, crashes>>

Raise ==
    /\ Goto("raise", "idle")
    /\ status' = IF op = "save" THEN "failed" ELSE status
    /\ UNCHANGED <<dir, journal, op, gen, cand, acked, base, platform, faults, crashes>>

-----------------------------------------------------------------------------
\* _recover_artifact_dirs(final).

\* Mutated forms of Candidate: the staged generation first; the marker not
\* asked for; a repair in place.
CandidateStagedFirst ==
    IF Sealed(dir["tmp"]) /\ Complete(dir["tmp"]) THEN "tmp"
    ELSE IF Complete(dir["old"]) THEN "old" ELSE "none"

CandidateUnsealed ==
    IF Complete(dir["old"]) THEN "old"
    ELSE IF Complete(dir["tmp"]) THEN "tmp" ELSE "none"

CandidateInPlace == IF dir["final"].kind = "dir" THEN "final" ELSE CandidateUnsealed

\* The last known-live generation wins over a sealed staging directory.
Candidate ==
    IF Complete(dir["old"]) THEN "old"
    ELSE IF Sealed(dir["tmp"]) /\ Complete(dir["tmp"]) THEN "tmp"
    ELSE "none"

RecoverTest ==
    /\ pc = "r_test"
    /\ cand' = IF Complete(dir["final"]) THEN "none" ELSE Candidate
    /\ pc' = IF cand' = "none" THEN "r_tmp" ELSE "r_clear"
    /\ Constant /\ UNCHANGED <<dir, journal, faults>>

RecoverClear == Rmtree("r_clear", "r_move")

RecoverMove ==
    \/ /\ cand \in {"old", "tmp"}
       /\ Replace("r_move", cand, "final", "r_sync")
    \/ ReplaceRefused("r_move", "final", "raise")
    \/ Fail("r_move", "raise")

RecoverSync == SyncParent("r_sync", "r_tmp") \/ Fail("r_sync", "raise")

RecoverDropTmp == Rmtree("r_tmp", "r_old")

RecoverDropOld == Rmtree("r_old", IF op = "save" THEN "s_clear" ELSE "return")

-----------------------------------------------------------------------------
\* save_adapter: build, validate, flush and seal the staging directory.

StageClear == Rmtree("s_clear", "s_make")

\* os.makedirs is before the try block: its error removes nothing.
StageMake ==
    \/ Stage("s_make", "s_weights", [dir["tmp"] EXCEPT !.kind = "dir", !.flushed = "no"])
    \/ Fail("s_make", "raise")

\* model.save_pretrained may fail having written part of the files, or write
\* files that do not make a complete artifact.
StageWeights ==
    \/ Stage("s_weights", "s_meta", [dir["tmp"] EXCEPT !.weights = gen])
    \/ /\ \E next \in {"s_meta", "c_drop"} : Goto("s_weights", next)
       /\ CanFault
       /\ Become([dir EXCEPT !["tmp"] = [dir["tmp"] EXCEPT !.weights = 0]])
       /\ Constant /\ UNCHANGED cand

\* Tokenizer, base architectures, truth file and telemetry.
StageMeta ==
    \/ Stage("s_meta", "s_check", [dir["tmp"] EXCEPT !.meta = gen])
    \/ Fail("s_meta", "c_drop")

StageCheck ==
    \/ Complete(dir["tmp"]) /\ Touch("s_check", "s_flush")
    \/ ~Complete(dir["tmp"]) /\ Touch("s_check", "c_drop")

\* Mutated form: no flush before the marker.
StageFlushSkipped == Touch("s_flush", "s_mark")

\* _fsync_tree; its directories are flushed under the assumption of SyncParent.
StageFlush ==
    \/ Stage("s_flush", "s_mark", [dir["tmp"] EXCEPT !.flushed = "yes"])
    \/ Fail("s_flush", "c_drop")

\* The marker is renamed into place before its directory is flushed: an error
\* of that flush raises with the marker already there.
SealedTmp == [dir["tmp"] EXCEPT !.marker = gen]

StageMark ==
    \/ Stage("s_mark", "p_test", SealedTmp)
    \/ Fail("s_mark", "c_drop")
    \/ /\ Goto("s_mark", "c_drop") /\ CanFault
       /\ Become([dir EXCEPT !["tmp"] = SealedTmp])
       /\ Constant /\ UNCHANGED cand

\* except BaseException: remove a staging directory that is not sealed.
Cleanup == Rmtree("c_drop", "raise")

-----------------------------------------------------------------------------
\* _promote_staged_dir(tmp, final).

\* The directory is validated again; promotion depends on what it finds.
Promote ==
    Touch("p_test", IF ~Complete(dir["tmp"]) \/ ~Sealed(dir["tmp"]) THEN "raise"
                    ELSE IF dir["final"].kind = "none" THEN "p_first" ELSE "p_swap")

PromoteFirst ==
    \/ Replace("p_first", "tmp", "final", "p_first_sync")
    \/ Fail("p_first", "raise")

\* Mutated form: the parent is not flushed after the first promotion.
PromoteFirstUnflushed == Touch("p_first_sync", "return")

PromoteFirstSync == SyncParent("p_first_sync", "return") \/ Fail("p_first_sync", "raise")

Exchanged == [dir EXCEPT !["final"] = dir["tmp"], !["tmp"] = dir["final"]]

\* Mutated form: the rollback journal on every platform.
PromoteSwapByRename == Touch("p_swap", "j_clear")

\* renameat2(RENAME_EXCHANGE), or the rollback journal where there is none.
PromoteSwap ==
    \/ /\ platform = "linux" /\ Goto("p_swap", "p_swap_sync")
       /\ Become(Exchanged)
       /\ Constant /\ UNCHANGED <<cand, faults>>
    \/ platform = "linux" /\ Fail("p_swap", "raise")
    \/ platform = "portable" /\ Touch("p_swap", "j_clear")

PromoteSwapSync == SyncParent("p_swap_sync", "p_drop") \/ Fail("p_swap_sync", "raise")
PromoteDrop     == Rmtree("p_drop", "p_drop_sync")
PromoteDropSync == SyncParent("p_drop_sync", "return") \/ Fail("p_drop_sync", "raise")

JournalClear == Rmtree("j_clear", "j_park")

\* Mutated form: the output is removed to make room, not parked.
JournalParkRemoves ==
    /\ Goto("j_park", "j_park_sync")
    /\ Become([dir EXCEPT !["final"] = Absent])
    /\ Constant /\ UNCHANGED <<cand, faults>>

JournalPark ==
    \/ Replace("j_park", "final", "old", "j_park_sync")
    \/ ReplaceRefused("j_park", "old", "raise")
    \/ Fail("j_park", "raise")

\* Outside the try block: its error is not rolled back.
JournalParkSync == SyncParent("j_park_sync", "j_swap") \/ Fail("j_park_sync", "raise")

JournalSwap ==
    \/ Replace("j_swap", "tmp", "final", "j_swap_sync")
    \/ Fail("j_swap", "j_undo")

\* Here the output exists again, so the handler has nothing to roll back.
JournalSwapSync == SyncParent("j_swap_sync", "j_drop") \/ Fail("j_swap_sync", "raise")

JournalUndo ==
    \/ Replace("j_undo", "old", "final", "j_undo_sync")
    \/ Fail("j_undo", "raise")

JournalUndoSync == SyncParent("j_undo_sync", "raise") \/ Fail("j_undo_sync", "raise")
JournalDrop     == Rmtree("j_drop", "j_drop_sync")
JournalDropSync == SyncParent("j_drop_sync", "return") \/ Fail("j_drop_sync", "raise")

-----------------------------------------------------------------------------
\* The environment.

\* What a kill can leave: the directories as they are, or the one that was
\* being removed or written half way.
Interrupted ==
    {dir} \cup IF pc \in RemoveSteps \cup {"s_weights"} /\ dir[Target].kind = "dir"
               THEN {[dir EXCEPT ![Target] = r] : r \in Remnants(dir[Target])}
               ELSE {}

Crashed ==
    /\ pc # "down" /\ crashes < MaxCrashes
    /\ pc' = "down" /\ crashes' = crashes + 1
    /\ status' = IF status = "running" THEN "failed" ELSE status
    /\ UNCHANGED <<op, gen, cand, acked, base, platform, faults>>

\* SIGKILL or the wall clock: memory is gone, the page cache is not.
Kill ==
    /\ Crashed
    /\ \E m \in Interrupted : Become(m)

\* Power loss: any directory map since the last flush of the parent, without
\* the contents that were not flushed.
Outage ==
    /\ PowerLoss /\ Crashed
    /\ \E m \in journal \cup Interrupted :
       \E f \in SurvivesPowerLoss(m["final"]),
          t \in SurvivesPowerLoss(m["tmp"]),
          o \in SurvivesPowerLoss(m["old"]) :
           dir' = [s \in Slots |-> IF s = "final" THEN f
                                   ELSE IF s = "tmp" THEN t ELSE o]
    /\ journal' = {dir'}

Restart ==
    /\ Goto("down", "idle")
    /\ UNCHANGED <<dir, journal, op, gen, cand, status, acked, base,
                   platform, faults, crashes>>

Next ==
    \/ BeginSave \/ BeginRepair \/ Return \/ Raise
    \/ RecoverTest \/ RecoverClear \/ RecoverMove \/ RecoverSync
    \/ RecoverDropTmp \/ RecoverDropOld
    \/ StageClear \/ StageMake \/ StageWeights \/ StageMeta \/ StageCheck
    \/ StageFlush \/ StageMark \/ Cleanup
    \/ Promote \/ PromoteFirst \/ PromoteFirstSync
    \/ PromoteSwap \/ PromoteSwapSync \/ PromoteDrop \/ PromoteDropSync
    \/ JournalClear \/ JournalPark \/ JournalParkSync \/ JournalSwap
    \/ JournalSwapSync \/ JournalUndo \/ JournalUndoSync \/ JournalDrop
    \/ JournalDropSync
    \/ Kill \/ Outage \/ Restart

Spec == Init /\ [][Next]_vars
-----------------------------------------------------------------------------
\* Properties.

\* Every variable keeps its type: three directories, a known operation, bounded
\* generations and error budgets (save_adapter, _recover_artifact_dirs,
\* _promote_staged_dir).
TypeOK ==
    /\ dir \in [Slots -> Dir]
    /\ journal \subseteq [Slots -> Dir]
    /\ pc \in Steps \cup {"idle", "down"}
    /\ op \in {"save", "repair"}
    /\ gen \in 1 .. MaxGen
    /\ cand \in {"none", "old", "tmp"}
    /\ status \in {"none", "running", "ok", "failed"}
    /\ acked \in Gens
    /\ base \in Gens
    /\ platform \in Platforms
    /\ faults \in 0 .. MaxFaults
    /\ crashes \in 0 .. MaxCrashes

\* The directory is the generation being saved, whole and flushed.
Promoted(d) == Whole(d) /\ d.weights = gen /\ d.flushed = "yes"

\* Once save_adapter has returned, whatever crash comes next, recovery finds
\* that generation or a newer one: no order of removals, renames and flushes
\* in recovery or promotion leaves a moment when it is gone.
AckedSurvives ==
    \A m \in journal \cup {dir} : Recoverable(m) >= acked

\* When save_adapter has returned, and until the next one is called, the output
\* path holds exactly the generation it was asked to save, whole, flushed and
\* under a name that survives a power loss; a later repair does not disturb it.
AckedIsDurable ==
    status = "ok" => \A m \in journal : Promoted(m["final"])

\* A save that raises leaves its caller one of four outputs, whichever operation
\* of recovery, staging, promotion or rollback raised: the new generation, whole
\* and flushed; the one that was recoverable when it began; no output, and the
\* next recovery brings that one back; or, there having been none, no output, and
\* at most the new generation in its sealed staging directory.
RaisedSaveLeavesOldOrNew ==
    op = "save" /\ pc = "raise" =>
        \/ Promoted(dir["final"])
        \/ Complete(dir["final"]) /\ dir["final"].weights = base
        \/ ~Complete(dir["final"]) /\ base # 0 /\ Recoverable(dir) = base
        \/ ~Complete(dir["final"]) /\ base = 0 /\ Recoverable(dir) \in {0, gen}

\* Weights and diagnostics become visible as one directory-generation: a saved
\* generation at the output path never misses its metadata nor borrows it
\* from another one.
OutputIsOneGeneration ==
    dir["final"].weights > FloorGen => Whole(dir["final"])

\* Startup recovery promotes a staging directory only if it was validated and
\* flushed as a whole; a half-built or half-removed one is not a candidate.
RecoveryTakesOnlyCommitted ==
    pc \in {"r_clear", "r_move"} /\ cand = "tmp" =>
        Whole(dir["tmp"]) /\ dir["tmp"].flushed = "yes"

\* With renameat2 the path the validator uploads never disappears and never
\* goes back to an older generation, not even for one step, while the process
\* is building, swapping, failing, cleaning up or being killed.
OutputNeverHidden ==
    [][platform = "linux" /\ Complete(dir["final"]) /\ ~Outage =>
         Complete(dir'["final"]) /\ dir["final"].weights <= dir'["final"].weights]_vars

\* The abstract specification, read through recovery.
Output == INSTANCE AtomicOutput WITH slot <- Recoverable(dir)

\* save_adapter is one atomic replacement of the output, whatever operation an
\* error, a kill or a power loss interrupts: read through recovery, the three
\* directories behave as the single register of AtomicOutput.
ReplacesAtomically == Output!Spec

-----------------------------------------------------------------------------
\* Why AckedSurvives and AckedIsDurable hold: the inductive invariant.

\* A directory with the acknowledged generation or a newer one, flushed.
Durable(d) == Complete(d) /\ d.weights >= acked /\ d.flushed = "yes"

\* It is at the output path, or the output path is empty and it is in .old: a
\* staging directory is never the only copy of an acknowledged generation.
Safe(m) ==
    \/ Durable(m["final"])
    \/ ~Complete(m["final"]) /\ Durable(m["old"])

RepairSteps == {"r_test", "r_clear", "r_move", "r_sync", "r_tmp", "r_old",
                "return", "raise"}

\* The operations between which the output path must hold it: all but those
\* that run while .old is the only copy, and those that do not know yet.
LiveSteps == Steps \ {"r_test", "r_clear", "r_move", "j_park_sync", "j_swap",
                      "j_undo", "raise"}

ParkedSteps == {"r_clear", "r_move", "j_park_sync", "j_swap", "j_undo"}

BuildSteps == {"s_weights", "s_meta", "s_check", "s_flush", "s_mark"}

SealedSteps == {"p_test", "p_first", "p_swap", "j_clear", "j_park",
                "j_park_sync", "j_swap"}

PromotedSteps == {"p_first_sync", "p_swap_sync", "p_drop", "p_drop_sync",
                  "j_swap_sync", "j_drop", "j_drop_sync"}

\* What the staging directory holds at each step of its construction.
Staging ==
    LET t == dir["tmp"] IN
    /\ pc \in BuildSteps => t.kind = "dir"
    /\ pc \in {"s_meta", "s_check"} => t.weights \in {0, gen}
    /\ pc = "s_check" => t.meta = gen
    /\ pc = "s_flush" => t.weights = gen /\ t.meta = gen
    /\ pc \in {"s_mark"} \cup SealedSteps => Promoted(t)
    /\ pc \in PromotedSteps => Promoted(dir["final"])
    /\ pc = "return" /\ op = "save" => Promoted(dir["final"]) /\ journal = {dir}

Calls ==
    /\ op = "save" /\ pc \notin {"idle", "down"} => status = "running"
    /\ op = "repair" => pc \in {"idle", "down"} \cup RepairSteps

Durability ==
    /\ dir \in journal
    /\ \A m \in journal, s \in Slots : Complete(m[s]) => m[s].kind = "dir"
    /\ acked <= gen
    /\ Staging
    /\ Calls
    /\ pc \in {"r_clear", "r_move"} => ~Complete(dir["final"])
    /\ status = "ok" => \A m \in journal : Promoted(m["final"])
    /\ acked # 0 =>
         /\ \A m \in journal : Safe(m)
         /\ pc \in LiveSteps => Durable(dir["final"])
         /\ pc \in ParkedSteps => ~Complete(dir["final"]) /\ Durable(dir["old"])
         /\ pc \in {"r_clear", "r_move"} => cand = "old"
=============================================================================
