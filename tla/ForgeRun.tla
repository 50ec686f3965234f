------------------------------ MODULE ForgeRun ------------------------------
(***************************************************************************)
(* One run of the container, from src/forge/cli.py to its exit: arguments, *)
(* spec, dispatch, the handler, and the ladder of last resorts in          *)
(* src/forge/tasks/fallback.py, which the full-fine-tune handler also uses *)
(* for the floor it writes before training.  Training is abstracted to the *)
(* saves it makes; BestCheckpoint has its detail, ArtifactStore the        *)
(* outcomes of a save and of a recovery.                                   *)
(*                                                                         *)
(* A directory is what _has_weights looks at: an adapter, a model, and the *)
(* claim of the truth file.                                                *)
(***************************************************************************)
EXTENDS Naturals

CONSTANTS
    Tasks,        \* a subset of {"lora", "full", "unknown"}: what the task type leads to
    Caches,       \* a subset of {"safetensors", "bin", "corrupt", "missing"}
    SaveOutcomes, \* a subset of {"ok", "clean", "late", "hidden"}
    MaxFaults     \* bound: failing operations in a behaviour

ASSUME ForgeRunAssumption ==
    /\ Tasks \subseteq {"lora", "full", "unknown"}
    /\ Caches \subseteq {"safetensors", "bin", "corrupt", "missing"}
    /\ SaveOutcomes \subseteq {"ok", "clean", "late", "hidden"}
    /\ MaxFaults \in Nat

VARIABLES
    task, cache,  \* fixed for a run
    pc,           \* next operation
    bare,         \* the spec is the bare one
    caller,       \* who called emit_untrained_copy
    out, aside,   \* the output, and what recovery would put there: .old or a sealed .tmp
    exit,         \* how the process ended
    raised,       \* the handler raised
    trained,      \* ghost: trained weights have been at the output path
    denied,       \* ghost: the fallback could not rename or make the output directory
    faults

vars == <<task, cache, pc, bare, caller, out, aside, exit, raised, trained,
          denied, faults>>

Dir == [adapter : {"none", "config", "floor", "trained"},
        model   : {"none", "torn", "plain", "perturbed", "trained"},
        truth   : {"none", "floor", "trained"}]

Empty == [adapter |-> "none", model |-> "none", truth |-> "none"]

\* _has_weights: files of an adapter take precedence, complete or not.
HasWeights(d) ==
    IF d.adapter # "none" THEN d.adapter \in {"floor", "trained"}
                          ELSE d.model \in {"plain", "perturbed", "trained"}

\* _is_structurally_complete_artifact: a config alone does not shadow a model.
Complete(d) ==
    d.adapter \in {"floor", "trained"} \/ d.model \in {"plain", "perturbed", "trained"}

\* What a loader makes of it: an adapter config without weights spoils a model.
Loads(d) == Complete(d) /\ d.adapter # "config"

IsTrained(d) == "trained" \in {d.adapter, d.model}

Usable == cache \in {"safetensors", "bin"}

Init ==
    /\ task \in Tasks /\ cache \in Caches
    /\ pc = "parse" /\ bare = FALSE /\ caller = "cli"
    /\ out = Empty /\ aside = Empty
    /\ exit = "none" /\ raised = FALSE /\ trained = FALSE /\ denied = FALSE
    /\ faults = 0

Goto(from, to) == pc = from /\ pc' = to /\ UNCHANGED <<task, cache>>
Fault   == faults < MaxFaults /\ faults' = faults + 1
NoFault == UNCHANGED faults
Files   == UNCHANGED <<out, aside>>
Flags   == UNCHANGED <<bare, caller, exit, raised, trained, denied>>

-----------------------------------------------------------------------------
\* main and _run.

\* argparse accepts, or leaves with status 2.
Parse == Goto("parse", "spec") /\ NoFault /\ Files /\ Flags

ParseRejects ==
    /\ Goto("parse", "exited") /\ exit' = "nonzero" /\ Fault
    /\ Files /\ UNCHANGED <<bare, caller, raised, trained, denied>>

\* TaskSpec.build, or the bare spec when it raises.
BuildSpec ==
    /\ Goto("spec", "dispatch")
    /\ \/ bare' = FALSE /\ NoFault
       \/ bare' = TRUE /\ Fault
    /\ Files /\ UNCHANGED <<caller, exit, raised, trained, denied>>

\* for_task finds the handler, none, or fails to import it.
Dispatch ==
    /\ \/ task # "unknown" /\ Goto("dispatch", "setup") /\ NoFault
       \/ task = "unknown" /\ Goto("dispatch", "recover") /\ NoFault
       \/ task # "unknown" /\ Goto("dispatch", "recover") /\ Fault
    /\ Files /\ Flags

HandlerRaises ==
    /\ pc \in {"setup", "label", "train"} /\ Goto(pc, "recover")
    /\ raised' = TRUE /\ caller' = "cli"
    /\ Files /\ NoFault /\ UNCHANGED <<bare, exit, trained, denied>>

\* What _recover_artifact_dirs makes of the two.
Repaired == IF ~Complete(out) /\ Complete(aside) THEN aside ELSE out

\* A save that raised may have left the new artifact, the old one or, the old
\* one being in .old, none; where there was none, its sealed staging directory.
\* The recovery it starts with is part of it.
Save(o, d) ==
    LET live == Repaired IN
    /\ o \in SaveOutcomes /\ IF o = "ok" THEN NoFault ELSE Fault
    /\ CASE o \in {"ok", "late"} -> out' = d /\ aside' = Empty
         [] o = "clean"  -> out' = live /\ aside' \in {Empty} \cup
                                             (IF Complete(live) THEN {} ELSE {d})
         [] o = "hidden" -> Complete(live) /\ out' = Empty /\ aside' = live
    /\ trained' = (trained \/ IsTrained(out'))

LoraFloor    == [Empty EXCEPT !.adapter = "floor", !.truth = "floor"]
Trained      == [Empty EXCEPT !.truth = "trained",
                   !.adapter = IF task = "lora" THEN "trained" ELSE "none",
                   !.model   = IF task = "full" THEN "trained" ELSE "none"]

\* load_base succeeded; a LoRA handler saves the untrained adapter.
WriteLoraFloor ==
    /\ task = "lora" /\ Usable
    /\ \E o \in SaveOutcomes :
         /\ Save(o, LoraFloor)
         /\ Goto("setup", IF o = "ok" THEN "train" ELSE "recover")
         /\ raised' = (o # "ok")
    /\ caller' = "cli"
    /\ UNCHANGED <<bare, exit, denied>>

\* A full fine-tune gets its floor from emit_untrained_copy.
WriteFullFloor ==
    /\ task = "full" /\ Usable /\ Goto("setup", "recover")
    /\ caller' = "handler"
    /\ Files /\ NoFault /\ UNCHANGED <<bare, exit, raised, trained, denied>>

\* A callback swallows the error of a save, the final save does not.
TrainingSave ==
    /\ pc = "train" /\ ~bare
    /\ \E o \in SaveOutcomes :
         /\ Save(o, Trained)
         /\ \/ Goto("train", "train") /\ UNCHANGED raised
            \/ o # "ok" /\ Goto("train", "recover") /\ raised' = TRUE
    /\ caller' = "cli"
    /\ UNCHANGED <<bare, exit, denied>>

\* The handler returns and the CLI flushes the telemetry.
HandlerReturns ==
    /\ ~bare /\ Goto("train", "exited") /\ exit' = "zero"
    /\ Files /\ NoFault /\ UNCHANGED <<bare, caller, raised, trained, denied>>

-----------------------------------------------------------------------------
\* emit_untrained_copy.

\* Mutated form: the output is not repaired first.
RecoverSkipped ==
    /\ Goto("recover", "decide")
    /\ Files /\ NoFault /\ Flags

\* _recover_artifact_dirs; what it raises is swallowed.
Recover ==
    /\ Goto("recover", "decide")
    /\ \/ /\ out' = Repaired /\ aside' = Empty
          /\ trained' = (trained \/ IsTrained(out'))
          /\ NoFault /\ UNCHANGED denied
       \/ /\ ~Complete(out) /\ Complete(aside)
          /\ out' = Empty /\ Fault /\ denied' = TRUE
          /\ UNCHANGED <<aside, trained>>
    /\ UNCHANGED <<bare, caller, exit, raised>>

\* write_artifact_truth after the floor of a full fine-tune, or the exit.
Emitted == IF caller = "handler" THEN "label" ELSE "flush"

\* Mutated form: the ladder is climbed whatever is there.
DecideAlwaysEmits ==
    /\ Goto("decide", "rung1")
    /\ Files /\ NoFault /\ Flags

\* What is there is kept; without a cached base there is nothing to emit.
Decide ==
    /\ Goto("decide", IF HasWeights(out) \/ cache = "missing" THEN Emitted ELSE "rung1")
    /\ Files /\ NoFault /\ Flags

\* A rung that claims success ends the ladder only if _has_weights agrees.
Climb(rung, next, d) ==
    /\ Goto(rung, IF HasWeights(d) THEN Emitted ELSE next)
    /\ out' = d /\ UNCHANGED aside /\ Flags

\* What a rung that does not come to its end leaves: a part of the adapter or all
\* of it, the tokenizer being saved after it; a part of the copy or all of it.
LoraRemains == {out} \cup {[out EXCEPT !.adapter = a] : a \in {"config", "floor"}}

CopyRemains ==
    {[out EXCEPT !.model = m] : m \in IF Usable THEN {"torn", "plain"} ELSE {"torn"}}

LoraRung ==
    \/ Usable /\ Climb("rung1", "clear1", [out EXCEPT !.adapter = "floor"]) /\ NoFault
    \/ /\ Goto("rung1", "clear1")
       /\ IF Usable
          THEN out' \in LoraRemains /\ Fault
          ELSE UNCHANGED out /\ NoFault
       /\ UNCHANGED aside /\ Flags

\* Mutated form: what the failed rung left stays.
ClearDirSkipped(from, to) == Goto(from, to) /\ Files /\ Flags /\ NoFault

\* _clear_dir ignores what it cannot remove.
ClearDir(from, to) ==
    /\ Goto(from, to)
    /\ \/ out' = Empty /\ NoFault
       \/ UNCHANGED out /\ Fault
    /\ UNCHANGED aside /\ Flags

\* os.makedirs raises, before the first rung or in _clear_dir: the handler's
\* call turns into a failure of the handler, the CLI's is logged.
MakedirsRaises ==
    /\ pc \in {"clear1", "clear2"} \/ (pc = "decide" /\ out = Empty)
    /\ Goto(pc, IF caller = "handler" THEN "recover" ELSE "flush")
    /\ out' = Empty /\ UNCHANGED aside
    /\ Fault /\ denied' = TRUE
    /\ raised' = (raised \/ caller = "handler") /\ caller' = "cli"
    /\ UNCHANGED <<bare, exit, trained>>

\* Not for a base without safetensors; a corrupt one fails when it is loaded.
PerturbedRung ==
    \/ /\ cache = "safetensors" /\ NoFault
       /\ Climb("rung2", "clear2", [out EXCEPT !.model = "perturbed"])
    \/ /\ cache = "safetensors" /\ Fault /\ Goto("rung2", "clear2")
       /\ out' \in CopyRemains
       /\ UNCHANGED aside /\ Flags
    \/ /\ cache = "bin" /\ Goto("rung2", "clear2") /\ NoFault /\ Files /\ Flags
    \/ /\ cache = "corrupt" /\ Goto("rung2", "clear2") /\ NoFault
       /\ out' = [out EXCEPT !.model = "torn"] /\ UNCHANGED aside /\ Flags

PlainRung ==
    \/ /\ NoFault
       /\ Climb("rung3", Emitted, [out EXCEPT !.model = IF Usable THEN "plain" ELSE "torn"])
    \/ Fault /\ Climb("rung3", Emitted, [out EXCEPT !.model = "torn"])

\* What the output directory may hold when an operation is interrupted.
Remains ==
    {out} \cup
    CASE pc = "recover" /\ ~Complete(out) /\ Complete(aside) -> {Empty}
      [] pc = "rung1" /\ Usable -> LoraRemains
      [] pc \in {"clear1", "clear2"} -> {Empty}
      [] pc \in {"rung2", "rung3"} /\ ~(pc = "rung2" /\ cache = "bin") -> CopyRemains
      [] OTHER -> {}

\* The guards of the dispatch and of the fallback are for Exception: an interrupt
\* (KeyboardInterrupt, SystemExit) passes them and ends the process with an error,
\* or, when the handler asked for its floor, reaches the guard around the handler.
Interrupted ==
    /\ pc \in {"dispatch", "recover", "decide", "rung1", "clear1", "rung2", "clear2",
               "rung3", "flush"}
    /\ Goto(pc, IF caller = "handler" THEN "recover" ELSE "exited")
    /\ exit' = IF caller = "handler" THEN exit ELSE "nonzero"
    /\ raised' = (raised \/ caller = "handler") /\ caller' = "cli"
    /\ out' \in Remains /\ Fault
    /\ UNCHANGED <<aside, bare, trained, denied>>

\* write_artifact_truth labels what is complete, and training begins.
LabelFloor ==
    /\ Goto("label", "train")
    /\ \/ /\ out' = IF Complete(out) THEN [out EXCEPT !.truth = "floor"] ELSE out
          /\ NoFault
       \/ UNCHANGED out /\ Fault
    /\ UNCHANGED aside /\ Flags

Flush ==
    /\ Goto("flush", "exited") /\ exit' = "zero"
    /\ Files /\ NoFault /\ UNCHANGED <<bare, caller, raised, trained, denied>>

Exited == pc = "exited" /\ UNCHANGED vars

Next ==
    \/ Parse \/ ParseRejects \/ BuildSpec \/ Dispatch
    \/ HandlerRaises \/ WriteLoraFloor \/ WriteFullFloor \/ TrainingSave \/ HandlerReturns
    \/ Recover \/ Decide \/ LoraRung \/ ClearDir("clear1", "rung2") \/ MakedirsRaises
    \/ PerturbedRung \/ ClearDir("clear2", "rung3") \/ PlainRung
    \/ Interrupted \/ LabelFloor \/ Flush \/ Exited

Spec == Init /\ [][Next]_vars

-----------------------------------------------------------------------------
\* Properties.

\* The directories hold what the rungs and the saves can put there.
TypeOK ==
    /\ task \in Tasks /\ cache \in Caches
    /\ pc \in {"parse", "spec", "dispatch", "setup", "train", "recover", "decide",
               "rung1", "clear1", "rung2", "clear2", "rung3", "label", "flush", "exited"}
    /\ bare \in BOOLEAN /\ caller \in {"cli", "handler"}
    /\ out \in Dir /\ aside \in Dir
    /\ exit \in {"none", "zero", "nonzero"}
    /\ {raised, trained, denied} \subseteq BOOLEAN
    /\ faults \in 0 .. MaxFaults

\* One failing operation, wherever it falls, costs no artifact: with a usable
\* base there are weights when training begins and when the process exits with
\* status 0 (not when the arguments are rejected or the process is interrupted),
\* unless a promotion without renameat2 left them in .old or the output
\* directory itself cannot be made; and with a base of safetensors files they
\* are not a plain copy of it, which a later fallback would take for a result.
OneFaultIsAbsorbed ==
    /\ Usable /\ faults <= 1 /\ ~Complete(aside) /\ ~denied
    /\ pc = "train" \/ exit = "zero"
    => Loads(out) /\ (cache = "safetensors" => out.model # "plain")

\* A handler that raises keeps what it trained, however it was interrupted, as
\* long as the recovery can rename it back; if the fallback is interrupted too, it
\* is still where the next recovery finds it.
RaisedKeepsTrained ==
    pc = "exited" /\ raised /\ trained /\ ~denied =>
        IsTrained(IF exit = "zero" THEN out ELSE Repaired)

\* The truth file never claims training for weights nobody trained.
TruthNeverOverclaims == out.truth = "trained" => IsTrained(out)
=============================================================================
