--------------------------- MODULE BestCheckpoint ---------------------------
(***************************************************************************)
(* Which weights are at the output path while a handler trains, and what   *)
(* the truth file beside them claims: the tracker, the periodic mirror and *)
(* the best-checkpoint callback of src/forge/tasks/common.py, and the      *)
(* endings of the instruct, BloomZ, DPO and GRPO handlers.  The model at   *)
(* optimizer step s stands for the weights of step s; step 0 is the floor  *)
(* written before training.                                                *)
(*                                                                         *)
(* save_adapter is one step here, with the outcomes ArtifactStore gives it *)
(* (see AtomicOutput).  A wall-clock kill uploads the output path as it is *)
(* in whichever state the kill finds it, so the invariants over the output *)
(* are statements about every such upload.                                 *)
(***************************************************************************)
EXTENDS Naturals

CONSTANTS
    Handlers,      \* a subset of {"instruct", "bloomz", "dpo", "grpo"}
    MaxSteps,      \* length of the training schedule, in optimizer steps
    Losses,        \* evaluation losses, as positive naturals
    Tolerance,     \* the 1e-9 of should_final_save, in the unit of Losses
    EvalEvery,     \* eval_steps
    SaveEvery,     \* `every` of the periodic mirror, or BloomZ's cadence
    SaveOutcomes,  \* a subset of {"ok", "clean", "late", "hidden"}
    MaxSaveErrors  \* bound: failing saves in a behaviour

NoLoss == 0

ASSUME BestCheckpointAssumption ==
    /\ Handlers \subseteq {"instruct", "bloomz", "dpo", "grpo"}
    /\ MaxSteps \in Nat \ {0}
    /\ Losses \subseteq Nat \ {NoLoss}
    /\ Tolerance \in Nat
    /\ EvalEvery \in Nat \ {0}
    /\ SaveEvery \in Nat \ {0}
    /\ SaveOutcomes \subseteq {"ok", "clean", "late", "hidden"}
    /\ "ok" \in SaveOutcomes
    /\ MaxSaveErrors \in Nat

VARIABLES
    handler, evaluates,   \* fixed for a run: the handler, and is there a held-out set
    phase,                \* where the trainer or the handler is
    step,                 \* trainer.state.global_step
    stopping,             \* control.should_training_stop
    tracker,              \* BestTracker
    lastSaved,            \* BloomZ's last_saved_step
    output,               \* what is at the output path
    loss,                 \* ghost: loss of each evaluated step, NoLoss before
    refused,              \* ghost: evaluated steps whose export failed
    saveErrors            \* number of failing saves; did one of them land all the same

vars == <<handler, evaluates, phase, step, stopping, tracker, lastSaved, output,
          loss, refused, saveErrors>>

Labelled == handler \in {"instruct", "bloomz"}

Tracker == [observed : Losses \cup {NoLoss}, best : Losses \cup {NoLoss},
            bestStep : 0 .. MaxSteps, last : Losses \cup {NoLoss},
            lastStep : 0 .. MaxSteps]

Labels == {"FLOOR", "PARTIAL", "COMPLETE", "none"}

\* present is FALSE when a promotion without renameat2 failed half way: the
\* directory is in .old, and the next call to save_adapter or to the fallback
\* brings it back.
Output == [step : 0 .. MaxSteps, label : Labels, labelStep : 0 .. MaxSteps,
           present : BOOLEAN]

\* _truth: a schedule that ran to its end is COMPLETE, anything less PARTIAL.
TruthOf(s) == IF s = 0 THEN "FLOOR" ELSE IF s >= MaxSteps THEN "COMPLETE" ELSE "PARTIAL"

\* Mutated form: labelled with the step in progress.
ArtifactNextStep(s, label) ==
    [step |-> s, label |-> IF Labelled THEN label ELSE "none",
     labelStep |-> IF Labelled THEN s + 1 ELSE 0, present |-> TRUE]

Artifact(s, label) ==
    [step |-> s, label |-> IF Labelled THEN label ELSE "none",
     labelStep |-> IF Labelled THEN s ELSE 0, present |-> TRUE]

Init ==
    /\ handler \in Handlers
    /\ evaluates \in IF handler \in {"instruct", "dpo"} THEN BOOLEAN ELSE {FALSE}
    /\ phase = "train" /\ step = 0 /\ stopping = FALSE
    /\ tracker = [observed |-> NoLoss, best |-> NoLoss, bestStep |-> 0,
                  last |-> NoLoss, lastStep |-> 0]
    /\ lastSaved = 0
    /\ output = Artifact(0, "FLOOR")
    /\ loss = [s \in 1 .. MaxSteps |-> NoLoss] /\ refused = {}
    /\ saveErrors = [count |-> 0, landed |-> FALSE]

CountError(landed) ==
    /\ saveErrors.count < MaxSaveErrors
    /\ saveErrors' = [count |-> saveErrors.count + 1, landed |-> saveErrors.landed \/ landed]

NoSaveError == saveErrors.count = 0

\* save_adapter: it returns; or it raises with the old artifact in place, with
\* the new one in place (an error after the exchange), or with neither.
Save(outcome, artifact) ==
    LET recovered == [output EXCEPT !.present = TRUE] IN
    /\ outcome \in SaveOutcomes
    /\ output' = CASE outcome \in {"ok", "late"} -> artifact
                   [] outcome = "clean"  -> recovered
                   [] outcome = "hidden" -> [output EXCEPT !.present = FALSE]
    /\ IF outcome = "ok" THEN UNCHANGED saveErrors ELSE CountError(outcome = "late")

\* write_artifact_truth: refuses an output that is not there, swallows errors.
Relabel(label, s) ==
    \/ /\ output' = IF output.present THEN [output EXCEPT !.label = label, !.labelStep = s]
                                      ELSE output
       /\ UNCHANGED saveErrors
    \/ CountError(FALSE) /\ UNCHANGED output

Fixed == UNCHANGED <<handler, evaluates>>

-----------------------------------------------------------------------------
\* The training loop.

OptimizerStep ==
    /\ phase = "train" /\ step < MaxSteps
    /\ step' = step + 1 /\ phase' = "step_end"
    /\ Fixed /\ UNCHANGED <<stopping, tracker, lastSaved, output, loss, refused, saveErrors>>

AfterStep == IF evaluates /\ step % EvalEvery = 0 THEN "evaluate" ELSE "step_done"

\* Mutated form: the mirror stands down as soon as there is a tracker.
SaveDueUntracked ==
    /\ step % SaveEvery = 0
    /\ handler = "bloomz" => lastSaved # step
    /\ ~evaluates

\* The mirror stands down once a best checkpoint is persisted.
SaveDue ==
    /\ step % SaveEvery = 0
    /\ handler = "bloomz" => lastSaved # step
    /\ handler \in {"instruct", "dpo"} => tracker.best = NoLoss

\* DeadlineCallback may ask to stop; then the handler's save callback runs.
StepEnd ==
    /\ phase = "step_end" /\ phase' = AfterStep
    /\ stopping' \in {stopping, TRUE}
    /\ IF SaveDue
       THEN \E o \in SaveOutcomes :
              /\ Save(o, Artifact(step, IF handler = "bloomz" THEN TruthOf(step)
                                                              ELSE "PARTIAL"))
              /\ lastSaved' = IF handler = "bloomz" /\ o = "ok" THEN step ELSE lastSaved
       ELSE UNCHANGED <<output, saveErrors, lastSaved>>
    /\ Fixed /\ UNCHANGED <<step, tracker, loss, refused>>

\* on_evaluate with a loss that is missing or not finite.
EvaluateRejected ==
    /\ phase = "evaluate" /\ phase' = "step_done"
    /\ Fixed
    /\ UNCHANGED <<step, stopping, tracker, lastSaved, output, loss, refused, saveErrors>>

Smaller(a, b) == b = NoLoss \/ a < b

\* Mutated form: compared with the best loss seen, not the best persisted.
ExportDueIfObserved(l) == Smaller(l, tracker.observed)

ExportDue(l) == Smaller(l, tracker.best)

\* on_evaluate: the tracker records the loss, and a loss below that of the best
\* persisted checkpoint is exported at once.
Evaluate ==
    /\ phase = "evaluate" /\ phase' = "step_done"
    /\ \E l \in Losses :
         LET seen == [tracker EXCEPT !.last = l, !.lastStep = step,
                        !.observed = IF Smaller(l, @) THEN l ELSE @]
         IN /\ loss' = [loss EXCEPT ![step] = l]
            /\ IF ExportDue(l)
               THEN \E o \in SaveOutcomes :
                      /\ Save(o, Artifact(step, "PARTIAL"))
                      /\ tracker' = IF o = "ok"
                                    THEN [seen EXCEPT !.best = l, !.bestStep = step]
                                    ELSE seen
                      /\ refused' = IF o = "ok" THEN refused ELSE refused \cup {step}
               ELSE tracker' = seen /\ UNCHANGED <<output, saveErrors, refused>>
    /\ Fixed /\ UNCHANGED <<step, stopping, lastSaved>>

StepDone ==
    /\ phase = "step_done"
    /\ phase' = IF stopping \/ step = MaxSteps THEN "returned" ELSE "train"
    /\ Fixed
    /\ UNCHANGED <<step, stopping, tracker, lastSaved, output, loss, refused, saveErrors>>

\* on_substep_end: the soft stop passes inside an accumulation window.
StopInsideStep ==
    /\ phase = "train" /\ stopping' = TRUE /\ phase' = "returned"
    /\ Fixed /\ UNCHANGED <<step, tracker, lastSaved, output, loss, refused, saveErrors>>

\* trainer.train() raises: out of memory, or anything else.
TrainingRaises ==
    /\ phase \in {"train", "evaluate"}
    /\ phase' \in {"oom", "raised"}
    /\ Fixed
    /\ UNCHANGED <<step, stopping, tracker, lastSaved, output, loss, refused, saveErrors>>

-----------------------------------------------------------------------------
\* How a run ends.

\* A zero-progress OOM is retried with a fresh trainer (the instruct ladder) or
\* a smaller batch (safe_train), until that is exhausted.
RetryFromScratch ==
    /\ phase = "oom" /\ step = 0 /\ phase' = "train"
    /\ Fixed
    /\ UNCHANGED <<step, stopping, tracker, lastSaved, output, loss, refused, saveErrors>>

\* The instruct ladder is exhausted: the output is still the floor.
LadderExhausted ==
    /\ phase = "oom" /\ step = 0 /\ handler = "instruct" /\ phase' = "done"
    /\ Relabel("FLOOR", 0)
    /\ Fixed /\ UNCHANGED <<step, stopping, tracker, lastSaved, loss, refused>>

\* _preserve_progress after an OOM with progress: keep the best, or save the
\* latest; the handler returns normally either way.
PreserveProgress ==
    /\ phase = "oom" /\ step > 0 /\ handler = "instruct" /\ phase' = "done"
    /\ IF tracker.best # NoLoss
       THEN Relabel("PARTIAL", tracker.bestStep)
       ELSE \E o \in SaveOutcomes : Save(o, Artifact(step, "PARTIAL"))
    /\ Fixed /\ UNCHANGED <<step, stopping, tracker, lastSaved, loss, refused>>

\* safe_train gives up and the error reaches the CLI.
OomPropagates ==
    /\ phase = "oom" /\ handler # "instruct" /\ phase' = "raised"
    /\ Fixed
    /\ UNCHANGED <<step, stopping, tracker, lastSaved, output, loss, refused, saveErrors>>

\* The CLI's fallback repairs an interrupted promotion and keeps what is there.
Fallback ==
    /\ phase = "raised" /\ phase' = "done"
    /\ output' = [output EXCEPT !.present = TRUE]
    /\ Fixed
    /\ UNCHANGED <<step, stopping, tracker, lastSaved, loss, refused, saveErrors>>

\* Mutated form: any last evaluation will do, not that of the final step.
ShouldFinalSaveStale ==
    \/ tracker.best = NoLoss
    \/ tracker.last # NoLoss /\ tracker.last <= tracker.best + Tolerance

\* should_final_save: final weights replace the best checkpoint only if that
\* very step was evaluated and was no worse.
ShouldFinalSave ==
    \/ tracker.best = NoLoss
    \/ /\ tracker.lastStep = step /\ tracker.last # NoLoss
       /\ tracker.last <= tracker.best + Tolerance

\* Mutated form: BloomZ publishes whatever step it stopped at.
FinalSaveDueAnyStep ==
    CASE handler = "instruct" -> step > 0 /\ ShouldFinalSave
      [] handler = "dpo"      -> ShouldFinalSave
      [] handler = "grpo"     -> TRUE
      [] handler = "bloomz"   -> lastSaved # step

FinalSaveDue ==
    CASE handler = "instruct" -> step > 0 /\ ShouldFinalSave
      [] handler = "dpo"      -> ShouldFinalSave
      [] handler = "grpo"     -> TRUE
      [] handler = "bloomz"   -> step = MaxSteps /\ lastSaved # step

\* The final save: an error of it reaches the CLI.
FinalSave ==
    /\ phase = "returned" /\ FinalSaveDue
    /\ \E o \in SaveOutcomes :
         /\ Save(o, Artifact(step, TruthOf(step)))
         /\ phase' = IF o = "ok" THEN "done" ELSE "raised"
    /\ Fixed /\ UNCHANGED <<step, stopping, tracker, lastSaved, loss, refused>>

\* The schedule returned without a single step: the output is still the floor.
NoProgress ==
    /\ phase = "returned" /\ handler = "instruct" /\ step = 0 /\ phase' = "done"
    /\ Relabel("FLOOR", 0)
    /\ Fixed /\ UNCHANGED <<step, stopping, tracker, lastSaved, loss, refused>>

\* Mutated form: labelled with the last step instead of the best one.
RetainedStepLast == step

RetainedStep == tracker.bestStep

\* The best checkpoint stays; instruct renews its label.
RetainBest ==
    /\ phase = "returned" /\ phase' = "done"
    /\ handler \in {"instruct", "dpo"} /\ step > 0 /\ ~ShouldFinalSave
    /\ IF handler = "instruct" THEN Relabel(TruthOf(step), RetainedStep)
                               ELSE UNCHANGED <<output, saveErrors>>
    /\ Fixed /\ UNCHANGED <<step, stopping, tracker, lastSaved, loss, refused>>

\* BloomZ publishes cadence generations only.
KeepCadence ==
    /\ phase = "returned" /\ phase' = "done"
    /\ handler = "bloomz" /\ ~FinalSaveDue
    /\ Fixed
    /\ UNCHANGED <<step, stopping, tracker, lastSaved, output, loss, refused, saveErrors>>

Terminated == phase = "done" /\ UNCHANGED vars

Next ==
    \/ OptimizerStep \/ StepEnd \/ EvaluateRejected \/ Evaluate \/ StepDone
    \/ StopInsideStep \/ TrainingRaises
    \/ RetryFromScratch \/ LadderExhausted \/ PreserveProgress \/ OomPropagates
    \/ Fallback \/ FinalSave \/ NoProgress \/ RetainBest \/ KeepCadence
    \/ Terminated

Spec == Init /\ [][Next]_vars

-----------------------------------------------------------------------------
\* Properties.

\* Steps, losses and labels are those the tracker and the truth file can hold.
TypeOK ==
    /\ handler \in Handlers /\ evaluates \in BOOLEAN
    /\ phase \in {"train", "step_end", "evaluate", "step_done", "oom", "raised",
                  "returned", "done"}
    /\ step \in 0 .. MaxSteps /\ stopping \in BOOLEAN
    /\ tracker \in Tracker /\ lastSaved \in 0 .. MaxSteps
    /\ output \in Output
    /\ loss \in [1 .. MaxSteps -> Losses \cup {NoLoss}]
    /\ refused \subseteq 1 .. MaxSteps
    /\ saveErrors \in [count : 0 .. MaxSaveErrors, landed : BOOLEAN]

\* Once a checkpoint is persisted, whatever a kill uploads was evaluated and is
\* as good as that checkpoint: neither the mirror, nor a refused export, nor the
\* final save puts worse or unmeasured weights there.
BestIsVisible ==
    tracker.best # NoLoss =>
        /\ output.step > 0 /\ loss[output.step] # NoLoss
        /\ loss[output.step] <= tracker.best + Tolerance

\* Later unevaluated weights never replace a measured minimum: a step that
\* replaces the persisted checkpoint puts evaluated weights there, no worse than
\* what they replace.
MeasuredNeverReplaced ==
    [][tracker.best # NoLoss /\ output'.step # output.step =>
         /\ output'.step > 0
         /\ loss'[output'.step] # NoLoss
         /\ loss'[output'.step] <= loss[output.step] + Tolerance]_vars

\* After a failed export the next-best evaluation gets its chance: every
\* evaluation whose export did not fail is no better than the persisted one.
PersistedIsMinimum ==
    \A s \in 1 .. MaxSteps :
        loss[s] # NoLoss /\ s \notin refused =>
            tracker.best # NoLoss /\ tracker.best <= loss[s]

\* The truth file names the weights it lies beside, calls the floor the floor,
\* and says COMPLETE only when the schedule ran to its end, unless a save landed
\* that had reported an error: the handlers cannot know of that one.
TruthNamesWeights ==
    Labelled /\ ~saveErrors.landed =>
        /\ output.labelStep = output.step
        /\ output.label = "FLOOR" <=> output.step = 0
        /\ output.label = "COMPLETE" => step = MaxSteps

\* Without a persisted best and without save errors the output lags the trainer
\* by less than the mirror's period.
MirrorIsFresh ==
    phase = "train" /\ tracker.best = NoLoss /\ NoSaveError =>
        step - output.step < SaveEvery

\* BloomZ never publishes a step outside its cadence, and COMPLETE only the last.
CadenceOnly ==
    handler = "bloomz" =>
        /\ output.step % SaveEvery = 0 \/ output.step = MaxSteps
        /\ output.label = "COMPLETE" => output.step = MaxSteps
=============================================================================
