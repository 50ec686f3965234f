---------------------------- MODULE SoupOverride ----------------------------
(***************************************************************************)
(* The release override of src/forge/tuning/qwen35_soup.py on top of       *)
(* BestCheckpoint: a callback captures the weights of the second and of    *)
(* the fourth scheduled evaluation beside the run, and after the instruct  *)
(* handler's own ending their mean (the soup) replaces the output, if the  *)
(* fourth is what is published.  Otherwise, and on any error, the output   *)
(* is to stay as it is.  Promotion is one step with the outcomes that      *)
(* ArtifactStore gives it.                                                 *)
(***************************************************************************)
EXTENDS BestCheckpoint

Ordinals == {2, 4}  \* _CAPTURE_ORDINALS

VARIABLES
    evalCount,  \* route.scheduled_eval_count
    record,     \* ordinal -> step of its capture, 0 for none (route.record_steps)
    captureBad, \* ordinals whose capture failed (route.capture_errors)
    override,   \* where apply_qwen35_soup_override is
    souped,     \* the output is the soup of the records, not one checkpoint
    released,   \* what the override returned
    outBefore   \* ghost: the output when the override began

routeVars == <<evalCount, record, captureBad>>
overrideVars == <<override, souped, released, outBefore>>
soupVars == <<vars, routeVars, overrideVars>>

SoupInit ==
    /\ Init /\ handler = "instruct" /\ evaluates
    /\ evalCount = 0 /\ record = [o \in Ordinals |-> 0] /\ captureBad = {}
    /\ override = "waiting" /\ souped = FALSE /\ released = FALSE /\ outBefore = output

\* on_evaluate of the capture callback, after that of the best checkpoint: it
\* saves the weights to a directory of its own, which may fail.
CaptureSaved ==
    \/ record' = [record EXCEPT ![evalCount'] = step] /\ UNCHANGED captureBad
    \/ captureBad' = captureBad \cup {evalCount'} /\ UNCHANGED record

Capture ==
    /\ evalCount' = evalCount + 1
    /\ IF evalCount' \in Ordinals THEN CaptureSaved ELSE UNCHANGED <<record, captureBad>>

\* A scheduled evaluation counts although its loss is rejected.
CaptureRejected ==
    /\ evalCount' = evalCount + 1
    /\ captureBad' = captureBad \cup ({evalCount'} \cap Ordinals)
    /\ UNCHANGED record

\* The handler's ending, but for its last two calls, is BestCheckpoint's.
Reaches == phase = "returned" /\ step > 0 /\ phase' = "done"

Handler ==
    /\ phase # "done"
    /\ \/ Evaluate /\ Capture
       \/ EvaluateRejected /\ CaptureRejected
       \/ /\ OptimizerStep \/ StepEnd \/ StepDone \/ StopInsideStep \/ TrainingRaises
             \/ RetryFromScratch \/ LadderExhausted \/ PreserveProgress
             \/ Fallback \/ FinalSave \/ NoProgress \/ RetainBest
          /\ UNCHANGED routeVars
    /\ override' = IF Reaches THEN "check" ELSE override
    /\ outBefore' = IF Reaches THEN output' ELSE outBefore
    /\ UNCHANGED <<souped, released>>

KeepRun == UNCHANGED <<handler, evaluates, phase, step, stopping, tracker, lastSaved,
                       loss, refused, routeVars, outBefore>>

\* Mutated form: the hashes of the output and of record four are not compared.
OutputUnchecked == output.present

\* The output holds record four byte for byte.
OutputIsRecordFour == output.present /\ output.step = record[4]

Eligible ==
    /\ evalCount >= 4
    /\ \A o \in Ordinals : record[o] # 0 /\ o \notin captureBad
    /\ tracker.bestStep = record[4] /\ tracker.best = loss[record[4]]
    /\ OutputIsRecordFour

\* The requirements fail, or reading, merging, the smoke inference, validating
\* or flushing the stage does: the stage goes, the output stays.
Decline ==
    /\ override = "check"
    /\ override' = "label"
    /\ UNCHANGED <<output, saveErrors, souped, released>> /\ KeepRun

Build ==
    /\ override = "check" /\ Eligible
    /\ override' = "promote"
    /\ UNCHANGED <<output, saveErrors, souped, released>> /\ KeepRun

\* The stage is a copy of record four, which carries no truth file.
Soup == [output EXCEPT !.label = "none", !.labelStep = 0]

\* Mutated form: every error of the promotion is reported as a refusal.
CommittedIfOk(o) == o = "ok"

\* _committed_output_matches: an error after the exchange is a release.
Committed(o) == o \in {"ok", "late"}

\* _promote_staged_dir; when it raised and the output is not the soup, the stage
\* is removed and the override gives up.
Promote ==
    /\ override = "promote" /\ override' = "label"
    /\ \E o \in SaveOutcomes :
         /\ Save(o, Soup)
         /\ souped' = (o \in {"ok", "late"})
         /\ released' = Committed(o)
    /\ KeepRun

\* Mutated form: the label names the last step.
SelectedLast == step

\* selected_step of the handler's ending.
Selected == IF ShouldFinalSave THEN step ELSE RetainedStep

\* The handler's last call: the truth file is written once more.
Label ==
    /\ override = "label" /\ override' = "ended"
    /\ Relabel(TruthOf(step), Selected)
    /\ UNCHANGED <<souped, released>> /\ KeepRun

Stopped == phase = "done" /\ override \in {"waiting", "ended"} /\ UNCHANGED soupVars

SoupNext == Handler \/ Decline \/ Build \/ Promote \/ Label \/ Stopped

SoupSpec == SoupInit /\ [][SoupNext]_soupVars

-----------------------------------------------------------------------------
\* Properties.

\* The soup only ever takes the place of record four while that is the best
\* evaluated checkpoint the output could hold, and its members are two captures
\* of this run, the older one first: an artifact of a later evaluation whose
\* export reported an error after it had landed is not replaced.
SoupReplacesRecordFour ==
    [][souped' /\ ~souped =>
         /\ output.present /\ output.step = record[4]
         /\ 0 < record[2] /\ record[2] < record[4]
         /\ loss[output.step] = tracker.best
         /\ \A s \in 1 .. MaxSteps :
                loss[s] # NoLoss /\ s \notin refused => loss[output.step] <= loss[s]]_soupVars

\* An override that reports no release has left the artifact that it found where
\* it was; an error raised after the exchange is recognised as a release.
FailureLeavesRecordFour ==
    override \in {"label", "ended"} /\ ~released /\ outBefore.present =>
        output.present /\ output.step = outBefore.step /\ ~souped

\* When the run is over the truth file names the step the weights derive from.
ReleaseIsLabelled ==
    override = "ended" /\ NoSaveError =>
        output.label \in {"PARTIAL", "COMPLETE"} /\ output.labelStep = output.step
=============================================================================
