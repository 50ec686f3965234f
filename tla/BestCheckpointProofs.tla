------------------------ MODULE BestCheckpointProofs ------------------------
(***************************************************************************)
(* Theorems about BestCheckpoint and SoupOverride, for every schedule, set *)
(* of losses, evaluation and save period, tolerance, handler and number of *)
(* failing saves.  A step of the handler in SoupOverride is a step of      *)
(* BestCheckpoint, so what is invariant there holds until the override     *)
(* begins.                                                                 *)
(***************************************************************************)
EXTENDS SoupOverride, TLAPS

-----------------------------------------------------------------------------
\* The inductive invariant.

\* Where the trainer is in its step.  The output never runs ahead of it; between
\* the step and its callbacks nothing of this step has been saved; and once a
\* best checkpoint is persisted the mirror no longer saves before the evaluation.
Moments ==
    /\ phase \in {"step_end", "evaluate", "step_done"} => step > 0
    /\ phase = "evaluate" => evaluates
    /\ evaluates => handler \in {"instruct", "dpo"}
    /\ ~evaluates => tracker.best = NoLoss
    /\ lastSaved <= step /\ output.step <= step
    /\ phase = "step_end" => lastSaved < step /\ output.step < step
    /\ phase = "evaluate" /\ tracker.best # NoLoss => output.step < step

\* The tracker remembers the evaluation it names.
LastIsMeasured ==
    tracker.last # NoLoss =>
        tracker.lastStep \in 1 .. MaxSteps /\ loss[tracker.lastStep] = tracker.last

\* Until the handler's ending the output is the checkpoint the tracker calls the
\* best, unless a save landed that had reported an error.
BestIsOutput ==
    /\ tracker.best # NoLoss => tracker.bestStep > 0
    /\ tracker.best # NoLoss /\ ~saveErrors.landed /\ phase \notin {"raised", "done"} =>
         output.step = tracker.bestStep

\* Without a best and without errors every cadence step so far was saved.
Cadence ==
    tracker.best = NoLoss /\ NoSaveError =>
        /\ phase \in {"train", "step_end", "evaluate", "step_done"} =>
             output.step % SaveEvery = 0
        /\ phase \in {"train", "evaluate", "step_done"} => step - output.step < SaveEvery
        /\ phase = "step_end" => step - output.step <= SaveEvery

Inv ==
    /\ Moments /\ LastIsMeasured /\ BestIsOutput /\ Cadence
    /\ BestIsVisible /\ PersistedIsMinimum /\ TruthNamesWeights /\ CadenceOnly

-----------------------------------------------------------------------------
\* Arithmetic of the cadence.

LEMMA Division ==
    ASSUME NEW n \in Nat \ {0}, NEW a \in Nat
    PROVE  /\ a \div n \in Nat /\ a % n \in Nat /\ a % n < n
           /\ a = n * (a \div n) + (a % n)
  OBVIOUS

LEMMA ZeroIsMultiple == ASSUME NEW n \in Nat \ {0} PROVE 0 % n = 0
  OBVIOUS

\* One period after a multiple of the period is the next one.
LEMMA NextMultiple ==
    ASSUME NEW n \in Nat \ {0}, NEW a \in Nat, a % n = 0 PROVE (a + n) % n = 0
  <1> DEFINE p == a \div n
             q == (a + n) \div n
             r == (a + n) % n
  <1>1. p \in Nat /\ a = n * p BY Division
  <1>2. q \in Nat /\ r \in Nat /\ r < n /\ a + n = n * q + r BY Division
  <1> HIDE DEF p, q, r
  <1>3. CASE q <= p
    <2>1. n * q <= n * p BY <1>1, <1>2, <1>3
    <2>2. QED BY <1>1, <1>2, <2>1
  <1>4. CASE q >= p + 2
    <2>1. n * q >= n * (p + 2) BY <1>1, <1>2, <1>4
    <2>2. n * (p + 2) = n * p + n + n BY <1>1
    <2>3. n * q \in Nat /\ n * p \in Nat BY <1>1, <1>2
    <2>4. QED BY <1>1, <1>2, <2>1, <2>2, <2>3
  <1>5. CASE q = p + 1
    <2>1. n * q = n * p + n BY <1>1, <1>5
    <2>2. n * q \in Nat /\ n * p \in Nat BY <1>1, <1>2
    <2>3. r = 0 BY <1>1, <1>2, <2>1, <2>2
    <2>4. QED BY <2>3 DEF r
  <1>6. QED BY <1>1, <1>2, <1>3, <1>4, <1>5

-----------------------------------------------------------------------------
\* What a save and a label do.

LEMMA ArtifactType ==
    ASSUME NEW s \in 0 .. MaxSteps, NEW label \in Labels
    PROVE  /\ Artifact(s, label) \in Output
           /\ Artifact(s, label).step = s /\ Artifact(s, label).present
           /\ Artifact(s, label).label \in {label, "none"}
           /\ Labelled => /\ Artifact(s, label).label = label
                          /\ Artifact(s, label).labelStep = s
  BY BestCheckpointAssumption DEF Artifact, Output, Labels

LEMMA TruthType ==
    ASSUME NEW s \in 0 .. MaxSteps
    PROVE  /\ TruthOf(s) \in Labels
           /\ TruthOf(s) = "FLOOR" <=> s = 0
           /\ TruthOf(s) = "COMPLETE" => s = MaxSteps
  BY BestCheckpointAssumption DEF TruthOf, Labels

\* A save leaves its artifact, or the one that was there; only one that landed
\* although it raised is both new and an error.
LEMMA SaveResult ==
    ASSUME TypeOK, NEW o, NEW a \in Output, Save(o, a)
    PROVE  /\ o \in SaveOutcomes
           /\ output' \in Output
           /\ saveErrors' \in [count : 0 .. MaxSaveErrors, landed : BOOLEAN]
           /\ o = "ok" => output' = a /\ saveErrors' = saveErrors
           /\ o # "ok" => saveErrors'.count # 0
           /\ saveErrors.landed => saveErrors'.landed
           /\ saveErrors'.count = 0 => saveErrors.count = 0
           /\ \/ output' = a /\ (o = "ok" \/ saveErrors'.landed)
              \/ /\ o # "ok" /\ saveErrors'.landed = saveErrors.landed
                 /\ output'.step = output.step /\ output'.label = output.label
                 /\ output'.labelStep = output.labelStep
  <1>1. o \in {"ok", "clean", "late", "hidden"}
    BY BestCheckpointAssumption DEF Save
  <1>2. CASE o = "ok"
    BY <1>1, <1>2 DEF Save, TypeOK
  <1>3. CASE o = "late"
    <2>1. /\ saveErrors.count < MaxSaveErrors
          /\ saveErrors' = [count |-> saveErrors.count + 1, landed |-> TRUE]
      BY <1>3 DEF Save, CountError
    <2>2. saveErrors.count \in 0 .. MaxSaveErrors BY DEF TypeOK
    <2>3. /\ saveErrors' \in [count : 0 .. MaxSaveErrors, landed : BOOLEAN]
          /\ saveErrors'.count # 0 /\ saveErrors'.landed
      BY <2>1, <2>2, BestCheckpointAssumption
    <2>4. QED BY <1>3, <2>3 DEF Save
  <1>4. CASE o \in {"clean", "hidden"}
    <2>1. /\ saveErrors.count < MaxSaveErrors
          /\ saveErrors' = [count |-> saveErrors.count + 1, landed |-> saveErrors.landed]
      BY <1>4 DEF Save, CountError, TypeOK
    <2>2. saveErrors.count \in 0 .. MaxSaveErrors /\ saveErrors.landed \in BOOLEAN
      BY DEF TypeOK
    <2>3. /\ saveErrors' \in [count : 0 .. MaxSaveErrors, landed : BOOLEAN]
          /\ saveErrors'.count # 0 /\ saveErrors'.landed = saveErrors.landed
      BY <2>1, <2>2, BestCheckpointAssumption
    <2>4. /\ output' \in Output /\ output'.step = output.step
          /\ output'.label = output.label /\ output'.labelStep = output.labelStep
      BY <1>4 DEF Save, TypeOK, Output
    <2>5. QED BY <1>4, <2>3, <2>4 DEF Save
  <1>5. QED BY <1>1, <1>2, <1>3, <1>4

\* A label changes only the label.
LEMMA RelabelResult ==
    ASSUME TypeOK, NEW label \in Labels, NEW s \in 0 .. MaxSteps, Relabel(label, s)
    PROVE  /\ output' \in Output
           /\ saveErrors' \in [count : 0 .. MaxSaveErrors, landed : BOOLEAN]
           /\ output'.step = output.step
           /\ saveErrors'.landed = saveErrors.landed
           /\ saveErrors'.count = 0 => saveErrors.count = 0
           /\ \/ output'.label = label /\ output'.labelStep = s
              \/ output'.label = output.label /\ output'.labelStep = output.labelStep
  <1>1. CASE UNCHANGED saveErrors /\ output.present
    BY <1>1 DEF Relabel, CountError, TypeOK, Output
  <1>2. CASE UNCHANGED saveErrors /\ ~output.present
    BY <1>2 DEF Relabel, CountError, TypeOK
  <1>3. CASE CountError(FALSE) /\ UNCHANGED output
    <2>1. /\ saveErrors.count \in 0 .. MaxSaveErrors /\ saveErrors.landed \in BOOLEAN
          /\ saveErrors.count < MaxSaveErrors
          /\ saveErrors' = [count |-> saveErrors.count + 1, landed |-> saveErrors.landed]
      BY <1>3 DEF CountError, TypeOK
    <2>2. /\ saveErrors' \in [count : 0 .. MaxSaveErrors, landed : BOOLEAN]
          /\ saveErrors'.landed = saveErrors.landed /\ saveErrors'.count # 0
      BY <2>1, BestCheckpointAssumption
    <2>3. QED BY <1>3, <2>2 DEF TypeOK
  <1>4. QED BY <1>1, <1>2, <1>3 DEF Relabel

-----------------------------------------------------------------------------
\* Type correctness.

LEMMA InitType == Init => TypeOK
  <1>1. Artifact(0, "FLOOR") \in Output
    BY ArtifactType, BestCheckpointAssumption DEF Labels
  <1>2. SUFFICES ASSUME Init PROVE TypeOK OBVIOUS
  <1>3. handler \in Handlers /\ evaluates \in BOOLEAN BY <1>2 DEF Init
  <1>4. 0 \in 0 .. MaxSteps /\ 0 \in 0 .. MaxSaveErrors BY BestCheckpointAssumption
  <1>5. tracker \in Tracker BY <1>2, <1>4 DEF Init, Tracker
  <1>6. saveErrors \in [count : 0 .. MaxSaveErrors, landed : BOOLEAN]
    BY <1>2, <1>4 DEF Init
  <1>7. loss \in [1 .. MaxSteps -> Losses \cup {NoLoss}] BY <1>2 DEF Init
  <1>8. QED BY <1>1, <1>2, <1>3, <1>4, <1>5, <1>6, <1>7 DEF Init, TypeOK

LEMMA StepType == TypeOK /\ Moments /\ [Next]_vars => TypeOK'
  <1>1. SUFFICES ASSUME TypeOK, Moments, [Next]_vars PROVE TypeOK' OBVIOUS
  <1> USE DEF TypeOK
  <1>OptimizerStep. CASE OptimizerStep
    BY <1>1, <1>OptimizerStep, BestCheckpointAssumption DEF OptimizerStep, Fixed
  <1>StepEnd. CASE StepEnd
    <2>1. phase' \in {"evaluate", "step_done"} BY <1>StepEnd DEF StepEnd, AfterStep
    <2>2. /\ output' \in Output
          /\ saveErrors' \in [count : 0 .. MaxSaveErrors, landed : BOOLEAN]
          /\ lastSaved' \in 0 .. MaxSteps
      <3>1. CASE SaveDue
        BY <1>1, <1>StepEnd, <3>1, SaveResult, ArtifactType, TruthType
           DEF StepEnd, Labels
      <3>2. CASE ~SaveDue BY <1>1, <1>StepEnd, <3>2 DEF StepEnd
      <3>3. QED BY <3>1, <3>2
    <2>3. QED BY <1>1, <1>StepEnd, <2>1, <2>2 DEF StepEnd, Fixed
  <1>EvaluateRejected. CASE EvaluateRejected
    BY <1>1, <1>EvaluateRejected DEF EvaluateRejected, Fixed
  <1>Evaluate. CASE Evaluate
    <2>1. PICK l \in Losses :
            LET seen == [tracker EXCEPT !.last = l, !.lastStep = step,
                           !.observed = IF Smaller(l, @) THEN l ELSE @]
            IN /\ loss' = [loss EXCEPT ![step] = l]
               /\ IF ExportDue(l)
                  THEN \E o \in SaveOutcomes :
                         /\ Save(o, Artifact(step, "PARTIAL"))
                         /\ tracker' = IF o = "ok"
                                       THEN [seen EXCEPT !.best = l, !.bestStep = step]
                                       ELSE seen
                         /\ refused' = IF o = "ok" THEN refused ELSE refused \cup {step}
                  ELSE tracker' = seen /\ UNCHANGED <<output, saveErrors, refused>>
      BY <1>Evaluate DEF Evaluate
    <2>2. step \in 1 .. MaxSteps BY <1>1, <1>Evaluate DEF Evaluate, Moments
    <2>3. loss' \in [1 .. MaxSteps -> Losses \cup {NoLoss}] BY <1>1, <2>1, <2>2
    <2>4. tracker' \in Tracker BY <1>1, <2>1, <2>2 DEF Tracker
    <2>5. /\ output' \in Output /\ refused' \subseteq 1 .. MaxSteps
          /\ saveErrors' \in [count : 0 .. MaxSaveErrors, landed : BOOLEAN]
      <3>1. CASE ExportDue(l)
        BY <1>1, <2>1, <2>2, <3>1, SaveResult, ArtifactType DEF Labels
      <3>2. CASE ~ExportDue(l) BY <1>1, <2>1, <3>2
      <3>3. QED BY <3>1, <3>2
    <2>6. QED BY <1>1, <1>Evaluate, <2>3, <2>4, <2>5 DEF Evaluate, Fixed
  <1>StepDone. CASE StepDone
    BY <1>1, <1>StepDone DEF StepDone, Fixed
  <1>StopInsideStep. CASE StopInsideStep
    BY <1>1, <1>StopInsideStep DEF StopInsideStep, Fixed
  <1>TrainingRaises. CASE TrainingRaises
    BY <1>1, <1>TrainingRaises DEF TrainingRaises, Fixed
  <1>RetryFromScratch. CASE RetryFromScratch
    BY <1>1, <1>RetryFromScratch DEF RetryFromScratch, Fixed
  <1>LadderExhausted. CASE LadderExhausted
    <2>1. /\ output' \in Output
          /\ saveErrors' \in [count : 0 .. MaxSaveErrors, landed : BOOLEAN]
      BY <1>1, <1>LadderExhausted, RelabelResult, BestCheckpointAssumption
         DEF LadderExhausted, Labels
    <2>2. QED BY <1>1, <1>LadderExhausted, <2>1 DEF LadderExhausted, Fixed
  <1>PreserveProgress. CASE PreserveProgress
    <2>1. tracker.bestStep \in 0 .. MaxSteps BY <1>1 DEF Tracker
    <2>2. /\ output' \in Output
          /\ saveErrors' \in [count : 0 .. MaxSaveErrors, landed : BOOLEAN]
      <3>1. CASE tracker.best # NoLoss
        BY <1>1, <1>PreserveProgress, <2>1, <3>1, RelabelResult
           DEF PreserveProgress, Labels
      <3>2. CASE tracker.best = NoLoss
        BY <1>1, <1>PreserveProgress, <3>2, SaveResult, ArtifactType
           DEF PreserveProgress, Labels
      <3>3. QED BY <3>1, <3>2
    <2>3. QED BY <1>1, <1>PreserveProgress, <2>2 DEF PreserveProgress, Fixed
  <1>OomPropagates. CASE OomPropagates
    BY <1>1, <1>OomPropagates DEF OomPropagates, Fixed
  <1>Fallback. CASE Fallback
    <2>1. output' \in Output BY <1>1, <1>Fallback DEF Fallback, Output
    <2>2. QED BY <1>1, <1>Fallback, <2>1 DEF Fallback, Fixed
  <1>FinalSave. CASE FinalSave
    <2>1. /\ output' \in Output /\ phase' \in {"done", "raised"}
          /\ saveErrors' \in [count : 0 .. MaxSaveErrors, landed : BOOLEAN]
      BY <1>1, <1>FinalSave, SaveResult, ArtifactType, TruthType DEF FinalSave
    <2>2. QED BY <1>1, <1>FinalSave, <2>1 DEF FinalSave, Fixed
  <1>NoProgress. CASE NoProgress
    <2>1. /\ output' \in Output
          /\ saveErrors' \in [count : 0 .. MaxSaveErrors, landed : BOOLEAN]
      BY <1>1, <1>NoProgress, RelabelResult, BestCheckpointAssumption
         DEF NoProgress, Labels
    <2>2. QED BY <1>1, <1>NoProgress, <2>1 DEF NoProgress, Fixed
  <1>RetainBest. CASE RetainBest
    <2>1. tracker.bestStep \in 0 .. MaxSteps BY <1>1 DEF Tracker
    <2>2. /\ output' \in Output
          /\ saveErrors' \in [count : 0 .. MaxSaveErrors, landed : BOOLEAN]
      <3>1. CASE handler = "instruct"
        BY <1>1, <1>RetainBest, <2>1, <3>1, RelabelResult, TruthType
           DEF RetainBest, RetainedStep
      <3>2. CASE handler # "instruct" BY <1>1, <1>RetainBest, <3>2 DEF RetainBest
      <3>3. QED BY <3>1, <3>2
    <2>3. QED BY <1>1, <1>RetainBest, <2>2 DEF RetainBest, Fixed
  <1>KeepCadence. CASE KeepCadence
    BY <1>1, <1>KeepCadence DEF KeepCadence, Fixed
  <1>Stutter. CASE Terminated \/ UNCHANGED vars
    BY <1>1, <1>Stutter DEF Terminated, vars
  <1>2. QED
    BY <1>1, <1>OptimizerStep, <1>StepEnd, <1>EvaluateRejected, <1>Evaluate,
       <1>StepDone, <1>StopInsideStep, <1>TrainingRaises, <1>RetryFromScratch,
       <1>LadderExhausted, <1>PreserveProgress, <1>OomPropagates, <1>Fallback,
       <1>FinalSave, <1>NoProgress, <1>RetainBest, <1>KeepCadence, <1>Stutter
       DEF Next

-----------------------------------------------------------------------------
\* The steps by what they do to the output and the tracker.

\* The weights and the label at the output stay.
Kept ==
    /\ output'.step = output.step /\ output'.label = output.label
    /\ output'.labelStep = output.labelStep

\* The output becomes the model of step s.
Written(s, label) ==
    /\ output'.step = s
    /\ Labelled => output'.label = label /\ output'.labelStep = s

\* Nothing moves but the phase and the request to stop.
Still ==
    /\ UNCHANGED <<handler, evaluates, step, tracker, lastSaved, output, loss, refused,
                   saveErrors>>
    /\ \/ UNCHANGED phase
       \/ phase = "evaluate" /\ phase' = "step_done"
       \/ phase = "step_done" /\ phase' \in {"returned", "train"}
       \/ phase = "train" /\ phase' = "returned"
       \/ phase \in {"train", "evaluate"} /\ phase' \in {"oom", "raised"}
       \/ phase = "oom" /\ step = 0 /\ phase' = "train"
       \/ phase = "oom" /\ phase' = "raised"
       \/ phase = "returned" /\ phase' = "done"

Advanced ==
    /\ phase = "train" /\ phase' = "step_end" /\ step < MaxSteps /\ step' = step + 1
    /\ UNCHANGED <<handler, evaluates, tracker, lastSaved, output, loss, refused,
                   saveErrors>>

\* The mirror, or BloomZ's cadence, saves the present step when it is due.
Mirrored ==
    /\ phase = "step_end" /\ phase' \in {"evaluate", "step_done"}
    /\ phase' = "evaluate" => evaluates
    /\ UNCHANGED <<handler, evaluates, step, tracker, loss, refused>>
    /\ lastSaved' \in {lastSaved, step}
    /\ saveErrors.landed => saveErrors'.landed
    /\ saveErrors'.count = 0 => saveErrors.count = 0
    /\ \/ SaveDue /\ Written(step, IF handler = "bloomz" THEN TruthOf(step) ELSE "PARTIAL")
       \/ /\ Kept /\ saveErrors'.landed = saveErrors.landed
          /\ SaveDue => saveErrors'.count # 0

\* A loss is remembered, and the checkpoint exported, refused by an error, or
\* not due.
Evaluated(l) ==
    /\ loss' = [loss EXCEPT ![step] = l]
    /\ tracker'.last = l /\ tracker'.lastStep = step
    /\ \/ /\ ExportDue(l)
          /\ tracker'.best = l /\ tracker'.bestStep = step /\ refused' = refused
          /\ Written(step, "PARTIAL") /\ saveErrors' = saveErrors
       \/ /\ ExportDue(l)
          /\ tracker'.best = tracker.best /\ tracker'.bestStep = tracker.bestStep
          /\ refused' = refused \cup {step} /\ saveErrors'.count # 0
          /\ saveErrors.landed => saveErrors'.landed
          /\ \/ Written(step, "PARTIAL") /\ saveErrors'.landed
             \/ Kept /\ saveErrors'.landed = saveErrors.landed
       \/ /\ ~ExportDue(l)
          /\ tracker'.best = tracker.best /\ tracker'.bestStep = tracker.bestStep
          /\ UNCHANGED <<output, saveErrors, refused>>

Evaluation ==
    /\ phase = "evaluate" /\ phase' = "step_done" /\ step \in 1 .. MaxSteps
    /\ UNCHANGED <<handler, evaluates, step, lastSaved>>
    /\ \E l \in Losses : Evaluated(l)

\* An ending that leaves the weights: the CLI's repair, and the three labels.
Retained ==
    /\ phase \in {"oom", "raised", "returned"} /\ phase' = "done"
    /\ UNCHANGED <<handler, evaluates, step, tracker, lastSaved, loss, refused>>
    /\ saveErrors'.landed = saveErrors.landed
    /\ output'.step = output.step
    /\ \/ Kept
       \/ step = 0 /\ output'.label = "FLOOR" /\ output'.labelStep = 0
       \/ /\ phase # "raised" /\ step > 0 /\ tracker.best # NoLoss
          /\ handler = "instruct"
          /\ output'.label \in {"PARTIAL", "COMPLETE"}
          /\ output'.label = "COMPLETE" => step = MaxSteps
          /\ output'.labelStep = tracker.bestStep

\* An ending that publishes the present step.
Published ==
    /\ phase \in {"oom", "returned"} /\ phase' \in {"done", "raised"}
    /\ UNCHANGED <<handler, evaluates, step, tracker, lastSaved, loss, refused>>
    /\ saveErrors.landed => saveErrors'.landed
    /\ ShouldFinalSave \/ ~evaluates
    /\ handler = "bloomz" => step = MaxSteps
    /\ \/ Written(step, TruthOf(step))
       \/ step > 0 /\ Written(step, "PARTIAL")
       \/ Kept /\ saveErrors'.landed = saveErrors.landed

LEMMA StepEndIsMirrored == ASSUME TypeOK, Moments, StepEnd PROVE Mirrored
  <1>1. /\ phase = "step_end" /\ phase' \in {"evaluate", "step_done"}
        /\ phase' = "evaluate" => evaluates
        /\ UNCHANGED <<handler, evaluates, step, tracker, loss, refused>>
    BY DEF StepEnd, Fixed, AfterStep
  <1>2. step \in 0 .. MaxSteps BY DEF TypeOK
  <1>3. CASE ~SaveDue BY <1>1, <1>3 DEF StepEnd, Mirrored, Kept
  <1>4. CASE SaveDue
    <2> DEFINE label == IF handler = "bloomz" THEN TruthOf(step) ELSE "PARTIAL"
    <2>1. PICK o \in SaveOutcomes :
            /\ Save(o, Artifact(step, label))
            /\ lastSaved' = IF handler = "bloomz" /\ o = "ok" THEN step ELSE lastSaved
      BY <1>4 DEF StepEnd
    <2>2. label \in Labels BY <1>2, TruthType DEF Labels
    <2>3. lastSaved' \in {lastSaved, step} BY <2>1
    <2> HIDE DEF label
    <2>4. /\ Artifact(step, label) \in Output /\ Artifact(step, label).step = step
          /\ Labelled => /\ Artifact(step, label).label = label
                         /\ Artifact(step, label).labelStep = step
      BY <1>2, <2>2, ArtifactType
    <2>5. /\ saveErrors.landed => saveErrors'.landed
          /\ saveErrors'.count = 0 => saveErrors.count = 0
          /\ \/ Written(step, label)
             \/ /\ Kept /\ saveErrors'.landed = saveErrors.landed
                /\ saveErrors'.count # 0
      BY <2>1, <2>4, SaveResult DEF Written, Kept
    <2>6. QED BY <1>1, <1>4, <2>3, <2>5 DEF Mirrored, label
  <1>5. QED BY <1>3, <1>4

LEMMA EvaluateIsEvaluation == ASSUME TypeOK, Moments, Evaluate PROVE Evaluation
  <1>1. PICK l \in Losses :
          LET seen == [tracker EXCEPT !.last = l, !.lastStep = step,
                         !.observed = IF Smaller(l, @) THEN l ELSE @]
          IN /\ loss' = [loss EXCEPT ![step] = l]
             /\ IF ExportDue(l)
                THEN \E o \in SaveOutcomes :
                       /\ Save(o, Artifact(step, "PARTIAL"))
                       /\ tracker' = IF o = "ok"
                                     THEN [seen EXCEPT !.best = l, !.bestStep = step]
                                     ELSE seen
                       /\ refused' = IF o = "ok" THEN refused ELSE refused \cup {step}
                ELSE tracker' = seen /\ UNCHANGED <<output, saveErrors, refused>>
    BY DEF Evaluate
  <1>2. /\ phase = "evaluate" /\ phase' = "step_done" /\ step \in 1 .. MaxSteps
        /\ UNCHANGED <<handler, evaluates, step, lastSaved>>
    BY DEF Evaluate, Fixed, Moments, TypeOK
  <1>3. tracker \in Tracker BY DEF TypeOK
  <1>4. /\ Artifact(step, "PARTIAL") \in Output
        /\ Artifact(step, "PARTIAL").step = step
        /\ Labelled => /\ Artifact(step, "PARTIAL").label = "PARTIAL"
                       /\ Artifact(step, "PARTIAL").labelStep = step
    BY <1>2, ArtifactType DEF Labels
  <1>5. ASSUME ~ExportDue(l) PROVE Evaluated(l)
    BY <1>1, <1>3, <1>5 DEF Evaluated, Tracker
  <1>6. ASSUME ExportDue(l) PROVE Evaluated(l)
    <2>1. PICK o \in SaveOutcomes :
            /\ Save(o, Artifact(step, "PARTIAL"))
            /\ LET seen == [tracker EXCEPT !.last = l, !.lastStep = step,
                              !.observed = IF Smaller(l, @) THEN l ELSE @]
               IN tracker' = IF o = "ok"
                             THEN [seen EXCEPT !.best = l, !.bestStep = step]
                             ELSE seen
            /\ refused' = IF o = "ok" THEN refused ELSE refused \cup {step}
      BY <1>1, <1>6
    <2>2. CASE o = "ok"
      <3>1. Written(step, "PARTIAL") /\ saveErrors' = saveErrors
        BY <1>4, <2>1, <2>2, SaveResult DEF Written
      <3>2. QED BY <1>1, <1>3, <1>6, <2>1, <2>2, <3>1 DEF Evaluated, Tracker
    <2>3. CASE o # "ok"
      <3>1. /\ saveErrors'.count # 0
            /\ saveErrors.landed => saveErrors'.landed
            /\ \/ Written(step, "PARTIAL") /\ saveErrors'.landed
               \/ Kept /\ saveErrors'.landed = saveErrors.landed
        BY <1>4, <2>1, <2>3, SaveResult DEF Written, Kept
      <3>2. QED BY <1>1, <1>3, <1>6, <2>1, <2>3, <3>1 DEF Evaluated, Tracker
    <2>4. QED BY <2>2, <2>3
  <1>7. QED BY <1>2, <1>5, <1>6 DEF Evaluation

LEMMA EndingIsRetained ==
    ASSUME TypeOK, Moments,
           \/ Fallback \/ LadderExhausted \/ NoProgress \/ RetainBest
           \/ PreserveProgress /\ tracker.best # NoLoss
    PROVE  Retained
  <1>1. tracker.bestStep \in 0 .. MaxSteps BY DEF TypeOK, Tracker
  <1>2. CASE Fallback BY <1>2 DEF Fallback, Fixed, Retained, Kept, TypeOK, Output
  <1>3. CASE LadderExhausted
    BY <1>3, RelabelResult, BestCheckpointAssumption
       DEF LadderExhausted, Labels, Fixed, Retained, Kept
  <1>4. CASE NoProgress
    BY <1>4, RelabelResult, BestCheckpointAssumption
       DEF NoProgress, Labels, Fixed, Retained, Kept
  <1>5. CASE RetainBest
    <2>1. tracker.best # NoLoss /\ step \in 0 .. MaxSteps /\ step > 0
      BY <1>5 DEF RetainBest, ShouldFinalSave, TypeOK
    <2>2. TruthOf(step) \in {"PARTIAL", "COMPLETE"}
      BY <2>1 DEF TruthOf
    <2>3. CASE handler = "instruct"
      BY <1>1, <1>5, <2>1, <2>2, <2>3, RelabelResult, TruthType
         DEF RetainBest, RetainedStep, Fixed, Retained, Kept
    <2>4. CASE handler # "instruct" BY <1>5, <2>4 DEF RetainBest, Fixed, Retained, Kept
    <2>5. QED BY <2>3, <2>4
  <1>6. CASE PreserveProgress /\ tracker.best # NoLoss
    BY <1>1, <1>6, RelabelResult DEF PreserveProgress, Labels, Fixed, Retained, Kept
  <1>7. QED BY <1>2, <1>3, <1>4, <1>5, <1>6

LEMMA EndingIsPublished ==
    ASSUME TypeOK, Moments,
           FinalSave \/ (PreserveProgress /\ tracker.best = NoLoss)
    PROVE  Published
  <1>1. step \in 0 .. MaxSteps /\ handler \in {"instruct", "bloomz", "dpo", "grpo"}
    BY BestCheckpointAssumption DEF TypeOK
  <1>2. CASE FinalSave
    <2>1. PICK o \in SaveOutcomes :
            /\ Save(o, Artifact(step, TruthOf(step)))
            /\ phase' = IF o = "ok" THEN "done" ELSE "raised"
      BY <1>2 DEF FinalSave
    <2>2. /\ Artifact(step, TruthOf(step)) \in Output
          /\ Artifact(step, TruthOf(step)).step = step
          /\ Labelled => /\ Artifact(step, TruthOf(step)).label = TruthOf(step)
                         /\ Artifact(step, TruthOf(step)).labelStep = step
      BY <1>1, ArtifactType, TruthType
    <2>3. /\ saveErrors.landed => saveErrors'.landed
          /\ \/ Written(step, TruthOf(step))
             \/ Kept /\ saveErrors'.landed = saveErrors.landed
      BY <2>1, <2>2, SaveResult DEF Written, Kept
    <2>4. /\ ShouldFinalSave \/ ~evaluates
          /\ handler = "bloomz" => step = MaxSteps
      BY <1>1, <1>2 DEF FinalSave, FinalSaveDue, Moments
    <2>5. QED BY <1>2, <2>1, <2>3, <2>4 DEF FinalSave, Fixed, Published
  <1>3. CASE PreserveProgress /\ tracker.best = NoLoss
    <2>1. /\ Artifact(step, "PARTIAL") \in Output
          /\ Artifact(step, "PARTIAL").step = step
          /\ Labelled => /\ Artifact(step, "PARTIAL").label = "PARTIAL"
                         /\ Artifact(step, "PARTIAL").labelStep = step
      BY <1>1, ArtifactType DEF Labels
    <2>2. /\ saveErrors.landed => saveErrors'.landed
          /\ \/ Written(step, "PARTIAL")
             \/ Kept /\ saveErrors'.landed = saveErrors.landed
      BY <1>3, <2>1, SaveResult DEF PreserveProgress, Written, Kept
    <2>3. QED BY <1>3, <2>2 DEF PreserveProgress, Fixed, ShouldFinalSave, Published
  <1>4. QED BY <1>2, <1>3

\* Every step is of one of the six kinds.
LEMMA StepKinds ==
    ASSUME TypeOK, Moments, [Next]_vars
    PROVE  Still \/ Advanced \/ Mirrored \/ Evaluation \/ Retained \/ Published
  <1>1. CASE \/ EvaluateRejected \/ StepDone \/ StopInsideStep \/ TrainingRaises
             \/ RetryFromScratch \/ OomPropagates \/ KeepCadence
    BY <1>1 DEF EvaluateRejected, StepDone, StopInsideStep, TrainingRaises,
       RetryFromScratch, OomPropagates, KeepCadence, Fixed, Still
  <1>2. CASE Terminated \/ UNCHANGED vars BY <1>2 DEF Terminated, vars, Still
  <1>3. CASE OptimizerStep BY <1>3 DEF OptimizerStep, Fixed, Advanced
  <1>4. CASE StepEnd BY <1>4, StepEndIsMirrored
  <1>5. CASE Evaluate BY <1>5, EvaluateIsEvaluation
  <1>6. CASE \/ Fallback \/ LadderExhausted \/ NoProgress \/ RetainBest
             \/ PreserveProgress /\ tracker.best # NoLoss
    BY <1>6, EndingIsRetained
  <1>7. CASE FinalSave \/ (PreserveProgress /\ tracker.best = NoLoss)
    BY <1>7, EndingIsPublished
  <1>8. QED BY <1>1, <1>2, <1>3, <1>4, <1>5, <1>6, <1>7 DEF Next

-----------------------------------------------------------------------------
\* Each part of the invariant is kept by each kind of step.

\* Every quantity of the model is a number.
LEMMA Numbers ==
    ASSUME TypeOK
    PROVE  /\ SaveEvery \in Nat \ {0} /\ Tolerance \in Nat /\ MaxSteps \in Nat
           /\ \A l \in Losses : l \in Nat /\ l # NoLoss
           /\ step \in Nat /\ lastSaved \in Nat /\ output.step \in 0 .. MaxSteps
           /\ tracker.best \in Nat /\ tracker.last \in Nat
           /\ \A s \in 1 .. MaxSteps : loss[s] \in Nat
  <1>1. tracker.best \in Losses \cup {NoLoss} /\ tracker.last \in Losses \cup {NoLoss}
    BY DEF TypeOK, Tracker
  <1>2. \A s \in 1 .. MaxSteps : loss[s] \in Losses \cup {NoLoss} BY DEF TypeOK
  <1>3. output.step \in 0 .. MaxSteps BY DEF TypeOK, Output
  <1>4. step \in Nat /\ lastSaved \in Nat BY BestCheckpointAssumption DEF TypeOK
  <1>5. \A l \in Losses : l \in Nat /\ l # NoLoss
    BY BestCheckpointAssumption DEF NoLoss
  <1>6. \A l \in Losses \cup {NoLoss} : l \in Nat BY <1>5 DEF NoLoss
  <1>7. SaveEvery \in Nat \ {0} /\ Tolerance \in Nat /\ MaxSteps \in Nat
    BY BestCheckpointAssumption
  <1>8. QED BY <1>1, <1>2, <1>3, <1>4, <1>5, <1>6, <1>7

LEMMA StepMoments ==
    ASSUME TypeOK, TypeOK', Moments, [Next]_vars
    PROVE  Moments'
  <1>1. Still \/ Advanced \/ Mirrored \/ Evaluation \/ Retained \/ Published
    BY StepKinds
  <1> USE BestCheckpointAssumption DEF Moments, TypeOK, Output
  <1>Still. CASE Still
    BY <1>Still DEF Still
  <1>Advanced. CASE Advanced
    BY <1>Advanced DEF Advanced
  <1>Mirrored. CASE Mirrored
    <2>1. /\ step > 0 /\ lastSaved' <= step /\ output'.step <= step /\ step' = step
          /\ handler' = handler /\ evaluates' = evaluates /\ tracker' = tracker
          /\ phase' \in {"evaluate", "step_done"}
          /\ phase' = "evaluate" => evaluates
      BY <1>Mirrored DEF Mirrored, Written, Kept
    <2>2. SaveDue => tracker.best = NoLoss BY DEF SaveDue
    <2>3. ASSUME tracker'.best # NoLoss PROVE output'.step < step
      BY <1>Mirrored, <2>1, <2>2, <2>3 DEF Mirrored, Kept
    <2>4. QED BY <2>1, <2>3
  <1>Evaluation. CASE Evaluation
    BY <1>Evaluation DEF Evaluation, Evaluated, Written, Kept
  <1>Retained. CASE Retained
    BY <1>Retained DEF Retained, Kept
  <1>Published. CASE Published
    BY <1>Published DEF Published, Written, Kept, ShouldFinalSave
  <1>2. QED
    BY <1>1, <1>Still, <1>Advanced, <1>Mirrored, <1>Evaluation, <1>Retained,
       <1>Published

LEMMA StepMeasured ==
    ASSUME TypeOK, TypeOK', Moments, LastIsMeasured, [Next]_vars
    PROVE  LastIsMeasured'
  <1>1. Still \/ Advanced \/ Mirrored \/ Evaluation \/ Retained \/ Published
    BY StepKinds
  <1> USE DEF LastIsMeasured, TypeOK
  <1>Still. CASE Still
    BY <1>Still DEF Still
  <1>Advanced. CASE Advanced
    BY <1>Advanced DEF Advanced
  <1>Mirrored. CASE Mirrored
    BY <1>Mirrored DEF Mirrored, Written, Kept, SaveDue
  <1>Evaluation. CASE Evaluation
    <2>1. PICK l \in Losses : Evaluated(l) BY <1>Evaluation DEF Evaluation
    <2>2. step \in 1 .. MaxSteps BY <1>Evaluation DEF Evaluation
    <2>3. loss'[step] = l /\ tracker'.last = l /\ tracker'.lastStep = step
      BY <2>1, <2>2 DEF Evaluated
    <2>4. QED BY <2>2, <2>3
  <1>Retained. CASE Retained
    BY <1>Retained DEF Retained, Kept
  <1>Published. CASE Published
    BY <1>Published DEF Published, Written, Kept, ShouldFinalSave
  <1>2. QED
    BY <1>1, <1>Still, <1>Advanced, <1>Mirrored, <1>Evaluation, <1>Retained,
       <1>Published

LEMMA StepOutput ==
    ASSUME TypeOK, TypeOK', Moments, BestIsOutput, [Next]_vars
    PROVE  BestIsOutput'
  <1>1. Still \/ Advanced \/ Mirrored \/ Evaluation \/ Retained \/ Published
    BY StepKinds
  <1> USE DEF BestIsOutput, TypeOK
  <1>Still. CASE Still
    BY <1>Still DEF Still
  <1>Advanced. CASE Advanced
    BY <1>Advanced DEF Advanced
  <1>Mirrored. CASE Mirrored
    <2>1. SaveDue => tracker.best = NoLoss BY DEF SaveDue, Moments
    <2>2. tracker' = tracker BY <1>Mirrored DEF Mirrored
    <2>3. CASE tracker.best = NoLoss BY <2>2, <2>3
    <2>4. CASE tracker.best # NoLoss
      BY <1>Mirrored, <2>1, <2>2, <2>4 DEF Mirrored, Kept
    <2>5. QED BY <2>3, <2>4
  <1>Evaluation. CASE Evaluation
    <2>1. PICK l \in Losses : Evaluated(l) BY <1>Evaluation DEF Evaluation
    <2>2. step \in 1 .. MaxSteps /\ phase = "evaluate"
      BY <1>Evaluation DEF Evaluation
    <2>3. CASE tracker'.bestStep = step /\ Written(step, "PARTIAL")
      BY <2>2, <2>3 DEF Written
    <2>4. CASE /\ tracker'.best = tracker.best /\ tracker'.bestStep = tracker.bestStep
               /\ saveErrors'.landed
      BY <2>4
    <2>5. CASE /\ tracker'.best = tracker.best /\ tracker'.bestStep = tracker.bestStep
               /\ saveErrors'.landed = saveErrors.landed /\ output'.step = output.step
      BY <2>2, <2>5
    <2>6. QED BY <2>1, <2>3, <2>4, <2>5 DEF Evaluated, Kept
  <1>Retained. CASE Retained
    BY <1>Retained DEF Retained, Kept
  <1>Published. CASE Published
    BY <1>Published DEF Published, Written, Kept, ShouldFinalSave
  <1>2. QED
    BY <1>1, <1>Still, <1>Advanced, <1>Mirrored, <1>Evaluation, <1>Retained,
       <1>Published

LEMMA StepVisible ==
    ASSUME TypeOK, TypeOK', Moments, LastIsMeasured, BestIsVisible, [Next]_vars
    PROVE  BestIsVisible'
  <1>1. Still \/ Advanced \/ Mirrored \/ Evaluation \/ Retained \/ Published
    BY StepKinds
  <1>2. CASE UNCHANGED <<tracker, loss>> /\ output'.step = output.step
    BY <1>2 DEF BestIsVisible
  <1>Mirrored. CASE Mirrored
    <2>1. UNCHANGED <<tracker, loss>> BY <1>Mirrored DEF Mirrored
    <2>2. CASE tracker.best = NoLoss BY <2>1, <2>2 DEF BestIsVisible
    <2>3. CASE tracker.best # NoLoss
      <3>1. ~SaveDue BY <2>3 DEF SaveDue, Moments
      <3>2. output'.step = output.step BY <1>Mirrored, <3>1 DEF Mirrored, Kept
      <3>3. QED BY <1>2, <2>1, <3>2
    <2>4. QED BY <2>2, <2>3
  <1>Evaluation. CASE Evaluation
    <2>1. PICK l \in Losses : Evaluated(l) BY <1>Evaluation DEF Evaluation
    <2>2. step \in 1 .. MaxSteps /\ l \in Nat /\ l # NoLoss /\ step > 0
      BY <1>Evaluation, Numbers DEF Evaluation
    <2>3. loss' = [loss EXCEPT ![step] = l] /\ loss'[step] = l
      BY <2>1, <2>2 DEF Evaluated, TypeOK
    <2>4. CASE tracker'.best = l /\ output'.step = step
      BY <2>2, <2>3, <2>4, Numbers DEF BestIsVisible
    <2>5. CASE ExportDue(l) /\ tracker'.best = tracker.best /\ output'.step = step
      <3>1. tracker.best # NoLoss => l <= tracker.best + Tolerance
        BY <2>2, <2>5, Numbers DEF ExportDue, Smaller
      <3>2. QED BY <2>2, <2>3, <2>5, <3>1 DEF BestIsVisible
    <2>6. CASE tracker'.best = tracker.best /\ output'.step = output.step
      <3>1. tracker.best # NoLoss => output.step \in 1 .. MaxSteps /\ output.step # step
        BY <1>Evaluation, Numbers DEF Evaluation, Moments, BestIsVisible
      <3>2. tracker.best # NoLoss => loss'[output.step] = loss[output.step]
        BY <2>3, <3>1 DEF TypeOK
      <3>3. QED BY <2>6, <3>1, <3>2 DEF BestIsVisible
    <2>7. QED BY <2>1, <2>4, <2>5, <2>6 DEF Evaluated, Kept, Written
  <1>Published. CASE Published
    <2>1. UNCHANGED <<tracker, loss, step>> BY <1>Published DEF Published
    <2>2. CASE output'.step = output.step BY <1>2, <2>1, <2>2
    <2>3. CASE output'.step = step /\ tracker.best # NoLoss
      <3>1. /\ tracker.lastStep = step /\ tracker.last # NoLoss
            /\ tracker.last <= tracker.best + Tolerance
        BY <1>Published, <2>3 DEF Published, ShouldFinalSave, Moments
      <3>2. step \in 1 .. MaxSteps /\ loss[step] = tracker.last
        BY <3>1 DEF LastIsMeasured
      <3>3. QED BY <2>1, <2>3, <3>1, <3>2 DEF BestIsVisible
    <2>4. CASE tracker.best = NoLoss BY <2>1, <2>4 DEF BestIsVisible
    <2>5. QED BY <1>Published, <2>2, <2>3, <2>4 DEF Published, Written, Kept
  <1>3. QED
    BY <1>1, <1>2, <1>Mirrored, <1>Evaluation, <1>Published
       DEF Still, Advanced, Retained

LEMMA StepMinimum ==
    ASSUME TypeOK, TypeOK', Moments, PersistedIsMinimum, [Next]_vars
    PROVE  PersistedIsMinimum'
  <1>1. Still \/ Advanced \/ Mirrored \/ Evaluation \/ Retained \/ Published
    BY StepKinds
  <1>2. CASE UNCHANGED <<tracker, loss, refused>> BY <1>2 DEF PersistedIsMinimum
  <1>Evaluation. CASE Evaluation
    <2>1. PICK l \in Losses : Evaluated(l) BY <1>Evaluation DEF Evaluation
    <2>2. /\ step \in 1 .. MaxSteps /\ l \in Nat /\ l # NoLoss
          /\ tracker.best \in Nat
      BY <1>Evaluation, Numbers DEF Evaluation
    <2>3. SUFFICES ASSUME NEW s \in 1 .. MaxSteps, loss'[s] # NoLoss, s \notin refused'
                   PROVE  tracker'.best # NoLoss /\ tracker'.best <= loss'[s]
      BY DEF PersistedIsMinimum
    <2>4. loss'[s] = IF s = step THEN l ELSE loss[s]
      BY <2>1, <2>2 DEF Evaluated, TypeOK
    <2>5. CASE s = step
      BY <2>1, <2>2, <2>3, <2>4, <2>5 DEF Evaluated, ExportDue, Smaller, NoLoss
    <2>6. CASE s # step
      <3>1. tracker.best # NoLoss /\ tracker.best <= loss[s] /\ loss[s] \in Nat
        BY <2>1, <2>3, <2>4, <2>6, Numbers DEF Evaluated, PersistedIsMinimum
      <3>2. QED
        BY <2>1, <2>2, <2>4, <2>6, <3>1 DEF Evaluated, ExportDue, Smaller, NoLoss
    <2>7. QED BY <2>5, <2>6
  <1>3. QED
    BY <1>1, <1>2, <1>Evaluation DEF Still, Advanced, Mirrored, Retained, Published

LEMMA StepTruth ==
    ASSUME TypeOK, TypeOK', Moments, BestIsOutput, TruthNamesWeights, [Next]_vars
    PROVE  TruthNamesWeights'
  <1>1. Still \/ Advanced \/ Mirrored \/ Evaluation \/ Retained \/ Published
    BY StepKinds
  <1> USE BestCheckpointAssumption
      DEF TruthNamesWeights, BestIsOutput, Moments, TypeOK, Output, Labelled,
          TruthOf
  <1>Still. CASE Still
    BY <1>Still DEF Still
  <1>Advanced. CASE Advanced
    BY <1>Advanced DEF Advanced
  <1>Mirrored. CASE Mirrored
    BY <1>Mirrored DEF Mirrored, Written, Kept, SaveDue
  <1>Evaluation. CASE Evaluation
    BY <1>Evaluation DEF Evaluation, Evaluated, Written, Kept
  <1>Retained. CASE Retained
    BY <1>Retained DEF Retained, Kept
  <1>Published. CASE Published
    BY <1>Published DEF Published, Written, Kept, ShouldFinalSave
  <1>2. QED
    BY <1>1, <1>Still, <1>Advanced, <1>Mirrored, <1>Evaluation, <1>Retained,
       <1>Published

LEMMA StepCadenceOnly ==
    ASSUME TypeOK, TypeOK', Moments, CadenceOnly, [Next]_vars
    PROVE  CadenceOnly'
  <1>1. Still \/ Advanced \/ Mirrored \/ Evaluation \/ Retained \/ Published
    BY StepKinds
  <1> USE BestCheckpointAssumption
      DEF CadenceOnly, TypeOK, Moments, Output, Labelled, TruthOf
  <1>Still. CASE Still
    BY <1>Still DEF Still
  <1>Advanced. CASE Advanced
    BY <1>Advanced DEF Advanced
  <1>Mirrored. CASE Mirrored
    BY <1>Mirrored DEF Mirrored, Written, Kept, SaveDue
  <1>Evaluation. CASE Evaluation
    BY <1>Evaluation DEF Evaluation, Evaluated, Written, Kept
  <1>Retained. CASE Retained
    BY <1>Retained DEF Retained, Kept
  <1>Published. CASE Published
    BY <1>Published DEF Published, Written, Kept, ShouldFinalSave
  <1>2. QED
    BY <1>1, <1>Still, <1>Advanced, <1>Mirrored, <1>Evaluation, <1>Retained,
       <1>Published

LEMMA StepCadence ==
    ASSUME TypeOK, TypeOK', Moments, Cadence, [Next]_vars
    PROVE  Cadence'
  <1>1. Still \/ Advanced \/ Mirrored \/ Evaluation \/ Retained \/ Published
    BY StepKinds
  <1>Still. CASE Still
    <2>1. CASE phase = "oom" /\ phase' = "train"
      <3>1. /\ step' = 0 /\ output'.step = 0 /\ 0 % SaveEvery = 0
            /\ SaveEvery \in Nat \ {0}
        BY <1>Still, <2>1, Numbers, ZeroIsMultiple DEF Still, Moments
      <3>2. QED BY <2>1, <3>1 DEF Cadence
    <2>2. CASE ~(phase = "oom" /\ phase' = "train")
      BY <1>Still, <2>2 DEF Cadence, NoSaveError, Still
    <2>3. QED BY <2>1, <2>2
  <1>Advanced. CASE Advanced
    BY <1>Advanced, Numbers DEF Cadence, NoSaveError, Advanced
  <1>Mirrored. CASE Mirrored
    <2>1. SUFFICES ASSUME tracker.best = NoLoss, saveErrors'.count = 0
                   PROVE  output'.step % SaveEvery = 0 /\ step - output'.step < SaveEvery
      BY <1>Mirrored DEF Mirrored, Cadence, NoSaveError
    <2>2. /\ output.step % SaveEvery = 0 /\ step - output.step <= SaveEvery
          /\ lastSaved < step
      BY <1>Mirrored, <2>1 DEF Mirrored, Cadence, NoSaveError, Moments
    <2>3. output.step \in Nat /\ step \in Nat /\ lastSaved \in Nat
          /\ SaveEvery \in Nat \ {0}
      BY Numbers
    <2>4. CASE SaveDue
      <3>1. output'.step = step /\ step % SaveEvery = 0
        BY <1>Mirrored, <2>1, <2>4 DEF Mirrored, Written, SaveDue
      <3>2. QED BY <2>3, <3>1
    <2>5. CASE ~SaveDue
      <3>1. output'.step = output.step
        BY <1>Mirrored, <2>1, <2>5 DEF Mirrored, Kept
      <3>2. lastSaved # step BY <2>2, <2>3
      <3>3. step % SaveEvery # 0 BY <2>1, <3>2, <2>5 DEF SaveDue
      <3>4. step # output.step + SaveEvery BY <2>2, <2>3, <3>3, NextMultiple
      <3>5. step - output.step < SaveEvery BY <2>2, <2>3, <3>4
      <3>6. QED BY <2>2, <3>1, <3>5
    <2>6. QED BY <2>4, <2>5
  <1>Evaluation. CASE Evaluation
    BY <1>Evaluation, Numbers DEF Cadence, NoSaveError, Evaluation, Evaluated, Written, Kept
  <1>Retained. CASE Retained
    BY <1>Retained, Numbers DEF Cadence, NoSaveError, Retained, Kept
  <1>Published. CASE Published
    BY <1>Published, Numbers DEF Cadence, NoSaveError, Published, Written, Kept, ShouldFinalSave
  <1>2. QED
    BY <1>1, <1>Still, <1>Advanced, <1>Mirrored, <1>Evaluation, <1>Retained,
       <1>Published

-----------------------------------------------------------------------------
\* The invariant holds at the start and is kept.

LEMMA InitInv == Init => Inv
  <1>1. SUFFICES ASSUME Init PROVE Inv OBVIOUS
  <1>2. TypeOK BY <1>1, InitType
  <1>3. /\ output.step = 0
        /\ Labelled => output.label = "FLOOR" /\ output.labelStep = 0
        /\ output.label # "COMPLETE"
    BY <1>1 DEF Init, Artifact
  <1>4. /\ phase = "train" /\ step = 0 /\ lastSaved = 0 /\ tracker.best = NoLoss
        /\ tracker.last = NoLoss
        /\ evaluates => handler \in {"instruct", "dpo"}
        /\ \A s \in 1 .. MaxSteps : loss[s] = NoLoss
    BY <1>1 DEF Init
  <1>5. Moments BY <1>3, <1>4 DEF Moments
  <1>6. Cadence
    BY <1>3, <1>4, ZeroIsMultiple, BestCheckpointAssumption DEF Cadence
  <1>7. CadenceOnly
    BY <1>3, <1>4, ZeroIsMultiple, BestCheckpointAssumption DEF CadenceOnly
  <1>8. TruthNamesWeights BY <1>3, <1>4 DEF TruthNamesWeights
  <1>9. QED
    BY <1>4, <1>5, <1>6, <1>7, <1>8
       DEF Inv, LastIsMeasured, BestIsOutput, BestIsVisible, PersistedIsMinimum

LEMMA StepInv == TypeOK /\ Inv /\ [Next]_vars => TypeOK' /\ Inv'
  <1>1. SUFFICES ASSUME TypeOK, Inv, [Next]_vars PROVE TypeOK' /\ Inv' OBVIOUS
  <1>2. Moments /\ LastIsMeasured /\ BestIsOutput /\ Cadence /\ BestIsVisible
        /\ PersistedIsMinimum /\ TruthNamesWeights /\ CadenceOnly
    BY <1>1 DEF Inv
  <1>3. TypeOK' BY <1>1, <1>2, StepType
  <1>4. Moments' BY <1>1, <1>2, <1>3, StepMoments
  <1>5. LastIsMeasured' BY <1>1, <1>2, <1>3, StepMeasured
  <1>6. BestIsOutput' BY <1>1, <1>2, <1>3, StepOutput
  <1>7. Cadence' BY <1>1, <1>2, <1>3, StepCadence
  <1>8. BestIsVisible' BY <1>1, <1>2, <1>3, StepVisible
  <1>9. PersistedIsMinimum' BY <1>1, <1>2, <1>3, StepMinimum
  <1>10. TruthNamesWeights' BY <1>1, <1>2, <1>3, StepTruth
  <1>11. CadenceOnly' BY <1>1, <1>2, <1>3, StepCadenceOnly
  <1>12. QED
    BY <1>3, <1>4, <1>5, <1>6, <1>7, <1>8, <1>9, <1>10, <1>11 DEF Inv

\* In every behaviour the parts of the inductive invariant hold together with the
\* types: the tracker, the cadence and the output of common.py stay in step.
THEOREM InvHolds == Spec => [](TypeOK /\ Inv)
  <1>1. Init => TypeOK /\ Inv BY InitType, InitInv
  <1>2. QED BY <1>1, StepInv, PTL DEF Spec

\* The tracker, the output and the ghosts keep the types the code gives them;
\* a step number never leaves the schedule.
THEOREM TypeCorrect == Spec => []TypeOK
  BY InvHolds, PTL

\* Whatever a kill uploads once a best checkpoint is persisted was evaluated and
\* is no worse than that checkpoint plus should_final_save's tolerance.
THEOREM BestStaysVisible == Spec => []BestIsVisible
  <1>1. Inv => BestIsVisible BY DEF Inv
  <1>2. QED BY <1>1, InvHolds, PTL

\* BestCheckpointCallback compares with the best PERSISTED loss: an evaluation
\* whose export did not fail is never better than the persisted checkpoint.
THEOREM PersistedStaysMinimum == Spec => []PersistedIsMinimum
  <1>1. Inv => PersistedIsMinimum BY DEF Inv
  <1>2. QED BY <1>1, InvHolds, PTL

\* write_artifact_truth's label names the weights beside it in every reachable
\* state, however the handler ends, unless a save landed that reported an error.
THEOREM TruthStaysWithWeights == Spec => []TruthNamesWeights
  <1>1. Inv => TruthNamesWeights BY DEF Inv
  <1>2. QED BY <1>1, InvHolds, PTL

\* BloomZ publishes cadence generations only, and COMPLETE only the last step.
THEOREM BloomzKeepsCadence == Spec => []CadenceOnly
  <1>1. Inv => CadenceOnly BY DEF Inv
  <1>2. QED BY <1>1, InvHolds, PTL

\* Without a persisted best and without errors a kill between steps loses less
\* than one period of the mirror.
THEOREM MirrorStaysFresh == Spec => []MirrorIsFresh
  <1>1. Inv => MirrorIsFresh BY DEF Inv, Cadence, MirrorIsFresh
  <1>2. QED BY <1>1, InvHolds, PTL

-----------------------------------------------------------------------------
\* Where no save lands that had reported an error.

\* The best loss is that of the step the tracker names, and an evaluation is of a
\* later step.
BestIsMeasured ==
    tracker.best # NoLoss =>
        /\ tracker.bestStep \in 1 .. MaxSteps /\ tracker.bestStep <= step
        /\ loss[tracker.bestStep] = tracker.best
        /\ phase \in {"step_end", "evaluate"} => tracker.bestStep < step

LEMMA StepBest ==
    ASSUME TypeOK, TypeOK', Moments, BestIsMeasured, [Next]_vars
    PROVE  BestIsMeasured'
  <1>1. Still \/ Advanced \/ Mirrored \/ Evaluation \/ Retained \/ Published
    BY StepKinds
  <1>2. step \in Nat BY Numbers
  <1>3. CASE UNCHANGED <<tracker, loss, step>>
               /\ (phase' \in {"step_end", "evaluate"} => phase \in {"step_end", "evaluate"})
    BY <1>3 DEF BestIsMeasured
  <1>Still. CASE Still BY <1>3, <1>Still DEF Still
  <1>Mirrored. CASE Mirrored BY <1>3, <1>Mirrored DEF Mirrored
  <1>Retained. CASE Retained BY <1>3, <1>Retained DEF Retained
  <1>Published. CASE Published BY <1>3, <1>Published DEF Published
  <1>Advanced. CASE Advanced
    <2>1. tracker' = tracker /\ loss' = loss /\ step' = step + 1
      BY <1>Advanced DEF Advanced
    <2>2. QED BY <1>2, <2>1, BestCheckpointAssumption DEF BestIsMeasured
  <1>Evaluation. CASE Evaluation
    <2>1. PICK l \in Losses : Evaluated(l) BY <1>Evaluation DEF Evaluation
    <2>2. /\ phase = "evaluate" /\ phase' = "step_done" /\ step' = step
          /\ step \in 1 .. MaxSteps
      BY <1>Evaluation DEF Evaluation
    <2>3. loss' = [loss EXCEPT ![step] = l] /\ loss'[step] = l
      BY <2>1, <2>2 DEF Evaluated, TypeOK
    <2>4. CASE tracker'.best = l /\ tracker'.bestStep = step
      BY <1>2, <2>2, <2>3, <2>4 DEF BestIsMeasured
    <2>5. CASE tracker'.best = tracker.best /\ tracker'.bestStep = tracker.bestStep
      <3>1. tracker.best # NoLoss =>
              /\ tracker.bestStep \in 1 .. MaxSteps /\ tracker.bestStep <= step
              /\ loss[tracker.bestStep] = tracker.best /\ tracker.bestStep < step
        BY <2>2 DEF BestIsMeasured
      <3>2. tracker.best # NoLoss => loss'[tracker.bestStep] = loss[tracker.bestStep]
        BY <1>2, <2>3, <3>1 DEF TypeOK
      <3>3. QED BY <2>2, <2>5, <3>1, <3>2 DEF BestIsMeasured
    <2>6. QED BY <2>1, <2>4, <2>5 DEF Evaluated
  <1>4. QED
    BY <1>1, <1>Still, <1>Advanced, <1>Mirrored, <1>Evaluation, <1>Retained,
       <1>Published

LEMMA StepLands ==
    ASSUME "late" \notin SaveOutcomes, TypeOK, ~saveErrors.landed, [Next]_vars
    PROVE  ~saveErrors'.landed
  <1>1. CASE UNCHANGED saveErrors BY <1>1
  <1>0. ASSUME CountError(FALSE) PROVE ~saveErrors'.landed
    <2>1. saveErrors' = [count |-> saveErrors.count + 1,
                         landed |-> saveErrors.landed \/ FALSE]
      BY <1>0 DEF CountError
    <2>2. saveErrors'.landed = (saveErrors.landed \/ FALSE) BY <2>1, Zenon
    <2>3. QED BY <2>2
  <1>2. ASSUME NEW o, NEW a, Save(o, a) PROVE ~saveErrors'.landed
    <2>1. o \in {"ok", "clean", "hidden"}
      BY <1>2, BestCheckpointAssumption DEF Save
    <2>2. CASE o = "ok" BY <1>1, <1>2, <2>2 DEF Save
    <2>3. CASE o # "ok"
      <3>1. CountError(o = "late") /\ (o = "late") = FALSE BY <1>2, <2>1, <2>3 DEF Save
      <3>2. CountError(FALSE) BY <3>1, Zenon
      <3>3. QED BY <1>0, <3>2
    <2>4. QED BY <2>2, <2>3
  <1>3. ASSUME NEW label, NEW s, Relabel(label, s) PROVE ~saveErrors'.landed
    BY <1>0, <1>1, <1>3 DEF Relabel
  <1>StepEnd. CASE StepEnd BY <1>StepEnd, <1>1, <1>2 DEF StepEnd
  <1>Evaluate. CASE Evaluate BY <1>Evaluate, <1>1, <1>2 DEF Evaluate
  <1>LadderExhausted. CASE LadderExhausted
    BY <1>LadderExhausted, <1>3 DEF LadderExhausted
  <1>PreserveProgress. CASE PreserveProgress
    BY <1>PreserveProgress, <1>2, <1>3 DEF PreserveProgress
  <1>FinalSave. CASE FinalSave BY <1>FinalSave, <1>2 DEF FinalSave
  <1>NoProgress. CASE NoProgress BY <1>NoProgress, <1>3 DEF NoProgress
  <1>RetainBest. CASE RetainBest BY <1>RetainBest, <1>1, <1>3 DEF RetainBest
  <1>4. CASE \/ OptimizerStep \/ EvaluateRejected \/ StepDone \/ StopInsideStep
             \/ TrainingRaises \/ RetryFromScratch \/ OomPropagates \/ Fallback
             \/ KeepCadence \/ Terminated \/ UNCHANGED vars
    BY <1>1, <1>4
       DEF OptimizerStep, EvaluateRejected, StepDone, StopInsideStep, TrainingRaises,
           RetryFromScratch, OomPropagates, Fallback, KeepCadence, Terminated, vars
  <1>5. QED
    BY <1>StepEnd, <1>Evaluate, <1>LadderExhausted, <1>PreserveProgress, <1>FinalSave,
       <1>NoProgress, <1>RetainBest, <1>4 DEF Next

LEMMA StepReplaces ==
    ASSUME TypeOK, Inv, BestIsMeasured, ~saveErrors.landed, [Next]_vars,
           tracker.best # NoLoss, output'.step # output.step
    PROVE  /\ output'.step > 0
           /\ loss'[output'.step] # NoLoss
           /\ loss'[output'.step] <= loss[output.step] + Tolerance
  <1>1. Moments /\ LastIsMeasured /\ BestIsOutput BY DEF Inv
  <1>2. Still \/ Advanced \/ Mirrored \/ Evaluation \/ Retained \/ Published
    BY <1>1, StepKinds
  <1>3. /\ tracker.best \in Nat /\ tracker.last \in Nat /\ Tolerance \in Nat
        /\ \A l \in Losses : l \in Nat /\ l # NoLoss
        /\ loss[tracker.bestStep] = tracker.best
    BY Numbers DEF BestIsMeasured
  <1>Evaluation. CASE Evaluation
    <2>1. PICK l \in Losses : Evaluated(l) BY <1>Evaluation DEF Evaluation
    <2>2. step \in 1 .. MaxSteps /\ phase = "evaluate"
      BY <1>Evaluation DEF Evaluation
    <2>3. output'.step = step /\ ExportDue(l) BY <2>1 DEF Evaluated, Written, Kept
    <2>4. loss'[step] = l BY <2>1, <2>2 DEF Evaluated, TypeOK
    <2>5. output.step = tracker.bestStep BY <1>1, <2>2 DEF BestIsOutput
    <2>6. l < tracker.best BY <2>3 DEF ExportDue, Smaller
    <2>7. l \in Nat /\ l # NoLoss /\ step > 0 BY <1>3, <2>1, <2>2
    <2>8. QED BY <1>3, <2>3, <2>4, <2>5, <2>6, <2>7
  <1>Published. CASE Published
    <2>1. /\ output'.step = step /\ phase \in {"oom", "returned"}
          /\ loss' = loss /\ ShouldFinalSave
      BY <1>1, <1>Published DEF Published, Written, Kept, Moments
    <2>2. /\ tracker.lastStep = step /\ tracker.last # NoLoss
          /\ tracker.last <= tracker.best + Tolerance
      BY <2>1 DEF ShouldFinalSave
    <2>3. step \in 1 .. MaxSteps /\ loss[step] = tracker.last
      BY <1>1, <2>2 DEF LastIsMeasured
    <2>4. output.step = tracker.bestStep BY <1>1, <2>1 DEF BestIsOutput
    <2>5. QED BY <1>3, <2>1, <2>2, <2>3, <2>4
  <1>Mirrored. CASE Mirrored
    BY <1>1, <1>Mirrored DEF Mirrored, Moments, SaveDue, Kept
  <1>4. QED
    BY <1>2, <1>Evaluation, <1>Published, <1>Mirrored DEF Still, Advanced, Retained

\* Where a save that raises never leaves the new artifact behind, unmeasured or
\* worse weights never replace a persisted checkpoint: the error raised after the
\* exchange (line 1058 of common.py) is the only way this can fail.
THEOREM MeasuredIsKept ==
    ASSUME "late" \notin SaveOutcomes
    PROVE  Spec => MeasuredNeverReplaced
  <1> DEFINE J == BestIsMeasured /\ ~saveErrors.landed
             Step == tracker.best # NoLoss /\ output'.step # output.step =>
                       /\ output'.step > 0
                       /\ loss'[output'.step] # NoLoss
                       /\ loss'[output'.step] <= loss[output.step] + Tolerance
  <1>1. Init => J BY DEF Init, BestIsMeasured
  <1>2. TypeOK /\ Inv /\ J /\ [Next]_vars => J'
    <2>1. SUFFICES ASSUME TypeOK, Inv, J, [Next]_vars PROVE J' OBVIOUS
    <2>2. TypeOK' /\ Moments BY <2>1, StepInv DEF Inv
    <2>3. BestIsMeasured' BY <2>1, <2>2, StepBest
    <2>4. ~saveErrors'.landed BY <2>1, StepLands
    <2>5. QED BY <2>3, <2>4
  <1>3. TypeOK /\ Inv /\ J /\ [Next]_vars => [Step]_vars
    BY StepReplaces
  <1>4. QED BY <1>1, <1>2, <1>3, InvHolds, PTL DEF Spec, MeasuredNeverReplaced

-----------------------------------------------------------------------------
(* SoupOverride.                                                           *)

\* The inductive invariant.

RouteType ==
    /\ evalCount \in Nat /\ record \in [Ordinals -> 0 .. MaxSteps]
    /\ captureBad \subseteq Ordinals
    /\ override \in {"waiting", "check", "promote", "label", "ended"}
    /\ souped \in BOOLEAN /\ released \in BOOLEAN /\ outBefore \in Output

\* The override belongs to an instruct run with a held-out set, and begins when
\* that has ended normally with progress.
Reached ==
    /\ handler = "instruct" /\ evaluates
    /\ override # "waiting" => phase = "done" /\ step > 0

\* No two evaluations are of one step: a step begins with every record before it.
Records ==
    /\ \A o \in Ordinals :
         /\ record[o] <= step
         /\ record[o] # 0 => o <= evalCount
         /\ phase \in {"step_end", "evaluate"} => record[o] < step
    /\ record[4] # 0 => record[2] < record[4]

\* Until it promotes, the override leaves the output as it found it, and what it
\* required when it built the soup still holds.
Untouched ==
    /\ souped => released
    /\ override = "waiting" => ~released
    /\ override \in {"check", "promote"} => output = outBefore /\ ~released
    /\ override = "promote" => Eligible

\* Without save errors the output is there, and of the step that the last label
\* is going to name.
Named ==
    /\ saveErrors.landed => saveErrors.count # 0
    /\ NoSaveError => output.present
    /\ NoSaveError /\ override \in {"check", "promote", "label"} =>
         output.step = Selected

SoupInv ==
    /\ RouteType /\ Reached /\ Records /\ Untouched /\ Named
    /\ override = "waiting" => Inv
    /\ PersistedIsMinimum /\ ReleaseIsLabelled

-----------------------------------------------------------------------------
\* The steps by who takes them.

\* The override's steps leave the run, its tracker and its records.
OverrideStep ==
    /\ override # "waiting" /\ KeepRun
    /\ \/ /\ override = "check" /\ override' \in {"label", "promote"}
          /\ override' = "promote" => Eligible
          /\ UNCHANGED <<output, saveErrors, souped, released>>
       \/ Promote
       \/ Label

LEMMA SoupSteps ==
    ASSUME [SoupNext]_soupVars
    PROVE  Handler \/ OverrideStep \/ UNCHANGED soupVars
  <1>1. CASE Decline BY <1>1 DEF Decline, OverrideStep
  <1>2. CASE Build BY <1>2 DEF Build, OverrideStep
  <1>3. CASE Promote BY <1>3 DEF Promote, OverrideStep
  <1>4. CASE Label BY <1>4 DEF Label, OverrideStep
  <1>5. QED BY <1>1, <1>2, <1>3, <1>4 DEF SoupNext, Stopped

LEMMA RunUnchanged ==
    ASSUME UNCHANGED soupVars
    PROVE  /\ UNCHANGED vars
           /\ UNCHANGED <<evalCount, record, captureBad>>
           /\ UNCHANGED <<override, souped, released, outBefore>>
           /\ UNCHANGED <<handler, evaluates, phase, step, stopping, tracker, lastSaved,
                          output, loss, refused, saveErrors>>
  BY DEF soupVars, vars, routeVars, overrideVars

LEMMA HandlerSteps ==
    ASSUME TypeOK, TypeOK', Moments, Handler
    PROVE  /\ phase # "done" /\ Next
           /\ UNCHANGED <<handler, evaluates, souped, released>>
           /\ \/ UNCHANGED <<evalCount, record, captureBad>>
              \/ /\ phase = "evaluate" /\ phase' = "step_done" /\ step' = step
                 /\ Capture \/ CaptureRejected
  <1>1. Next /\ phase # "done" /\ UNCHANGED <<souped, released>>
    BY DEF Handler, Next
  <1>2. UNCHANGED <<handler, evaluates>>
    BY <1>1, StepKinds
       DEF Still, Advanced, Mirrored, Evaluation, Retained, Published
  <1>3. CASE Evaluate /\ Capture
    BY <1>1, <1>2, <1>3 DEF Evaluate
  <1>4. CASE EvaluateRejected /\ CaptureRejected
    BY <1>1, <1>2, <1>4 DEF EvaluateRejected
  <1>5. CASE UNCHANGED routeVars BY <1>1, <1>2, <1>5 DEF routeVars
  <1>6. QED BY <1>3, <1>4, <1>5 DEF Handler

-----------------------------------------------------------------------------
\* Each part of the invariant.

LEMMA SoupOfType == ASSUME TypeOK PROVE Soup \in Output /\ Soup.step = output.step
  <1>1. output \in Output BY DEF TypeOK
  <1>2. 0 \in 0 .. MaxSteps /\ "none" \in Labels
    BY BestCheckpointAssumption DEF Labels
  <1>3. QED BY <1>1, <1>2 DEF Soup, Output

\* What the override may do to the output: nothing, or take another artifact of
\* the same step.
LEMMA OverrideResult ==
    ASSUME TypeOK, Reached, OverrideStep
    PROVE  /\ output' \in Output
           /\ saveErrors' \in [count : 0 .. MaxSaveErrors, landed : BOOLEAN]
           /\ output'.step = output.step
           /\ NoSaveError' => NoSaveError
           /\ saveErrors'.landed /\ ~saveErrors.landed => saveErrors'.count # 0
           /\ NoSaveError' /\ output.present => output'.present
  <1>1. CASE UNCHANGED <<output, saveErrors>>
    BY <1>1 DEF TypeOK, NoSaveError
  <1>2. CASE Promote
    <2>1. PICK o \in SaveOutcomes : Save(o, Soup) BY <1>2 DEF Promote
    <2>2. /\ output' \in Output
          /\ saveErrors' \in [count : 0 .. MaxSaveErrors, landed : BOOLEAN]
          /\ o = "ok" => output' = Soup /\ saveErrors' = saveErrors
          /\ o # "ok" => saveErrors'.count # 0
          /\ saveErrors'.count = 0 => saveErrors.count = 0
          /\ output' = Soup \/ output'.step = output.step
      BY <2>1, SoupOfType, SaveResult
    <2>3. Soup.step = output.step /\ Soup.present = output.present
      BY SoupOfType DEF Soup, TypeOK, Output
    <2>4. QED BY <2>2, <2>3 DEF NoSaveError
  <1>3. CASE Label
    <2>1. step \in 0 .. MaxSteps /\ tracker.bestStep \in 0 .. MaxSteps
      BY DEF TypeOK, Tracker
    <2>2. Selected \in 0 .. MaxSteps BY <2>1 DEF Selected, RetainedStep
    <2>3. TruthOf(step) \in Labels BY <2>1, TruthType
    <2>4. Relabel(TruthOf(step), Selected) BY <1>3 DEF Label
    <2>5. /\ output' \in Output
          /\ saveErrors' \in [count : 0 .. MaxSaveErrors, landed : BOOLEAN]
          /\ output'.step = output.step
          /\ saveErrors'.landed = saveErrors.landed
          /\ saveErrors'.count = 0 => saveErrors.count = 0
      BY <2>2, <2>3, <2>4, RelabelResult
    <2>6. output.present => output'.present
      BY <2>4 DEF Relabel, TypeOK, Output
    <2>7. QED BY <2>5, <2>6 DEF NoSaveError
  <1>4. QED BY <1>1, <1>2, <1>3 DEF OverrideStep

LEMMA OverrideType == ASSUME TypeOK, Reached, OverrideStep PROVE TypeOK'
  <1>1. UNCHANGED <<handler, evaluates, phase, step, stopping, tracker, lastSaved,
                    loss, refused>>
    BY DEF OverrideStep, KeepRun
  <1>2. /\ output' \in Output
        /\ saveErrors' \in [count : 0 .. MaxSaveErrors, landed : BOOLEAN]
    BY OverrideResult
  <1>3. QED BY <1>1, <1>2 DEF TypeOK

LEMMA StepRouteType ==
    ASSUME TypeOK, TypeOK', Moments, RouteType, Handler
    PROVE  RouteType'
  <1>1. step \in 0 .. MaxSteps /\ output' \in Output BY DEF TypeOK
  <1>2. /\ override' \in {"waiting", "check", "promote", "label", "ended"}
        /\ souped' \in BOOLEAN /\ released' \in BOOLEAN /\ outBefore' \in Output
    BY <1>1, HandlerSteps DEF RouteType, Handler
  <1>3. CASE UNCHANGED <<evalCount, record, captureBad>>
    BY <1>2, <1>3 DEF RouteType
  <1>4. CASE Capture
    <2>1. evalCount' \in Nat BY <1>4 DEF RouteType, Capture
    <2>2. record' \in [Ordinals -> 0 .. MaxSteps]
      BY <1>1, <1>4 DEF RouteType, Capture, CaptureSaved
    <2>3. captureBad' \subseteq Ordinals
      BY <1>4 DEF RouteType, Capture, CaptureSaved
    <2>4. QED BY <1>2, <2>1, <2>2, <2>3 DEF RouteType
  <1>5. CASE CaptureRejected
    BY <1>2, <1>5 DEF RouteType, CaptureRejected
  <1>6. QED BY <1>3, <1>4, <1>5, HandlerSteps

LEMMA OverrideRouteType ==
    ASSUME TypeOK, RouteType, OverrideStep
    PROVE  RouteType'
  <1>1. UNCHANGED <<evalCount, record, captureBad, outBefore>>
    BY DEF OverrideStep, KeepRun, routeVars
  <1>2. /\ override' \in {"waiting", "check", "promote", "label", "ended"}
        /\ souped' \in BOOLEAN /\ released' \in BOOLEAN
    <2>1. CASE Promote BY <2>1 DEF RouteType, Promote, Committed
    <2>2. CASE Label BY <2>2 DEF RouteType, Label
    <2>3. CASE /\ override' \in {"label", "promote"}
               /\ UNCHANGED <<output, saveErrors, souped, released>>
      BY <2>3 DEF RouteType
    <2>4. QED BY <2>1, <2>2, <2>3 DEF OverrideStep
  <1>3. QED BY <1>1, <1>2 DEF RouteType

LEMMA StepRecords ==
    ASSUME TypeOK, TypeOK', Moments, RouteType, Records, Handler
    PROVE  Records'
  <1>1. /\ step \in Nat /\ step' \in Nat /\ evalCount \in Nat
        /\ record \in [Ordinals -> Nat]
    BY Numbers, BestCheckpointAssumption DEF TypeOK, RouteType
  <1>2. CASE UNCHANGED <<evalCount, record, captureBad>>
    <2>1. \/ step' = step + 1
          \/ step' = step /\ phase' \notin {"step_end", "evaluate"}
          \/ step' = step /\ phase \in {"step_end", "evaluate"}
          \/ step' = step /\ UNCHANGED phase
      BY HandlerSteps, StepKinds
         DEF Still, Advanced, Mirrored, Evaluation, Retained, Published
    <2>2. QED BY <1>1, <1>2, <2>1 DEF Records, Ordinals
  <1>3. CASE /\ phase = "evaluate" /\ phase' = "step_done" /\ step' = step
             /\ Capture
    <2>1. CASE record' = record /\ evalCount' = evalCount + 1
      BY <1>1, <1>3, <2>1 DEF Records, Ordinals
    <2>2. CASE /\ evalCount' = evalCount + 1 /\ evalCount' \in Ordinals
               /\ record' = [record EXCEPT ![evalCount'] = step]
      <3>1. CASE evalCount' = 2
        <4>1. record'[2] = step /\ record'[4] = record[4]
          BY <1>1, <2>2, <3>1 DEF Ordinals
        <4>2. record[4] = 0 BY <1>1, <2>2, <3>1 DEF Records, Ordinals
        <4>3. QED BY <1>1, <1>3, <2>2, <3>1, <4>1, <4>2 DEF Records, Ordinals
      <3>2. CASE evalCount' = 4
        <4>1. record'[4] = step /\ record'[2] = record[2]
          BY <1>1, <2>2, <3>2 DEF Ordinals
        <4>2. record[2] < step BY <1>3 DEF Records, Ordinals
        <4>3. QED BY <1>1, <1>3, <2>2, <3>2, <4>1, <4>2 DEF Records, Ordinals
      <3>3. QED BY <2>2, <3>1, <3>2 DEF Ordinals
    <2>3. QED BY <1>3, <2>1, <2>2 DEF Capture, CaptureSaved
  <1>4. CASE /\ phase = "evaluate" /\ phase' = "step_done" /\ step' = step
             /\ CaptureRejected
    BY <1>1, <1>4 DEF Records, Ordinals, CaptureRejected
  <1>5. QED BY <1>2, <1>3, <1>4, HandlerSteps

-----------------------------------------------------------------------------
\* The steps of the handler and the last label.

\* A save of the handler that reports no error leaves an output that is there.
LEMMA SavePresent ==
    ASSUME TypeOK, NEW o, NEW s \in 0 .. MaxSteps, NEW label \in Labels,
           Save(o, Artifact(s, label))
    PROVE  /\ NoSaveError' => NoSaveError /\ output'.present
           /\ saveErrors'.landed /\ ~saveErrors.landed => saveErrors'.count # 0
           /\ o = "ok" => output'.step = s
  BY SaveResult, ArtifactType DEF NoSaveError

LEMMA RelabelPresent ==
    ASSUME TypeOK, NEW s \in 0 .. MaxSteps, NEW label \in Labels, Relabel(label, s)
    PROVE  /\ NoSaveError' => NoSaveError
           /\ saveErrors'.landed = saveErrors.landed
           /\ output.present => output'.present
  <1>1. NoSaveError' => NoSaveError /\ saveErrors'.landed = saveErrors.landed
    BY RelabelResult DEF NoSaveError
  <1>2. output.present => output'.present BY DEF Relabel, TypeOK, Output
  <1>3. saveErrors'.landed = saveErrors.landed BY RelabelResult
  <1>4. QED BY <1>1, <1>2, <1>3

LEMMA HandlerErrors ==
    ASSUME TypeOK, TypeOK', Moments, Handler
    PROVE  /\ NoSaveError' => NoSaveError
           /\ NoSaveError' /\ output.present => output'.present
           /\ saveErrors'.landed /\ ~saveErrors.landed => saveErrors'.count # 0
  <1> DEFINE Result ==
        /\ NoSaveError' => NoSaveError
        /\ NoSaveError' /\ output.present => output'.present
        /\ saveErrors'.landed /\ ~saveErrors.landed => saveErrors'.count # 0
  <1>1. /\ step \in 0 .. MaxSteps /\ tracker.bestStep \in 0 .. MaxSteps
        /\ TruthOf(step) \in Labels /\ "PARTIAL" \in Labels /\ "FLOOR" \in Labels
        /\ 0 \in 0 .. MaxSteps
    BY TruthType, BestCheckpointAssumption DEF TypeOK, Tracker, Labels
  <1>2. CASE UNCHANGED <<output, saveErrors>>
    BY <1>2 DEF NoSaveError
  <1>3. ASSUME NEW o, NEW label \in Labels, Save(o, Artifact(step, label))
        PROVE  Result
    BY <1>1, <1>3, SavePresent
  <1>4. ASSUME NEW s \in 0 .. MaxSteps, NEW label \in Labels, Relabel(label, s)
        PROVE  Result
    BY <1>4, RelabelPresent
  <1> SUFFICES Result OBVIOUS
  <1>5. UNCHANGED <<output, saveErrors>> => Result BY <1>2
  <1> HIDE DEF Result
  <1>StepEnd. CASE StepEnd
    <2>1. CASE SaveDue
      <3>1. (IF handler = "bloomz" THEN TruthOf(step) ELSE "PARTIAL") \in Labels
        BY <1>1
      <3>2. QED BY <1>StepEnd, <1>3, <2>1, <3>1 DEF StepEnd
    <2>2. CASE ~SaveDue BY <1>StepEnd, <1>5, <2>2 DEF StepEnd
    <2>3. QED BY <2>1, <2>2
  <1>Evaluate. CASE Evaluate
    BY <1>Evaluate, <1>1, <1>3, <1>5 DEF Evaluate
  <1>LadderExhausted. CASE LadderExhausted
    BY <1>LadderExhausted, <1>1, <1>4 DEF LadderExhausted
  <1>PreserveProgress. CASE PreserveProgress
    BY <1>PreserveProgress, <1>1, <1>3, <1>4 DEF PreserveProgress
  <1>Fallback. CASE Fallback
    BY <1>Fallback DEF Fallback, Result, NoSaveError, TypeOK, Output
  <1>FinalSave. CASE FinalSave
    BY <1>FinalSave, <1>1, <1>3 DEF FinalSave
  <1>NoProgress. CASE NoProgress
    BY <1>NoProgress, <1>1, <1>4 DEF NoProgress
  <1>RetainBest. CASE RetainBest
    BY <1>RetainBest, <1>1, <1>4, <1>5 DEF RetainBest, RetainedStep
  <1>6. CASE \/ EvaluateRejected \/ OptimizerStep \/ StepDone \/ StopInsideStep
             \/ TrainingRaises \/ RetryFromScratch
    BY <1>5, <1>6 DEF EvaluateRejected, OptimizerStep, StepDone, StopInsideStep,
       TrainingRaises, RetryFromScratch
  <1>7. QED
    BY <1>StepEnd, <1>Evaluate, <1>LadderExhausted, <1>PreserveProgress, <1>Fallback,
       <1>FinalSave, <1>NoProgress, <1>RetainBest, <1>6 DEF Handler

\* The ending with progress: the final save published the last step, or the best
\* checkpoint stayed; the last label names whichever it was.
LEMMA ReachesSelected ==
    ASSUME TypeOK, TypeOK', Moments, BestIsOutput, Named, Handler, Reaches,
           handler = "instruct", NoSaveError'
    PROVE  output'.step = Selected'
  <1>1. UNCHANGED <<step, tracker>> /\ ShouldFinalSave' = ShouldFinalSave
    BY DEF Handler, Reaches, OptimizerStep, StepEnd, StepDone, StopInsideStep,
       TrainingRaises, RetryFromScratch, LadderExhausted, PreserveProgress, Fallback,
       FinalSave, NoProgress, RetainBest, Evaluate, EvaluateRejected, ShouldFinalSave
  <1>2. step \in 0 .. MaxSteps /\ TruthOf(step) \in Labels
    BY TruthType DEF TypeOK
  <1>3. CASE FinalSave
    <2>1. Save("ok", Artifact(step, TruthOf(step)))
      BY <1>3 DEF FinalSave, Reaches
    <2>2. output'.step = step BY <1>2, <2>1, SavePresent
    <2>3. ShouldFinalSave BY <1>3 DEF FinalSave, FinalSaveDue
    <2>4. QED BY <1>1, <2>2, <2>3 DEF Selected
  <1>4. CASE RetainBest
    <2>1. /\ phase = "returned" /\ ~ShouldFinalSave
          /\ Relabel(TruthOf(step), tracker.bestStep)
      BY <1>4 DEF RetainBest, RetainedStep
    <2>2. tracker.bestStep \in 0 .. MaxSteps BY DEF TypeOK, Tracker
    <2>3. output'.step = output.step /\ NoSaveError
      BY <1>2, <2>1, <2>2, RelabelResult DEF NoSaveError
    <2>4. tracker.best # NoLoss /\ ~saveErrors.landed
      BY <2>1, <2>3 DEF ShouldFinalSave, Named, NoSaveError
    <2>5. output.step = tracker.bestStep BY <2>1, <2>4 DEF BestIsOutput
    <2>6. QED BY <1>1, <2>1, <2>3, <2>5 DEF Selected, RetainedStep
  <1>5. QED
    BY <1>3, <1>4 DEF Handler, Reaches, OptimizerStep, StepEnd, StepDone,
       StopInsideStep, TrainingRaises, RetryFromScratch, LadderExhausted,
       PreserveProgress, Fallback, NoProgress, Evaluate, EvaluateRejected

LEMMA StepNamed ==
    ASSUME TypeOK, TypeOK', Moments, BestIsOutput, Reached, Named, Handler
    PROVE  Named'
  <1>1. override = "waiting" BY HandlerSteps DEF Reached
  <1>2. CASE Reaches
    BY <1>2, HandlerErrors, ReachesSelected DEF Named, Reached, NoSaveError
  <1>3. CASE ~Reaches
    <2>1. override' = "waiting" BY <1>1, <1>3 DEF Handler
    <2>2. QED BY <2>1, HandlerErrors DEF Named, NoSaveError
  <1>4. QED BY <1>2, <1>3

LEMMA OverrideNamed ==
    ASSUME TypeOK, Reached, Named, OverrideStep
    PROVE  Named' /\ ReleaseIsLabelled'
  <1>1. UNCHANGED <<step, tracker>> /\ Selected' = Selected
    BY DEF OverrideStep, KeepRun, Selected, ShouldFinalSave, RetainedStep
  <1>2. override # "waiting" /\ (override' = "ended" => Label)
    BY DEF OverrideStep, Promote
  <1>3. override \in {"check", "promote", "label"}
    BY DEF OverrideStep, Promote, Label
  <1>4. Named' BY <1>1, <1>3, OverrideResult DEF Named, NoSaveError
  <1>5. ReleaseIsLabelled'
    <2>1. SUFFICES ASSUME override' = "ended", NoSaveError'
                   PROVE  /\ output'.label \in {"PARTIAL", "COMPLETE"}
                          /\ output'.labelStep = output'.step
      BY DEF ReleaseIsLabelled
    <2>2. Relabel(TruthOf(step), Selected) BY <1>2, <2>1 DEF Label
    <2>3. NoSaveError BY <2>1, OverrideResult
    <2>4. output.present /\ output.step = Selected BY <1>3, <2>3 DEF Named
    <2>5. ~CountError(FALSE)
      BY <2>1 DEF CountError, NoSaveError, TypeOK
    <2>6. output' = [output EXCEPT !.label = TruthOf(step), !.labelStep = Selected]
      BY <2>2, <2>4, <2>5 DEF Relabel
    <2>7. /\ output'.label = TruthOf(step) /\ output'.labelStep = Selected
          /\ output'.step = output.step
      BY <2>6 DEF TypeOK, Output
    <2>8. TruthOf(step) \in {"PARTIAL", "COMPLETE"}
      BY <1>2 DEF TruthOf, Reached, TypeOK
    <2>9. QED BY <2>4, <2>7, <2>8
  <1>6. QED BY <1>4, <1>5

LEMMA StepReached ==
    ASSUME TypeOK, TypeOK', Moments, Reached, Handler
    PROVE  Reached'
  <1>1. override = "waiting" BY HandlerSteps DEF Reached
  <1>2. step \in Nat /\ (step' = step \/ ~Reaches)
    BY Numbers, HandlerSteps, StepKinds
       DEF Still, Advanced, Mirrored, Evaluation, Retained, Published, Reaches
  <1>3. QED BY <1>1, <1>2, HandlerSteps DEF Reached, Handler, Reaches

LEMMA StepUntouched ==
    ASSUME TypeOK, TypeOK', Moments, Reached, Untouched, Handler
    PROVE  Untouched'
  <1>1. override = "waiting" BY HandlerSteps DEF Reached
  <1>2. QED BY <1>1, HandlerSteps DEF Untouched, Handler

LEMMA OverrideUntouched ==
    ASSUME Untouched, OverrideStep
    PROVE  Untouched'
  <1>1. UNCHANGED <<evalCount, record, captureBad, tracker, loss, outBefore>>
    BY DEF OverrideStep, KeepRun, routeVars
  <1>2. CASE Promote BY <1>2 DEF Untouched, Promote, Committed
  <1>3. CASE Label BY <1>3 DEF Untouched, Label
  <1>4. CASE /\ override = "check" /\ override' \in {"label", "promote"}
             /\ override' = "promote" => Eligible
             /\ UNCHANGED <<output, saveErrors, souped, released>>
    BY <1>1, <1>4 DEF Untouched, Eligible, OutputIsRecordFour
  <1>5. QED BY <1>2, <1>3, <1>4 DEF OverrideStep

-----------------------------------------------------------------------------
\* The invariant holds at the start and is kept.

LEMMA SoupInitInv == SoupInit => TypeOK /\ SoupInv
  <1>1. SUFFICES ASSUME SoupInit PROVE TypeOK /\ SoupInv OBVIOUS
  <1>2. TypeOK /\ Inv BY <1>1, InitType, InitInv DEF SoupInit
  <1>3. MaxSteps \in Nat BY BestCheckpointAssumption
  <1>4. output \in Output BY <1>2 DEF TypeOK
  <1>5. RouteType
    <2>1. record \in [Ordinals -> 0 .. MaxSteps]
      BY <1>1, <1>3 DEF SoupInit, Ordinals
    <2>2. QED BY <1>1, <1>4, <2>1 DEF SoupInit, RouteType
  <1>6. Records BY <1>1 DEF SoupInit, Init, Records, Ordinals
  <1>7. Reached /\ Untouched BY <1>1 DEF SoupInit, Reached, Untouched
  <1>8. Named BY <1>1 DEF SoupInit, Init, Named, Artifact
  <1>9. PersistedIsMinimum BY <1>2 DEF Inv
  <1>10. ReleaseIsLabelled BY <1>1 DEF SoupInit, ReleaseIsLabelled
  <1>11. QED BY <1>2, <1>5, <1>6, <1>7, <1>8, <1>9, <1>10 DEF SoupInv

LEMMA SoupStepInv == TypeOK /\ SoupInv /\ [SoupNext]_soupVars => TypeOK' /\ SoupInv'
  <1>1. SUFFICES ASSUME TypeOK, SoupInv, [SoupNext]_soupVars
                 PROVE  TypeOK' /\ SoupInv'
    OBVIOUS
  <1>2. /\ RouteType /\ Reached /\ Records /\ Untouched /\ Named
        /\ PersistedIsMinimum /\ ReleaseIsLabelled
        /\ override = "waiting" => Inv
    BY <1>1 DEF SoupInv
  <1>Handler. CASE Handler
    <2>1. override = "waiting" /\ Next
      BY <1>2, <1>Handler DEF Handler, Reached, Next
    <2>2. TypeOK' /\ Inv' /\ Inv BY <1>1, <1>2, <2>1, StepInv
    <2>3. Moments /\ BestIsOutput /\ PersistedIsMinimum' BY <2>2 DEF Inv
    <2>4. RouteType' BY <1>1, <1>2, <1>Handler, <2>2, <2>3, StepRouteType
    <2>5. Reached' BY <1>1, <1>2, <1>Handler, <2>2, <2>3, StepReached
    <2>6. Records' BY <1>1, <1>2, <1>Handler, <2>2, <2>3, StepRecords
    <2>7. Untouched' BY <1>1, <1>2, <1>Handler, <2>2, <2>3, StepUntouched
    <2>8. Named' BY <1>1, <1>2, <1>Handler, <2>2, <2>3, StepNamed
    <2>9. ReleaseIsLabelled'
      BY <1>Handler, <2>1 DEF Handler, ReleaseIsLabelled
    <2>10. QED
      BY <2>2, <2>3, <2>4, <2>5, <2>6, <2>7, <2>8, <2>9 DEF SoupInv
  <1>Override. CASE OverrideStep
    <2>1. UNCHANGED <<handler, evaluates, phase, step, tracker, loss, refused, record,
                      evalCount>>
      BY <1>Override DEF OverrideStep, KeepRun, routeVars
    <2>2. override # "waiting" /\ override' # "waiting"
      BY <1>Override DEF OverrideStep, Promote, Label
    <2>3. TypeOK' BY <1>1, <1>2, <1>Override, OverrideType
    <2>4. RouteType' BY <1>1, <1>2, <1>Override, OverrideRouteType
    <2>5. Reached' BY <1>2, <2>1, <2>2 DEF Reached
    <2>6. Records' BY <1>2, <2>1 DEF Records
    <2>7. Untouched' BY <1>2, <1>Override, OverrideUntouched
    <2>8. Named' /\ ReleaseIsLabelled'
      BY <1>1, <1>2, <1>Override, OverrideNamed
    <2>9. PersistedIsMinimum' BY <1>2, <2>1 DEF PersistedIsMinimum
    <2>10. QED
      BY <2>2, <2>3, <2>4, <2>5, <2>6, <2>7, <2>8, <2>9 DEF SoupInv
  <1>Stutter. CASE UNCHANGED soupVars
    <2>1. /\ UNCHANGED vars
          /\ UNCHANGED <<evalCount, record, captureBad>>
          /\ UNCHANGED <<override, souped, released, outBefore>>
          /\ UNCHANGED <<handler, evaluates, phase, step, stopping, tracker, lastSaved,
                         output, loss, refused, saveErrors>>
      BY <1>Stutter, RunUnchanged
    <2>2. TypeOK' BY <1>1, <2>1 DEF TypeOK
    <2>3. Inv => Inv' BY <1>1, <2>1, StepInv
    <2>4. RouteType' /\ Reached' /\ Records'
      BY <1>2, <2>1 DEF RouteType, Reached, Records
    <2>5. Untouched'
      BY <1>2, <2>1 DEF Untouched, Eligible, OutputIsRecordFour
    <2>6. Named' /\ ReleaseIsLabelled'
      BY <1>2, <2>1 DEF Named, NoSaveError, Selected, ShouldFinalSave, RetainedStep,
         ReleaseIsLabelled
    <2>7. PersistedIsMinimum' BY <1>2, <2>1 DEF PersistedIsMinimum
    <2>8. QED BY <1>2, <2>1, <2>2, <2>3, <2>4, <2>5, <2>6, <2>7 DEF SoupInv
  <1>3. QED BY <1>1, <1>Handler, <1>Override, <1>Stutter, SoupSteps

\* In every behaviour the records, the override and the output it works on stay
\* related as SoupInv says.
THEOREM SoupInvHolds == SoupSpec => [](TypeOK /\ SoupInv)
  BY SoupInitInv, SoupStepInv, PTL DEF SoupSpec

\* When the run is over the last label of apply_qwen35_soup_override's caller names
\* the step the published weights derive from, whatever the override did.
THEOREM ReleaseStaysLabelled == SoupSpec => []ReleaseIsLabelled
  <1>1. SoupInv => ReleaseIsLabelled BY DEF SoupInv
  <1>2. QED BY <1>1, SoupInvHolds, PTL

\* The soup takes the place of record four only, while that is published and is
\* the best evaluated checkpoint, and its members are two different captures.
THEOREM SoupTakesRecordFour == SoupSpec => SoupReplacesRecordFour
  <1> DEFINE Replaced ==
        /\ output.present /\ output.step = record[4]
        /\ 0 < record[2] /\ record[2] < record[4]
        /\ loss[output.step] = tracker.best
        /\ \A s \in 1 .. MaxSteps :
               loss[s] # NoLoss /\ s \notin refused => loss[output.step] <= loss[s]
  <1>1. TypeOK /\ SoupInv /\ [SoupNext]_soupVars =>
            [souped' /\ ~souped => Replaced]_soupVars
    <2>1. SUFFICES ASSUME TypeOK, SoupInv, [SoupNext]_soupVars, souped', ~souped
                   PROVE  Replaced
      OBVIOUS
    <2>2. Reached /\ RouteType /\ Records /\ Untouched /\ PersistedIsMinimum
      BY <2>1 DEF SoupInv
    <2>3. Promote
      BY <2>1 DEF SoupNext, Handler, Decline, Build, Label, Stopped, soupVars,
         overrideVars
    <2>4. Eligible BY <2>2, <2>3 DEF Promote, Untouched
    <2>5. /\ output.present /\ output.step = record[4]
          /\ record[2] # 0 /\ record[4] # 0 /\ tracker.best = loss[record[4]]
      BY <2>4 DEF Eligible, OutputIsRecordFour, Ordinals
    <2>6. record[2] \in Nat /\ record[2] < record[4]
      BY <2>2, <2>5, BestCheckpointAssumption DEF RouteType, Records, Ordinals
    <2>7. QED BY <2>2, <2>5, <2>6 DEF PersistedIsMinimum
  <1>2. QED BY <1>1, SoupInvHolds, PTL DEF SoupSpec, SoupReplacesRecordFour

-----------------------------------------------------------------------------
\* An override that releases nothing.

LEMMA StepFailure ==
    ASSUME "hidden" \notin SaveOutcomes, TypeOK, SoupInv, FailureLeavesRecordFour,
           [SoupNext]_soupVars
    PROVE  FailureLeavesRecordFour'
  <1>1. Reached /\ Untouched /\ RouteType BY DEF SoupInv
  <1>Handler. CASE Handler
    BY <1>1, <1>Handler DEF Reached, Handler, FailureLeavesRecordFour
  <1>Promote. CASE Promote
    <2>1. PICK o \in SaveOutcomes :
            Save(o, Soup) /\ souped' = (o \in {"ok", "late"}) /\ released' = Committed(o)
      BY <1>Promote DEF Promote
    <2>2. output = outBefore /\ outBefore' = outBefore
      BY <1>1, <1>Promote DEF Untouched, Promote, KeepRun
    <2>3. CASE o \in {"ok", "late"}
      BY <2>1, <2>3 DEF Committed, FailureLeavesRecordFour
    <2>4. CASE o = "clean"
      <3>1. output' = [output EXCEPT !.present = TRUE] /\ ~souped'
        BY <2>1, <2>4 DEF Save
      <3>2. QED BY <2>2, <3>1 DEF FailureLeavesRecordFour, TypeOK, Output
    <2>5. QED BY <2>3, <2>4, BestCheckpointAssumption
  <1>Label. CASE Label
    <2>1. /\ UNCHANGED <<outBefore, souped, released>> /\ override = "label"
          /\ Relabel(TruthOf(step), Selected)
      BY <1>Label DEF Label, KeepRun
    <2>2. output'.step = output.step /\ (output.present => output'.present)
      BY <2>1 DEF Relabel, TypeOK, Output
    <2>3. QED BY <2>1, <2>2 DEF FailureLeavesRecordFour
  <1>Decline. CASE Decline
    BY <1>1, <1>Decline DEF Decline, KeepRun, Untouched, FailureLeavesRecordFour
  <1>Build. CASE Build
    BY <1>Build DEF Build, FailureLeavesRecordFour
  <1>Stutter. CASE UNCHANGED soupVars
    BY <1>Stutter, RunUnchanged DEF FailureLeavesRecordFour
  <1>2. QED
    BY <1>Handler, <1>Promote, <1>Label, <1>Decline, <1>Build, <1>Stutter
       DEF SoupNext, Stopped

\* Where renameat2 exists (a save never hides the output), an override that
\* reports no release has left the artifact it found where it was, and an error
\* raised after the exchange is recognised as a release.
THEOREM FailureLeaves ==
    ASSUME "hidden" \notin SaveOutcomes
    PROVE  SoupSpec => []FailureLeavesRecordFour
  <1>1. SoupInit => FailureLeavesRecordFour
    BY DEF SoupInit, FailureLeavesRecordFour
  <1>2. TypeOK /\ SoupInv /\ FailureLeavesRecordFour /\ [SoupNext]_soupVars =>
            FailureLeavesRecordFour'
    BY StepFailure
  <1>3. QED BY <1>1, <1>2, SoupInvHolds, PTL DEF SoupSpec
=============================================================================
