# Formal models of sn56-forge

TLA+ specifications of the control logic of `src/forge`: how a trained model
reaches the directory that is uploaded, which model that is, how training fits
on the device and into the wall clock, and what is left when something fails.
TLC checks each module on small instances. For every value of the constants the
TLA+ proof system proves the safety properties: the durability of the artifact
store, that it implements an atomic register and how a failing save may end, which
checkpoint is uploaded and how it is labelled, the ladder of geometries and that it
comes to an end, the timed probe and its plan, the export before the kill, the
in-place retry, the soup override, the fallback under one fault and under any
number, and that the rows trained on are whole.

    cd tla
    tlc -workers 2 -config BestCheckpoint.cfg MCBestCheckpoint.tla
    tlapm ArtifactStoreProofs.tla

Contents: [inventory](#the-system), [modules](#modules),
[properties](#what-is-checked), [runs and bounds](#runs-and-bounds),
[divergences](#where-code-and-comments-disagree), [proofs](#what-is-proved),
[what is left out](#what-is-not-modelled), [plan](#plan).

## The system

One container trains one model. `cli.py` parses the arguments, builds the task
description, dispatches to a handler and guards everything with the fallback; the
container is killed at `hours_to_complete`, at any instruction, and whatever is
at `spec.output_dir` then is uploaded and scored. There is one Python thread;
what interleaves is the handler with the callbacks that the trainer calls, with
errors of the operating system and of the device, with the clock, and with the
kill.

| component | state | operations | correct when |
|---|---|---|---|
| **artifact store** (`tasks/common.py:523-942`) | the directories `output`, `.tmp`, `.old`; the ready marker; what is flushed | `save_adapter`, `_promote_staged_dir`, `_recover_artifact_dirs`, `_rmtree`, `_fsync_*` | a save is atomic and durable whatever interrupts it |
| **checkpoint selection** (`tasks/common.py:948-1118`, endings of the handlers) | `BestTracker`, BloomZ's `last_saved_step`, the truth file | best-checkpoint callback, periodic mirror, BloomZ cadence, `should_final_save`, `write_artifact_truth` | the best measured weights are at the output, with the right label |
| **survival ladder** (`tasks/instruct.py:1020-1605`) | rungs, candidate, fallback, the models alive on the device, the tokenized view | `_plans`, `_admit`, `_probe_once`, `_train_ladder`, `measure_epochs`, `_discard` | one model at a time, the first geometry that fits, no progress thrown away |
| **deadline pacing** (`clock.py`, `tuning/callbacks.py`) | monotonic clock, step costs, `should_training_stop` | `on_step_begin/end`, `on_substep_end` | training stops in time for the export, and not earlier |
| **epoch planning** (`tasks/common.py:99-228`) | timer marks, planned epochs | `time_aware_epochs` | the schedule fits the time that is left |
| **soup override** (`tuning/qwen35_soup.py`) | captures of evaluations two and four, release state | capture callback, requirements, merge, promotion | only record four is replaced, and a failure leaves it |
| **command line, dispatch, fallback** (`cli.py`, `tasks/dispatch.py`, `tasks/fallback.py`) | output and `.old`, exit status | `main`, `_run`, `for_task`, `emit_untrained_copy` and its three rungs | the process ends with a loadable artifact and never loses a trained one |
| **in-place retry** (`tasks/common.py:231-349`) | the trainer's leftovers | `safe_train` | one retry, before the first step, from a clean state |
| **tokenization and data views** (`data/tokenize.py`, `_make_data_view`) | the view in use and its cap | `tokenize_*`, the cap ladder, `data_for` | rows the evaluator would score, loss on answers only |
| flight recorder (`telemetry.py`) | events and curves, bounded | `event`, callback, `write` | bounded, and never in the way of training |
| base model, dataset and task parsing, prompts, baseline, plans, rewards, KL trainer | none that outlives a call | loading, parsing, tables | pure functions; see [what is left out](#what-is-not-modelled) |

How they interact:

- The handlers call the **artifact store** from callbacks inside the trainer's
  loop, before it (the floor) and after it (the final save). Errors of a save are
  swallowed in the callbacks and propagate from the floor and the final save.
- **Checkpoint selection** and the **soup override** share the output path with
  the periodic mirror; the tracker is their shared state, written by the
  best-checkpoint callback only when a save returned.
- The **ladder** builds and discards the models that the **epoch planner** times
  and the trainer trains; an out-of-memory error moves it down.
- The DPO, GRPO and BloomZ handlers train through the **in-place retry**, the
  instruct handler through the ladder, which asks for **data views** at the caps
  of its rungs.
- **Pacing** sets `should_training_stop`, which ends the loop; the handler then
  has `export_reserve_s` left for its final save.
- An exception of a handler reaches `cli.py`, which runs the **fallback**; that
  first repairs an interrupted promotion and keeps any weights it finds.

The hard behaviours, each listed with its line under `hazards` in
`PROJECT.json`: a kill or power loss between two file-system operations; a save
that reports an error although it landed, or hides the output; two callbacks of
one step writing the same path; a stale evaluation, view or label; models that
outlive their frame; an out-of-memory error before or after progress; a clock
that runs out inside an accumulation window; a trainer that is used twice; labels
placed by a comparison of token ids; a half-written rung of the fallback that
shadows the next one.

## Modules

Every module `M` has a model-checking module `MCM` that the configurations
`M*.cfg` instantiate. Definitions keep the names of the code where TLA+ allows;
`map` in `PROJECT.json` gives the lines of each. Definitions described as
"mutated form" are not part of a specification: each is a plausible mistake in
the definition below it, and shows that some property would notice.

**ArtifactStore** - one action per file-system operation. `dir` holds the three
directories, each reduced to the generation its weights, metadata and marker come
from (0: not there) and whether its contents are flushed. `journal` is the set of
directory maps a power loss may bring back: each write adds one, each flush of
the parent (`_fsync_dir`) leaves only the present. `pc` names the next operation:
`r_*` is `_recover_artifact_dirs`, `s_*` the staging of `save_adapter`, `c_drop`
its `except` clause, `p_*` and `j_*` are `_promote_staged_dir` with and without
`renameat2`. Every operation has its error branch (`Fail`, `ReplaceRefused`, the
remnants of `Rmtree`), which goes where the code's handlers go. `Kill` keeps the
page cache and may cut the operation in progress half way; `Outage` also loses
names and contents that were not flushed. A save can be told apart from a repair
alone (`op`), which is how the fallback uses the recovery.

**AtomicOutput** - the abstract specification: the output is one register that a
save replaces in a single step (`Commit`), at most once before it ends; a save
that returned has taken it (`Succeed`), and no crash takes it back. `ArtifactStore`
instantiates it with `slot <- Recoverable(dir)`, what a reader finds after
recovery; that it implements it (`ReplacesAtomically`) is checked and proved.

**BestCheckpoint** - the trainer's loop and the endings of the instruct, BloomZ,
DPO and GRPO handlers. One action per callback (`StepEnd`, `Evaluate`, ...) and
per ending (`FinalSave`, `RetainBest`, `PreserveProgress`, `KeepCadence`, ...).
The model at step `s` is the number `s`. A save is one step with the four outcomes
ArtifactStore gives it: it returns; it raises with the old artifact in place
(`clean`), with the new one (`late`), or with none (`hidden`, only without
`renameat2`). As the kill uploads the output in whichever state it finds it, the
invariants over `output` are about every such upload.

**SoupOverride** - EXTENDS BestCheckpoint: its own steps are conjoined with
those of the handler (`Evaluate /\ Capture`), and after the handler's ending come
the requirements, the promotion and the last label. The merge and its
verifications are one nondeterministic outcome, `Decline` or `Build`.

**SurvivalLadder** - `Plans` is `_plans` as an operator; `_admit`, `_probe_once`
and `_train_ladder` are actions over `phase` and `rung`. A model on the device is
tracked by who holds it (`live`). Memory is adversarial: any build or step may run
out, and a smaller rung is not assumed to need less.

**Pacing** - integer time. The environment chooses what each micro-step, the
callbacks after it and the export cost; the schedule has no end of its own.
`costs` is `_step_costs`, `TwicePerStep` the median times two, stated by the rank of
a cost in the window (`Ranked`).

**OomRetry** - `safe_train` around one trainer object used for up to two attempts.
What an attempt leaves in the trainer (optimizer, schedule, gradients, noise hook,
stop request) is represented by the number of the attempt, and the trainer, the
environment, may raise at any point. `updates` is a ghost variable: what each
update of the weights was made of.

**Tokenize** - the pure functions: the three tokenizations with their labels, the
rendering of a conversation by a template, the caps of the evaluator. Texts are
short sequences of characters and `Tokens` merges neighbours across the borders of
the texts, which is what makes the comparison with the dummy hard.

**DataView** - EXTENDS Tokenize: the search of `run` for the first cap with rows,
and the replacement of the view when the ladder reduces the cap. Its properties
state what the rows should be on the characters of the texts, independently of how
Tokenize finds the labels.

**EpochPlan** - the timed probe and the plan, times and epochs scaled to integers
(epochs in hundredths, as the code rounds them). The clock runs while the probing
trainer is constructed, in every step, and in the part of a step after which the probe
is cut or raises.

**ForgeRun** - the container from arguments to exit. A directory is what
`_has_weights` looks at (adapter, model, claim of the truth file); `aside` is what
a recovery would put at the output. Training is abstracted to the saves it makes.
`Interrupted` is what the guards of the dispatch and of the fallback let through, at
any operation.

Composition: ArtifactStore gives the outcomes of a save that BestCheckpoint,
SoupOverride and ForgeRun use, and AtomicOutput says why a save may be one step
there; SoupOverride extends BestCheckpoint; ForgeRun abstracts the training of
BestCheckpoint to its saves; a retry of OomRetry is a restart from step zero in
BestCheckpoint; the views of DataView are what `RowsFitTheRung` of SurvivalLadder
compares.

## What is checked

Each property is stated beside its definition. The less obvious ones:

| module | property | what would break it |
|---|---|---|
| ArtifactStore | `AckedSurvives`, `AckedIsDurable` | a removal, rename or flush in the wrong order, met by a crash at the wrong moment |
| | `OutputNeverHidden` | replacing the output by two renames where one exchange is possible |
| | `ReplacesAtomically` | a recovery that prefers the staged generation to the live one |
| | `RaisedSaveLeavesOldOrNew` | a rollback journal that removes the output instead of parking it |
| | `OutputIsOneGeneration`, `RecoveryTakesOnlyCommitted` | a staging directory taken without its marker, a marker before the flush |
| BestCheckpoint | `BestIsVisible` | publishing a final step on the word of an older evaluation; the mirror running on after a best checkpoint is persisted |
| | `PersistedIsMinimum` | comparing with the best loss seen instead of the best persisted |
| | `TruthNamesWeights`, `CadenceOnly` | labelling retained weights with the last step; publishing between two cadences |
| | `MirrorIsFresh` | the mirror standing down because there is a tracker, not because it holds a checkpoint |
| SoupOverride | `SoupReplacesRecordFour` | promoting without comparing the output with record four |
| | `FailureLeavesRecordFour` | reporting a promotion that raised after the exchange as a refusal |
| SurvivalLadder | `OneModelOnDevice` | a probe, timing or failed training model that is still referenced when the next is built |
| | `RowsFitTheRung` | the tokenized view of the previous rung |
| | `FirstFitIsAdmitted`, `ExhaustionIsEarned` | skipping a rung that could have trained, falling back to an unauthorized one |
| | `ProgressEndsTheLadder`, `LadderTerminates` | retrying after progress, retrying the same rung |
| Pacing | `ExportedBeforeKill` | not looking at the clock inside an accumulation window |
| | `StraySlowStepIsHarmless` | a mean instead of the median |
| OomRetry | `UpdatesAreOfOneAttempt` | a retry after progress; a hook, optimizer or gradient of the failed attempt in the second one |
| | `RetryIsSmaller` | the trainer's cache of the batch left as it was; the floor forgotten |
| DataView | `OnlyAnswersCarryLoss`, `AnswersAreSupervised` | an EOS of a later message labelled; the last token of an answer left out |
| | `RowsAreWhole` | a row cut instead of dropped; a document one token over its limit |
| | `FailureIsEarned` | a ladder of caps that stops below the limit |
| EpochPlan | `ScheduleCompletesIfAny`, `BudgetIsFilled` | no margin; half the budget unused |
| ForgeRun | `OneFaultIsAbsorbed` | not clearing what a failed rung left behind, or publishing a plain copy of the base, after a single fault |
| | `RaisedKeepsTrained`, `TruthNeverOverclaims` | deciding before the repair, emitting over what is there |

### Fairness

Safety needs none. `SurvivalLadder` and `Pacing` assume `WF_vars(Next)`: the
handler is one thread, nothing in the container competes with it, and until the
kill it is always able to take its next step, so it takes one. Which outcome a
step has stays with the environment. The assumption is that no single step,
callback or save blocks for ever; a hang is ended by the kill, to which the
artifact store's properties apply. Fairness of the whole of `Next` does not force
training to return or a step to succeed: `LadderTerminates` holds because each
cycle goes down a rung and the schedule is finite, `TrainingEnds` because every
step costs time.

## Runs and bounds

| run | bounds | why they are enough |
|---|---|---|
| `ArtifactStore_outage` | 3 saves, 3 crashes, no error | an interrupted save, an interrupted recovery from it, and a save afterwards |
| `ArtifactStore_faults` | 2 saves, 2 errors, 2 crashes, with and without power loss and `renameat2`, over an absent, torn or floor output | an error in a save, a second in its handler or in the recovery, and a crash in each; there are three directories, so a fourth generation meets nothing new |
| `BestCheckpoint` | 6 steps, evaluations and mirror every 2, 3 losses, 2 failing saves | three evaluations give better, worse and equal within the tolerance in every order, a stop between evaluations included |
| `SoupOverride` | 5 steps and evaluations, 2 losses, 2 failing saves | the fourth evaluation, and one after it |
| `SurvivalLadder` | every requested batch, cap 8 with quantum 2, 6 quantiles, 3 retentions, 2 steps | every shape of `_plans` (no, one or two reduced caps, equal caps, a request below and above the ladder) and each side of both retention thresholds |
| `Pacing` | kill at 32, window of 3, costs 1, 2 and 6, up to 4 micro-steps | the window fills and slides, and one step costs more than the rest together |
| `OomRetry` | batches up to 5, up to 2 devices, 2 steps | odd and even batches, a floor on each side of the half, a step before and after the error |
| `DataView` | 4 template shapes, conversations of 1 to 4 turns, 10 answers, documents of 0 to 30 characters, 3 pairs of limits; `DocFactor` 2 for the code's 64, `EvaluatorCap` 8 for 4096 | every way an answer can meet the template around it (empty, merging at either end, sharing the dummy's ends, holding an EOS, reasoning), documents on each side of the cap and of the document's limit, limits below, at and above the first cap |
| `EpochPlan` | 7 budgets, 4 costs of a step and 3 of the probing trainer, 7 epoch lengths, probe from step 2 to 5 | each threshold is met from both sides, a construction takes no time, some, or more than the probe's share; the epochs are clamped at both ends |
| `ForgeRun` | 4 failing operations, every task and cache kind | one failure for each rung of the fallback and one for the repair |
| `ArtifactStore_sealed_husk`, `BestCheckpoint_late` | one or two faults | the smallest behaviours that show a divergence |

The bounds are the constants `MaxGen`, `MaxFaults`, `MaxCrashes` (ArtifactStore),
`MaxSteps`, `MaxSaveErrors` (BestCheckpoint, SoupOverride), `MaxSteps`
(SurvivalLadder, OomRetry), `HardStop` with its `Horizon` (Pacing) and `MaxFaults`
(ForgeRun); they stand in guards or in `Init`, nowhere in a property. The proofs
do not depend on their values. Symmetry is not used: generations, steps and losses
are ordered.

`ArtifactStore_outage` is without operating-system errors because its two
properties do not hold with them (see the next section). `Deadlock` is checked in
every run: finished runs stutter in an action of their own (`Terminated`,
`Stopped`, `Exited`, `Ended`, `Settled`), and the artifact store can always repair again.

## Where code and comments disagree

Two runs are expected to find a violation; the quoted lines are under
`findings` in `PROJECT.json`.

- `ArtifactStore_sealed_husk`: the ready marker is renamed into place before its
  directory is flushed (`common.py:827-828`). If the flush raises, the staging
  directory is sealed although `save_adapter` failed; a kill while it is being
  removed leaves a partial directory that the recovery promotes.
- `BestCheckpoint_late`: a save can raise after its exchange. The tracker is not
  updated then (`common.py:1058`), so the new minimum is at the output but counts
  for nothing, and a later save that beats only the older one replaces it. The
  condition `~saveErrors.landed` of `TruthNamesWeights` is for the same case.

Narrower cases met while modelling. They are excluded where noted, by a
condition of the property or by the outcomes a run allows:

- Without `renameat2` (`_AtomicExchangeUnavailable`, which a file system that
  refuses the exchange also leads to) the promotion parks the output in `.old`.
  The flush at `common.py:895` stands before the `try` block, so its error is not
  rolled back and the output path is empty until the next save or the fallback.
  An error swallowed by a callback followed by a normal return of the handler
  leaves it so (BestCheckpoint, outcome `hidden`); the soup override does not
  repair it either (`SoupOverride.cfg` leaves `hidden` out).
- When `_recover_artifact_dirs` itself raises, the fallback goes on
  (`fallback.py:47`) and writes the floor, with the trained artifact in `.old`
  (`~denied` in `RaisedKeepsTrained`).
- A template that renders an earlier answer differently once a question follows
  (qwen3 strips its reasoning, `qwen3.jinja:93-100`) is compared on the conversation
  up to the answer, and the positions are applied to the whole one
  (`tokenize.py:352-371`): the labels reach into the next question, although
  `tokenize.py:3` says "Only completion tokens carry loss". TLC finds it when the
  condition `Steady` of `OnlyAnswersCarryLoss` is dropped.
- An answer that begins with `[[` or ends with `]]`, like the dummy of
  `tokenize.py:346`, loses the tokens it shares with it, and the whole turn if
  nothing else is left, although `tokenize.py:13` says "For chat we supervise every
  assistant turn" (`LikeDummy` in `AnswersAreSupervised`).
- `argparse` leaves with status 2 before any guard is in place, although
  `cli.py:5` says "never exit non-zero"; nothing has been written by then. And the
  guards of the dispatch and of the fallback are for `Exception` only (`cli.py:131`
  and `149`, unlike those of the spec and of the handler): a `KeyboardInterrupt` or
  `SystemExit` there ends the process with an error (`Interrupted`).
  `OneFaultIsAbsorbed` does not speak of these exits (`exit = "zero"`);
  `RaisedKeepsTrained` holds at an interrupted fallback in the form that the next
  recovery finds the trained weights.
- `max(0.05, ...)` at `common.py:227` plans a twentieth of an epoch even when
  less than that fits (the precondition of `ScheduleCompletesIfAny`).

What ArtifactStore assumes of the platform: the filesystem can flush a directory.
`_fsync_dir` swallows `EINVAL`, `ENOTSUP` and `EBADF` (`common.py:813-815`) and then
returns as if it had flushed, where the model knows only a flush that was made and one
that raised (`SyncParent`, `StageFlush`). On a filesystem that answers with one of them
nothing here is claimed about a power loss. What is said of kills without one, and of
errors, does not rest on any flush (`Kill` never loses what was not flushed), so it
holds there too.

What OomRetry assumes of the trainer: an `optimizer.step()` that raises has not
moved the weights, and at most one of the two calls that clear the gradients
fails to clear them. The reset itself may raise, through the unguarded second call of
`model.zero_grad` (`ResetRaises`). Nothing that the code clears is assumed to be
cleared by the trainer too. Tokenize assumes a tokenizer with an EOS, and one that adds a BOS where the code
asks for special tokens.

## What is proved

**Durability.** `ArtifactStoreProofs.tla`, for every number of generations, errors and crashes,
every platform and every initial output, from `ArtifactStoreAssumption` alone
(the bounds are naturals, `MaxGen` at least 1):

| theorem | establishes |
|---|---|
| `TypeCorrect` | `Spec => []TypeOK` |
| `DurabilityHolds` | `Spec => []Durability`, the inductive invariant |
| `AcknowledgedSurvives` | `Spec => []AckedSurvives` |
| `AcknowledgedIsDurable` | `Spec => []AckedIsDurable` |
| `OutputStaysOneGeneration` | `Spec => []OutputIsOneGeneration`, where no operation fails |
| `RecoveryStaysCommitted` | `Spec => []RecoveryTakesOnlyCommitted`, where no operation fails |

`AckedSurvives` is not inductive: that the acknowledged generation is
recoverable says nothing of where it is, and the next removal may hit it.
`Durability` says where. For every map in `journal`, `Safe`: an acknowledged
generation or a newer one, complete and flushed, is at the output path, or the
output path is incomplete and it is in `.old`. A staging directory is never its only
copy. The rest says what the running call knows: `Staging`, what `.tmp` holds at
each step of its construction, so that what is promoted is whole, flushed and the
generation asked for; `Calls`, which steps a repair can reach; and which steps run
while the output is live (`LiveSteps`) or while `.old` is the only copy
(`ParkedSteps`). A removal is harmless because its `Target` is never the directory
`Safe` depends on; `WriteKeeps` is that argument, used by every write that does not move
the live generation. The three operations that do move it (the exchange and the
two renames of the rollback journal) have their own cases. A flush narrows
`journal` to the present map, and a power loss chooses from `journal` and cannot
take from a directory that is flushed.

The proof has one step per action, preceded by lemmas for the shapes the actions
share (`BecomeType`, `RmtreeType`, `ReplaceType`, `StageType`, `QuietType`).

The last two theorems assume `MaxFaults = 0` and `"floor" \notin Outputs`, the
setting of `ArtifactStore_outage`. Both hypotheses are needed. With errors the
sealed husk of [the divergences](#where-code-and-comments-disagree) exists; and an initial floor that was
never flushed, which is what `"floor"` stands for, may itself come back torn from a
power loss. Kills and power losses are unbounded. Their invariant is `NoHusks`: in
every map of `journal` whatever recovery would choose is whole and flushed (`Sound`),
a directory that can be cut half way is removed only while recovery would choose
another one, and what is being built has no marker.

**The atomic register.** Also in `ArtifactStoreProofs.tla`, from the same
assumption and on top of `Durability`:

| theorem | establishes |
|---|---|
| `RefiningHolds` | `Spec => []Refining` |
| `ImplementsAtomicOutput` | `Spec => ReplacesAtomically`: the initial states map to initial states and every step to a step of AtomicOutput or a stutter |
| `OutputStaysVisible` | `Spec => OutputNeverHidden` |
| `RaisedSaveIsOldOrNew` | `Spec => []RaisedSaveLeavesOldOrNew` |

Durability bounds the register from below, by what was acknowledged; a step of the
register also needs to know what it holds otherwise, a first save that fails
included. `Refining` says that: which directory recovery has chosen when it
acts (`Recovery`); that a later step finding no output means nothing was
recoverable when the save began (`FirstSave`), which is what permits `Withdraw`; that
no directory is newer than the save in progress (`NoneIsNewer`), the upper bound of
an `Outage`; that a save runs exactly while its status says so; and that the
rollback journal never runs where there is `renameat2` (`Platform`), without which
`OutputNeverHidden` is false. The commit of a save is the seal of `.tmp`
(`StageMark`), or a rebuilt `.tmp` that keeps an old seal (`StageWeights`), when there
is no other copy, and the rename or the exchange otherwise.

The last theorem is what allows the other modules to make a save one step. A save that
raises, in whichever operation of recovery, staging, promotion or rollback, leaves the
output it found (`clean`), the new one (`late`), or an empty output path whose next
recovery brings the old one back (`hidden`). `Kept` is the invariant: until a save
promotes, the output is the generation that was recoverable when it began (`base`), and
while the output is parked it is in `.old`. `StepKept` has one step per operation that
can raise or move the output.

**The in-place retry.** `OomRetryProofs.tla`, for every largest batch, number of
devices and steps (`OomRetryAssumption`):

| theorem | establishes |
|---|---|
| `RetryInvariant` | `Spec => []IInv` |
| `OneAttemptMovesWeights` | `Spec => []UpdatesAreOfOneAttempt` |
| `RetriesAreSmaller` | `Spec => []RetryIsSmaller` |

That the updates are of one attempt is not inductive: it must be known what the
next update will be made of. `IInv` adds that, while an attempt runs, whatever the
trainer holds is that attempt's (`AttemptIsFresh`) and that without progress there
is no update yet. The retry is the only step that could break it, and the lemma
`ResetIsComplete` is the reason it does not: either of the two clearings suffices,
since without an optimizer no gradient was accumulated. `ShrunkGeometry` carries the batch through the
cache that the data loader is built from.

**The export before the kill.** `PacingProofs.tla`, from `PacingAssumption`:

| theorem | establishes |
|---|---|
| `ClockInvariant` | `Spec => []IInv`, type correctness and a bound on `now` in each phase |
| `ExportIsInTime` | `Spec => []ExportedBeforeKill` |
| `SlowStepIsAbsorbed` | `Spec => StraySlowStepIsHarmless` |
| `RankFalls` | `Spec => [][Rank' \in Nat /\ Rank \in Nat /\ Rank' < Rank]_vars` |

`PhaseBound` says by when each phase is reached: training goes on after a step only
while the soft stop has not passed, so a step begins at most one round of
callbacks after it, ends a micro-step later, and the export starts after one more
round; the reserve covers the sum. The clock is looked at after each micro-step
but the last, and then at the end of the step. That no time left always means stop
needs the median to be a natural number (`MedianType`), hence the minimum of a set
of naturals (`MinOfNaturals`). That a slow step does not end training early is the
other side of the median: if fewer than half of the costs are above a time, then
enough of them are within it for the rank of the median (`FastMajority`,
`MedianIsFast`).

`Rank` counts the steps that can still come: each micro-step takes at least one unit
of the time up to the horizon, and between two of them the loop takes at most four
steps. What remains of `TrainingEnds` is its fairness.

**Checkpoint selection.** `BestCheckpointProofs.tla`, for every schedule, set of
losses, period, tolerance, handler and number of failing saves, with every outcome of
a save (`BestCheckpointAssumption`):

| theorem | establishes |
|---|---|
| `InvHolds` | `Spec => [](TypeOK /\ Inv)` |
| `TypeCorrect` | `Spec => []TypeOK` |
| `BestStaysVisible` | `Spec => []BestIsVisible` |
| `PersistedStaysMinimum` | `Spec => []PersistedIsMinimum` |
| `TruthStaysWithWeights` | `Spec => []TruthNamesWeights` |
| `BloomzKeepsCadence` | `Spec => []CadenceOnly` |
| `MirrorStaysFresh` | `Spec => []MirrorIsFresh` |
| `MeasuredIsKept` | `Spec => MeasuredNeverReplaced`, if no save is `late` |

That the best is visible says nothing of the step in progress, so a final step could
be published on the loss of an earlier evaluation. `Moments` excludes that: the
output never runs ahead of the trainer, between a step and its callbacks nothing of
that step is saved, and with a best checkpoint the mirror is silent before an
evaluation. `LastIsMeasured` ties what the tracker remembers to the evaluation it
names, which is what `should_final_save` compares; `BestIsOutput` ties the persisted
best to the output, which is what the label of the ending relies on; `Cadence`
counts the steps since the last save of a run without a best. Steps are grouped by
what they do to the shared state (`StepKinds`), and each part of `Inv` has a lemma
with one case per group.

`MeasuredIsKept` is the other half of `BestCheckpoint_late`: the rule which that run
shows violated holds for every value of the constants as soon as a save that raises
has not landed, so the error after the exchange is its only exception. It needs
`BestIsMeasured`, which is false with such an error.

**The soup override.** In `BestCheckpointProofs.tla` too, on top of those proofs:

| theorem | establishes |
|---|---|
| `SoupInvHolds` | `SoupSpec => [](TypeOK /\ SoupInv)` |
| `ReleaseStaysLabelled` | `SoupSpec => []ReleaseIsLabelled` |
| `SoupTakesRecordFour` | `SoupSpec => SoupReplacesRecordFour` |
| `FailureLeaves` | `SoupSpec => []FailureLeavesRecordFour`, if no save is `hidden` |

A step of the handler is a step of BestCheckpoint, so `Inv` carries over without
being proved again, until the override begins. `SoupInv` adds that records are of
different steps (`Records`, the reason why the two members of the soup differ), that
until its promotion the override finds the output as it was when it looked
(`Untouched`), and that without errors the output is what the label is going to name
(`Named`). The hypothesis of the last theorem is `renameat2` (`common.py:895`, above).

**The survival ladder.** `SurvivalLadderProofs.tla`, for every set of requested
batches, every cap, quantum, quantile and retained fraction, and schedules of any
length (`SurvivalLadderAssumption`):

| theorem | establishes |
|---|---|
| `InvHolds` | `Spec => [](TypeOK /\ Inv)` |
| `TypeCorrect` | `Spec => []TypeOK` |
| `OneModelAtATime` | `Spec => []OneModelOnDevice` |
| `RowsStayWithTheRung` | `Spec => []RowsFitTheRung` |
| `LadderGoesDown` | `Spec => []LadderShrinks` |
| `FirstFitWins` | `Spec => []FirstFitIsAdmitted` |
| `ExhaustionNeedsEveryRung` | `Spec => []ExhaustionIsEarned` |
| `ProgressIsKept` | `Spec => ProgressEndsTheLadder` |
| `RankFalls` | `Spec => [][Rank' \in Nat /\ Rank \in Nat /\ Rank' < Rank]_vars` |
| `FallbackExists` | when no rung passed both probes, `fallback` is a rung |

`LadderKept`, the shape of the rungs, rests on `PlansLadder`, a theorem about the
operator `Plans` alone: joining two descending ladders is one if the second starts
below the first (`LaddersJoin`), removing repetitions changes nothing then
(`UniqueOfDistinct`), and rounding up to the quantum is monotone, so the reduced caps
descend (`RoundedUpMonotone`, `ReducedCapsDescend`). The rest is the state of the
search: who holds the model in each phase (`Holder`), which rungs have a view and which
view is in use (`Fits`, `Rows`), and why each rung above the present one was left
(`Admission` before training, `Admitted` and `Descent` after it).

`Rank` is the safety half of `LadderTerminates`: in the search a rung below the present
one outweighs every probe of it (`ProbesLeft`), in training it outweighs every step up
to `MaxSteps` (`StepsLeft`), and any admission outweighs all of training
(`TrainingBelowAdmission`). With `FallbackExists`, by which the search cannot end
without a rung to train, only the fairness is left to TLC.

**The timed probe.** `EpochPlanProofs.tla`, for every budget, cost, epoch length and
threshold (`EpochPlanAssumption`):

| theorem | establishes |
|---|---|
| `IInvHolds` | `Spec => []IInv` |
| `ProbeStaysBounded` | `Spec => []ProbeIsBounded` |
| `BudgetFilled` | `Spec => []BudgetIsFilled` |
| `ScheduleCompletes` | `Spec => []ScheduleCompletesIfAny`, if `Margin <= 90` |

`Timer` says that the timed window holds steady steps only, so that it measures the cost
the schedule will have; `Limit` bounds the clock at the start of a step, with one more
step where the timer starts and the limit is not looked at (and none until the probing
trainer is there, which may be past the limit: `FirstLook`); `Answer` ties the answer
to the probe it was computed from. `Rounding` bounds the error of a rounded quotient,
independently of the number of timed steps, and `AchievableOfSteady` is that bound for
`Achievable`. The hypothesis on the margin is what the code has (90 percent, 82 with
replay); the tenth it leaves is what absorbs the rounding of a schedule that is barely
longer than the smallest one.

**The container.** `ForgeRunProofs.tla`, for every task, cache, outcome of a save and
number of failing operations (`ForgeRunAssumption`):

| theorem | establishes |
|---|---|
| `InvHolds` | `Spec => [](TypeOK /\ Inv)` |
| `TypeCorrect` | `Spec => []TypeOK`, which no run repeats |
| `TruthIsEarned` | `Spec => []TruthNeverOverclaims` |
| `TrainedIsKept` | `Spec => []RaisedKeepsTrained` |
| `AnyOneFaultIsAbsorbed` | `Spec => []OneFaultIsAbsorbed` |

`Position` says who can be where: only the full-fine-tune handler calls the fallback
as its floor, and a process with a status has exited. `SoundDirs` is the truth
invariant over both directories, with what a failed rung can leave. `TrainedKept`
follows trained weights through the repair: until it they are at the output or where
recovery would take them from, afterwards they are at the output, and the rungs are
never climbed; when the fallback is interrupted too, they are where the next recovery
finds them. `Absorbed` lists, operation by operation, what a single fault can have
left; a rung below the first is itself evidence that the fault is spent, and so is an
adapter config alone in the output (`ConfigOnly`), which an interrupted floor leaves.
`AnyOneFaultIsAbsorbed` is about the start of training and the exits with status 0: a
rejection by `argparse`, before anything is written, and an interrupt that ends the
process are outside it.

**The rows.** `DataViewProofs.tla`, for every set of characters, table of merges, task,
template, text, pair of limits and cap (`TokenizeAssumption`, `DataViewAssumption`):

| theorem | establishes |
|---|---|
| `WholeRows` | `Spec => []RowsAreWhole` |
| `EarnedFailure` | `Spec => []FailureIsEarned` |
| `DelimitedCarryLoss` | `Spec => [](DelimitedTask => OnlyAnswersCarryLoss)` |
| `DelimitedSupervise` | `Spec => [](DelimitedTask => AnswersAreSupervised)` |

The induction theorems of the library take operators as parameters, so two lemmas
replace them: `Induction`, where a property is the set of the numbers that have it, and
`Iteration`, where the step of a recursion is a function. From them follow that
`Tokens` gives tokens over the characters of its text (`TokensType`), that
cutting a document into pieces of one length and joining them gives it back
(`PiecesJoin`), and that the doublings of a cap reach the limit
(`CandidatesReachLimit`). `Inv` is then short: a view is `MakeView` of some cap, and
each candidate up to the one in hand had no rows.

The two theorems about labels are about every tokenizer of this kind, and so need to
know that it does not join across the borders the diff relies on. `DelimitedTask` says
it of the merges and of the template of a chat task, and of no text: the template has
a head, whose last character and the first of `[[dummy_message]]` are not joined,
and no token ends with the character that comes after an answer. Templates that open
and close a message with special tokens are of this kind: of the shapes in
`MCDataView`, chatml, metharme and qwen3 are, the native one, which closes a message
with a newline that may be joined, is not. Instruct and completion tasks need no
condition. Without it `OnlyAnswersCarryLoss` does not hold: where the dummy is joined
to the head before it or to the foot after it, the rendering with the dummy differs
in a token of the template too, and that token is labelled. TLC shows it at once if
such a pair is added to the merges.

The argument goes by the characters each token holds:

1. The tokens of a text are those of its beginning, read on (`TokensAppend`); they
   spell it (`TokensSpell`); where no token joins two texts, each keeps its own
   (`SeamSplits`). Reading on changes at most the last token and begins the next one
   with the first new character (`Continues`, `TokensContinue`).
2. So the tokens that hold a part of a text inside another are those that reading it
   changed or added, from `FirstNew` to the last (`CoveringTokens`), and the diff of
   two renderings that differ in the answer finds some of these, and all of them if
   the answer neither begins nor ends like the dummy (`DiffFindsAnswer`).
3. The conversation up to a turn has one rendering around its answer and around the
   dummy (`TurnRendering`). If the whole conversation renders alike so far (`Steady`),
   it has the same text there: its messages are no longer than in the shorter one
   (`OpeningShrinks`), because a template only strips more as it goes on, so equal
   totals mean equal places (`AlikePlaces`, `WholeRendering`). Hence positions found in
   one rendering are those of the answer in the other (`AnswerPlace`, `SpanPlace`).
4. The labels of a turn add one EOS within four tokens (`TurnLabelsBound`).

### What only TLC checks

- `LadderTerminates` and `TrainingEnds`: liveness under fairness and `ENABLED` are
  out of the prover's reach.
- `OnlyAnswersCarryLoss` and `AnswersAreSupervised` for a template that closes a
  message with a character the tokenizer may join to the answer (the native shape of
  `MCDataView`): the first depends on the merges, as said above, and holds for those of
  the run; for the second no counterexample is known and no proof either, for an
  answer and its foot then share a token.
- `MeasuredNeverReplaced` without the hypothesis above, and the sealed husk: they
  are false, and the runs show how.

No module declares a RECURSIVE operator.

## What is not modelled

- Flight recorder: it reaches the artifact through the save and changes nothing
  the other components decide; its caps are comparisons of a length with a number.
- Of tokenization: the resolution of template names, the padding collator, and the
  split into training and validation rows (which works on rows, so that the chunks
  of one document may fall on both sides). Of prompts: the filters, whose results
  are the items.
- The choice of the probe rows (`_probe_rows`), a pure function of row lengths.
- Resolution, geometry and loading of the base model (`model.py`): configuration
  of a third-party library. Whether the base can be loaded is a constant of
  ForgeRun.
- Dataset and task parsing, baseline statistics, hyperparameter tables, epoch caps: sequential pure functions. Their
  failures are the bare spec and the raising handler of ForgeRun, their results
  the quantiles and retentions of SurvivalLadder.
- KL trainer, rewards and TRL adapters: tensor arithmetic and adapters.
- Contents of weights. Two generations differ by number, and the floor of a full
  fine-tune by the rung that wrote it.
- Container images, registration scripts, chat templates, experiment logs.

## Plan

Order of the modules: ArtifactStore and AtomicOutput, because everything else
rests on the save; BestCheckpoint, which decides what is uploaded; SurvivalLadder,
Pacing and EpochPlan, which decide whether there is anything to upload;
SoupOverride and ForgeRun, which compose; OomRetry, the other way out of memory;
Tokenize and DataView, what is trained on. These are done.

What could follow: `SurvivalLadder` over the real rows of DataView; the split into
training and validation rows; a model of the template resolution.

What could be proved next: that ForgeRun's training, abstracted to its saves, is
implemented by BestCheckpoint; the labels of a template whose foot the tokenizer may
join to the answer.
