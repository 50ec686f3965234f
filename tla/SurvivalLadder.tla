--------------------------- MODULE SurvivalLadder ---------------------------
(***************************************************************************)
(* The geometry ladder of src/forge/tasks/instruct.py: which rungs (batch, *)
(* gradient checkpointing, sequence cap) exist, how admission probes them  *)
(* with one real optimizer step per batch, and how training walks down     *)
(* them when it runs out of memory before its first optimizer step.        *)
(*                                                                         *)
(* A rung either fits the device or raises out of memory at any of the     *)
(* points where the code can meet it; the model does not assume that a     *)
(* smaller rung needs less.  Models alive on the device are tracked by the *)
(* reference that keeps them there, since two of them do not fit.          *)
(***************************************************************************)
EXTENDS Naturals, FiniteSets, Sequences

CONSTANTS
    Requests,     \* per_device_batch_size of the plan
    FullCap,      \* sequence cap of the initial view, in tokens
    Quantum,      \* _CAP_QUANTUM
    Quantiles,    \* values the baseline summary may give for p95 and p99
    Retentions,   \* percentages of rows a reduced cap may retain
    MaxSteps      \* bound: optimizer steps of the schedule

ASSUME SurvivalLadderAssumption ==
    /\ Requests \subseteq Nat /\ Quantiles \subseteq Nat
    /\ FullCap \in Nat \ {0} /\ Quantum \in Nat \ {0}
    /\ Retentions \subseteq 0 .. 100
    /\ MaxSteps \in Nat \ {0}

-----------------------------------------------------------------------------
\* _reduced_sequence_caps: p99 and p95, rounded up, when they lie below the
\* initial cap; equal caps are one cap with the weaker retention requirement.

RoundedUp(q) == ((q + Quantum - 1) \div Quantum) * Quantum

ReducedCaps(p99, p95) ==
    LET usable(q) == q > 0 /\ RoundedUp(q) < FullCap
        wide   == IF usable(p99) THEN <<RoundedUp(p99)>> ELSE <<>>
        narrow == IF usable(p95) /\ (usable(p99) => RoundedUp(p95) # RoundedUp(p99))
                  THEN <<RoundedUp(p95)>> ELSE <<>>
    IN wide \o narrow

\* required_retained_fraction, in percent.
Required(cap, p99, p95) ==
    IF cap = FullCap THEN 0
    ELSE IF p95 > 0 /\ RoundedUp(p95) = cap THEN 95
    ELSE 99

-----------------------------------------------------------------------------
\* _plans.

Batches == <<4, 2, 1>>
EffectiveBatch == 16

Rung(batch, gc, cap) ==
    [batch |-> batch, accum |-> EffectiveBatch \div batch, gc |-> gc, cap |-> cap]

Clamped(request) == IF request < 1 THEN 1 ELSE IF request > 4 THEN 4 ELSE request

\* Index of the first batch that the request allows.
Start(request) == CHOOSE i \in 1 .. 3 :
    Batches[i] <= Clamped(request) /\ \A j \in 1 .. i - 1 : Batches[j] > Clamped(request)

\* Mutated form: the rescue rungs lose gradient checkpointing again.
RescueWithoutCheckpointing(supported) == FALSE

RescueCheckpointing(supported) == supported

\* The requested geometry, with and without checkpointing; the smaller batches;
\* the reduced caps at the smallest batch.
FirstRungs(start, gc, supported) ==
    LET first == Rung(Batches[start], gc /\ supported, FullCap)
    IN IF supported /\ ~gc THEN <<first, [first EXCEPT !.gc = TRUE]>> ELSE <<first>>

SmallerRungs(start, supported) ==
    [i \in 1 .. 3 - start |-> Rung(Batches[start + i], RescueCheckpointing(supported), FullCap)]

ShorterRungs(supported, caps) ==
    [i \in 1 .. Len(caps) |-> Rung(1, RescueCheckpointing(supported), caps[i])]

\* The members of a sequence in order, each where it occurs first.
Unique(s) ==
    LET fresh == {i \in 1 .. Len(s) : \A j \in 1 .. i - 1 : s[j] # s[i]}
    IN [k \in 1 .. Cardinality(fresh) |->
          s[CHOOSE i \in fresh : Cardinality({j \in fresh : j <= i}) = k]]

Plans(request, gc, supported, caps) ==
    Unique(FirstRungs(Start(request), gc, supported)
           \o SmallerRungs(Start(request), supported)
           \o ShorterRungs(supported, caps))

-----------------------------------------------------------------------------
VARIABLES
    rungs, retains, p99, p95, cuda,  \* fixed for a run
    phase,
    rung,       \* index of the candidate in rungs
    batch,      \* which of the two probe batches: 1 is p99, 2 is worst
    fallback,   \* last rung with an authorized view
    admitted,   \* rung returned by _admit, 0 before
    live,       \* references that keep a model on the device
    view,       \* cap of the local _DataView, 0 when there is none
    step,       \* global_step of the training trainer
    passed,     \* ghost: rungs that passed both probes
    exhausted,  \* ghost: rungs that ran out of memory at step 0 in training
    outcome

vars == <<rungs, retains, p99, p95, cuda, phase, rung, batch, fallback, admitted,
          live, view, step, passed, exhausted, outcome>>

Phases == {"admit", "probe_build", "probe", "ladder", "measure_build", "measure",
           "build", "make", "train", "oom", "done"}

Outcomes == {"none", "raised", "trained", "progressed_oom_preserved",
             "progressed_oom_export_failed", "zero_progress_exhausted"}

Init ==
    /\ p99 \in Quantiles /\ p95 \in {q \in Quantiles : q <= p99}
    /\ \E request \in Requests, gc, supported, summary \in BOOLEAN :
           rungs = Plans(request, gc, supported,
                         IF summary THEN ReducedCaps(p99, p95) ELSE <<>>)
    /\ retains \in [{rungs[i].cap : i \in 1 .. Len(rungs)} \ {FullCap} -> Retentions]
    /\ cuda \in BOOLEAN
    /\ phase = "admit" /\ rung = 1 /\ batch = 1 /\ fallback = 0 /\ admitted = 0
    /\ live = {"initial"} /\ view = 0 /\ step = 0
    /\ passed = {} /\ exhausted = {} /\ outcome = "none"

\* _make_data_view: the initial view has rows, so its training part is not
\* empty; a reduced one is authorized by the fraction of rows it retains.
Authorized(cap) == cap = FullCap \/ retains[cap] >= Required(cap, p99, p95)

Cap == rungs[rung].cap

Run == UNCHANGED <<rungs, retains, p99, p95, cuda>>

Finish(result) == phase' = "done" /\ outcome' = result

\* Anything but out of memory, and out of memory outside the ladder's own try
\* block, leaves the handler; its references die with the frames.
Raises(where) ==
    /\ phase \in where /\ Finish("raised") /\ live' = {}
    /\ Run /\ UNCHANGED <<rung, batch, fallback, admitted, view, step, passed, exhausted>>

-----------------------------------------------------------------------------
\* _admit.

AdmitWithoutCuda ==
    /\ phase = "admit" /\ ~cuda /\ phase' = "ladder"
    /\ live' = {} /\ view' = Cap /\ admitted' = 1
    /\ Run /\ UNCHANGED <<rung, batch, fallback, step, passed, exhausted, outcome>>

\* Mutated form: a rung is the fallback before its rows are authorized.
AdmitRungFallbackFirst ==
    /\ phase = "admit" /\ cuda /\ rung <= Len(rungs)
    /\ view' = Cap /\ fallback' = rung
    /\ IF Authorized(Cap) THEN phase' = "probe_build" /\ UNCHANGED rung
                          ELSE rung' = rung + 1 /\ UNCHANGED phase
    /\ batch' = 1
    /\ Run /\ UNCHANGED <<admitted, live, step, passed, exhausted, outcome>>

AdmitRung ==
    /\ phase = "admit" /\ cuda /\ rung <= Len(rungs)
    /\ view' = Cap
    /\ IF Authorized(Cap) THEN phase' = "probe_build" /\ fallback' = rung /\ UNCHANGED rung
                          ELSE rung' = rung + 1 /\ UNCHANGED <<phase, fallback>>
    /\ batch' = 1
    /\ Run /\ UNCHANGED <<admitted, live, step, passed, exhausted, outcome>>

\* The first probe uses the model run attached; every other one rebuilds it.
ProbeBuild ==
    /\ phase = "probe_build" /\ phase' = "probe"
    /\ live' = IF rung > 1 \/ batch > 1 THEN live \cup {"probe"} ELSE live
    /\ Run
    /\ UNCHANGED <<rung, batch, fallback, admitted, view, step, passed, exhausted, outcome>>

\* Mutated form: the probe's model is not discarded before the next one.
DiscardForgotten(models) == models

\* _discard, and the garbage collection after it.
Discard(models) == {}

\* _probe_once: one optimizer step; whatever its status the model is discarded.
Probe ==
    /\ phase = "probe" /\ live' = Discard(live)
    /\ \E status \in {"PASS", "HEADROOM_EXCEEDED", "OOM"} :
         CASE status = "PASS" /\ batch = 1 ->
                phase' = "probe_build" /\ batch' = 2 /\ UNCHANGED <<rung, admitted, passed>>
           [] status = "PASS" /\ batch = 2 ->
                /\ phase' = "ladder" /\ admitted' = rung /\ passed' = passed \cup {rung}
                /\ UNCHANGED <<rung, batch>>
           [] OTHER ->
                phase' = "admit" /\ rung' = rung + 1 /\ UNCHANGED <<batch, admitted, passed>>
    /\ Run /\ UNCHANGED <<fallback, view, step, exhausted, outcome>>

\* No rung passed: the last authorized one is trained.  The first always is, so
\* "all distribution-authorized SFT geometries were empty" is never raised.
AdmitFallback ==
    /\ phase = "admit" /\ cuda /\ rung > Len(rungs) /\ fallback # 0
    /\ phase' = "ladder" /\ rung' = fallback /\ admitted' = fallback
    /\ view' = rungs[fallback].cap
    /\ Run /\ UNCHANGED <<batch, fallback, live, step, passed, exhausted, outcome>>

-----------------------------------------------------------------------------
\* _train_ladder over plans[admitted_index:].

\* Mutated forms: the view of the rung before; a rejected rung ends the ladder.
TrainRungStaleView ==
    /\ phase = "ladder" /\ rung <= Len(rungs)
    /\ IF Authorized(Cap) THEN phase' = "measure_build" /\ UNCHANGED rung
                          ELSE rung' = rung + 1 /\ UNCHANGED phase
    /\ Run
    /\ UNCHANGED <<batch, fallback, admitted, live, view, step, passed, exhausted, outcome>>

TrainRungStops ==
    /\ phase = "ladder" /\ rung <= Len(rungs)
    /\ view' = Cap
    /\ IF Authorized(Cap) THEN phase' = "measure_build" /\ UNCHANGED rung
                          ELSE rung' = Len(rungs) + 1 /\ UNCHANGED phase
    /\ Run
    /\ UNCHANGED <<batch, fallback, admitted, live, step, passed, exhausted, outcome>>

TrainRung ==
    /\ phase = "ladder" /\ rung <= Len(rungs)
    /\ view' = Cap
    /\ IF Authorized(Cap) THEN phase' = "measure_build" /\ UNCHANGED rung
                          ELSE rung' = rung + 1 /\ UNCHANGED phase
    /\ Run
    /\ UNCHANGED <<batch, fallback, admitted, live, step, passed, exhausted, outcome>>

\* A step of the ladder's try block that puts one more model on the device.
Builds(from, to, owner) ==
    /\ phase = from /\ phase' = to /\ live' = live \cup {owner}
    /\ Run /\ UNCHANGED <<rung, batch, fallback, admitted, view, step, passed, exhausted, outcome>>

\* measure_epochs: a throw-away model times the schedule; time_aware_epochs
\* swallows every error and the model is discarded in a finally clause.
MeasureBuild == Builds("measure_build", "measure", "timing")

Measure ==
    /\ phase = "measure" /\ phase' = "build" /\ live' = Discard(live)
    /\ Run /\ UNCHANGED <<rung, batch, fallback, admitted, view, step, passed, exhausted, outcome>>

Build == Builds("build", "make", "training")

\* The model changes hands, current to trainer: still one.
Make == Builds("make", "train", "training")

TrainStep ==
    /\ phase = "train" /\ step < MaxSteps /\ step' = step + 1
    /\ Run /\ UNCHANGED <<phase, rung, batch, fallback, admitted, live, view, passed,
                          exhausted, outcome>>

\* trainer.train() returns: the schedule is complete or the clock stopped it.
TrainReturns ==
    /\ phase = "train" /\ Finish("trained")
    /\ Run /\ UNCHANGED <<rung, batch, fallback, admitted, live, view, step, passed, exhausted>>

OutOfMemory ==
    /\ phase \in {"measure_build", "build", "make", "train"} /\ phase' = "oom"
    /\ Run /\ UNCHANGED <<rung, batch, fallback, admitted, live, view, step, passed,
                          exhausted, outcome>>

Error == Raises({"probe_build", "probe", "measure_build", "build", "make", "train"})

\* Mutated forms: one rung too far; the same rung again; the next rung whatever
\* the progress.
ZeroProgressSkipsRung ==
    /\ phase = "oom" /\ step = 0 /\ phase' = "ladder" /\ rung' = rung + 2
    /\ live' = Discard(live) /\ exhausted' = exhausted \cup {rung}
    /\ Run /\ UNCHANGED <<batch, fallback, admitted, view, step, passed, outcome>>

ZeroProgressSameRung ==
    /\ phase = "oom" /\ step = 0 /\ phase' = "ladder"
    /\ live' = Discard(live) /\ exhausted' = exhausted \cup {rung}
    /\ Run /\ UNCHANGED <<rung, batch, fallback, admitted, view, step, passed, outcome>>

ZeroProgressAnyStep ==
    /\ phase = "oom" /\ phase' = "ladder" /\ rung' = rung + 1
    /\ live' = Discard(live) /\ exhausted' = exhausted \cup {rung} /\ step' = 0
    /\ Run /\ UNCHANGED <<batch, fallback, admitted, view, passed, outcome>>

ZeroProgressOom ==
    /\ phase = "oom" /\ step = 0 /\ phase' = "ladder" /\ rung' = rung + 1
    /\ live' = Discard(live) /\ exhausted' = exhausted \cup {rung}
    /\ Run /\ UNCHANGED <<batch, fallback, admitted, view, step, passed, outcome>>

\* _preserve_progress: what was learnt is kept and the ladder ends.
ProgressedOom ==
    /\ phase = "oom" /\ step > 0
    /\ \E preserved \in BOOLEAN :
         Finish(IF preserved THEN "progressed_oom_preserved"
                             ELSE "progressed_oom_export_failed")
    /\ Run /\ UNCHANGED <<rung, batch, fallback, admitted, live, view, step, passed, exhausted>>

LadderExhausted ==
    /\ phase = "ladder" /\ rung > Len(rungs) /\ Finish("zero_progress_exhausted")
    /\ Run /\ UNCHANGED <<rung, batch, fallback, admitted, live, view, step, passed, exhausted>>

Terminated == phase = "done" /\ UNCHANGED vars

Next ==
    \/ AdmitWithoutCuda \/ AdmitRung \/ ProbeBuild \/ Probe \/ AdmitFallback
    \/ TrainRung \/ MeasureBuild \/ Measure \/ Build \/ Make
    \/ TrainStep \/ TrainReturns \/ OutOfMemory \/ Error
    \/ ZeroProgressOom \/ ProgressedOom \/ LadderExhausted
    \/ Terminated

\* The handler is one thread that is always runnable until the wall clock kills
\* the container, so a step that can be taken is eventually taken.
Spec == Init /\ [][Next]_vars /\ WF_vars(Next)

-----------------------------------------------------------------------------
\* Properties.

\* Rungs, references and outcomes are those of _plans, _admit and _train_ladder.
TypeOK ==
    /\ rungs \in Seq([batch : {1, 2, 4}, accum : {4, 8, 16}, gc : BOOLEAN, cap : 1 .. FullCap])
    /\ phase \in Phases /\ outcome \in Outcomes
    /\ rung \in 1 .. Len(rungs) + 1 /\ batch \in {1, 2}
    /\ fallback \in 0 .. Len(rungs) /\ admitted \in 0 .. Len(rungs)
    /\ live \subseteq {"initial", "probe", "timing", "training"}
    /\ view \in 0 .. FullCap /\ step \in 0 .. MaxSteps
    /\ passed \subseteq 1 .. Len(rungs) /\ exhausted \subseteq 1 .. Len(rungs)

\* No rung is probed, timed or trained while an earlier model is still held: the
\* hand-over of the single model between run, _admit, _probe_once,
\* measure_epochs and _train_ladder never leaves two on the device.
OneModelOnDevice == Cardinality(live) <= 1

\* The rows a rung is probed, timed and trained with were tokenized for its own
\* cap, and that cap is authorized by the task's distribution.
RowsFitTheRung ==
    phase \in {"probe_build", "probe", "measure_build", "measure", "build", "make",
               "train", "oom"} =>
        view = Cap /\ Authorized(Cap)

\* Going down the ladder never asks for more memory: the batch and the cap do not
\* grow, checkpointing is never given up, no geometry comes twice, and every
\* rung keeps the effective batch of 16.
LadderShrinks ==
    \A i \in 1 .. Len(rungs) :
        /\ rungs[i].batch * rungs[i].accum = EffectiveBatch
        /\ \A j \in i + 1 .. Len(rungs) :
             /\ rungs[j] # rungs[i]
             /\ rungs[j].batch <= rungs[i].batch /\ rungs[j].cap <= rungs[i].cap
             /\ rungs[i].gc => rungs[j].gc

\* Training starts at the first rung whose two probes passed; when none did, at
\* the last one whose rows are authorized; without CUDA, at the first.
FirstFitIsAdmitted ==
    admitted # 0 =>
        IF ~cuda THEN admitted = 1
        ELSE IF passed # {} THEN passed = {admitted}
        ELSE /\ Authorized(rungs[admitted].cap)
             /\ \A j \in admitted + 1 .. Len(rungs) : ~Authorized(rungs[j].cap)

\* The floor is final only when every authorized rung from the admitted one on
\* really ran out of memory at step zero.
ExhaustionIsEarned ==
    outcome = "zero_progress_exhausted" =>
        /\ exhausted # {}
        /\ \A i \in admitted .. Len(rungs) : Authorized(rungs[i].cap) => i \in exhausted

\* Once an optimizer step is done its model is kept: the ladder never builds
\* another one, whatever fails afterwards.
ProgressEndsTheLadder ==
    [][step > 0 => rung' = rung /\ step' >= step /\ phase' \in {"train", "oom", "done"}]_vars

\* The ladder comes to an end, whatever runs out of memory and wherever.
LadderTerminates == <>(phase = "done")
=============================================================================
