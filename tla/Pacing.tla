------------------------------- MODULE Pacing -------------------------------
(***************************************************************************)
(* Training against the wall clock: Deadline (src/forge/clock.py) and      *)
(* DeadlineCallback (src/forge/tuning/callbacks.py) inside the Trainer's   *)
(* step loop, whose schedule is longer than the time there is.  Time is an *)
(* integer.  What a step, the callbacks after it and the final export cost *)
(* is chosen by the environment; the container is killed at HardStop.      *)
(***************************************************************************)
EXTENDS Integers, Sequences, FiniteSets, FiniteSetsExt, SequencesExt

CONSTANTS
    HardStop,     \* hard_stop, the process starting at time 0
    Reserve,      \* export_reserve_s
    Window,       \* number of step costs kept (50 in the code)
    MicroCosts,   \* time of one forward and backward pass
    AfterCosts,   \* time of the callbacks that run after the deadline's: mirror, evaluation
    ExportCosts,  \* time of the final save
    Accumulation  \* possible gradient_accumulation_steps

ASSUME PacingAssumption ==
    /\ HardStop \in Nat /\ Reserve \in 0 .. HardStop /\ Window \in Nat \ {0}
    /\ MicroCosts \subseteq Nat \ {0} /\ MicroCosts # {}
    /\ AfterCosts \subseteq Nat /\ AfterCosts # {}
    /\ ExportCosts \subseteq Nat /\ ExportCosts # {}
    /\ Accumulation \subseteq Nat \ {0}
    \* The reserve holds the export, and what may run after the last look at the
    \* clock: one micro-step, and the callbacks before and after it.
    /\ \A d \in MicroCosts, a, b \in AfterCosts, e \in ExportCosts :
          a + d + b + e <= Reserve

VARIABLES
    accumulation, \* fixed for a run
    now, phase,
    micro,        \* micro-steps done in the current optimizer step
    started,      \* _step_started
    costs,        \* _step_costs
    stopping      \* control.should_training_stop

vars == <<accumulation, now, phase, micro, started, costs, stopping>>

Horizon == HardStop + 1   \* bound: the clock stands still once it is past the kill

After(d) == IF now + d > Horizon THEN Horizon ELSE now + d

SoftStop == HardStop - Reserve

Remaining == IF now < SoftStop THEN SoftStop - now ELSE 0

\* The k-th cost of the sorted window: the least time that k of the costs keep.
Ranked(k) ==
    Min({c \in 0 .. Horizon : Cardinality({i \in DOMAIN costs : costs[i] <= c}) >= k})

\* Mutated form: the mean of the window, as two times its value.
TwiceMean ==
    IF costs = <<>> THEN 0
    ELSE (2 * FoldLeft(LAMBDA a, b : a + b, 0, costs)) \div Len(costs)

\* per_step, times two so that it is an integer: the median, 0 for no timing.
TwicePerStep ==
    LET n == Len(costs) mid == n \div 2 IN
    IF n = 0 THEN 0
    ELSE IF n % 2 = 1 THEN 2 * Ranked(mid + 1)
    ELSE Ranked(mid) + Ranked(mid + 1)

Init ==
    /\ accumulation \in Accumulation
    /\ now = 0 /\ phase = "begin" /\ micro = 0 /\ started = 0
    /\ costs = <<>> /\ stopping = FALSE

StepBegin ==
    /\ phase = "begin" /\ phase' = "micro"
    /\ started' = now /\ micro' = 0
    /\ UNCHANGED <<accumulation, now, costs, stopping>>

\* Mutated form: no look at the clock inside an accumulation window.
SubstepBlind ==
    /\ phase = "micro" /\ micro + 1 < accumulation
    /\ \E d \in MicroCosts : now' = After(d)
    /\ micro' = micro + 1
    /\ UNCHANGED <<accumulation, phase, started, costs, stopping>>

\* on_substep_end: the loop breaks as soon as the soft stop has passed.
Substep ==
    /\ phase = "micro" /\ micro + 1 < accumulation
    /\ \E d \in MicroCosts : now' = After(d)
    /\ micro' = micro + 1
    /\ stopping' = (stopping \/ Remaining' = 0)
    /\ phase' = IF stopping' THEN "export" ELSE "micro"
    /\ UNCHANGED <<accumulation, started, costs>>

LastMicroStep ==
    /\ phase = "micro" /\ micro + 1 = accumulation /\ phase' = "step_end"
    /\ \E d \in MicroCosts : now' = After(d)
    /\ micro' = micro + 1
    /\ UNCHANGED <<accumulation, started, costs, stopping>>

\* record_step: a trailing window.
Record(cost) ==
    LET longer == Append(costs, cost) IN
    IF Len(longer) > Window THEN Tail(longer) ELSE longer

\* Mutated form: the deadline is looked at only inside accumulation windows.
MustStopNever == FALSE

\* One measured step and half another no longer fit before the soft stop.
MustStop == 4 * Remaining <= 3 * TwicePerStep

\* on_step_end of DeadlineCallback, the first of the callbacks.
StepEnd ==
    /\ phase = "step_end" /\ phase' = "after"
    /\ UNCHANGED <<accumulation, now, micro, started>>
    /\ costs' = Record(now - started)
    /\ stopping' = (stopping \/ MustStop')

\* The other callbacks, evaluation included: not part of a measured step.
AfterStep ==
    /\ phase = "after" /\ phase' = IF stopping THEN "export" ELSE "begin"
    /\ \E d \in AfterCosts : now' = After(d)
    /\ UNCHANGED <<accumulation, micro, started, costs, stopping>>

\* The handler's final save.
Export ==
    /\ phase = "export" /\ phase' = "exported"
    /\ \E d \in ExportCosts : now' = After(d)
    /\ UNCHANGED <<accumulation, micro, started, costs, stopping>>

Terminated == phase = "exported" /\ UNCHANGED vars

Next ==
    StepBegin \/ Substep \/ LastMicroStep \/ StepEnd \/ AfterStep \/ Export \/ Terminated

\* The training thread runs: no step, callback or save blocks for ever.
Spec == Init /\ [][Next]_vars /\ WF_vars(Next)

-----------------------------------------------------------------------------
\* Properties.

\* The window holds at most Window costs of finished steps.
TypeOK ==
    /\ accumulation \in Accumulation /\ now \in 0 .. Horizon
    /\ phase \in {"begin", "micro", "step_end", "after", "export", "exported"}
    /\ micro \in 0 .. accumulation /\ started \in 0 .. now
    /\ costs \in Seq(0 .. Horizon) /\ Len(costs) <= Window
    /\ stopping \in BOOLEAN

\* The final model is written before the kill, however the costs of steps and
\* callbacks vary, as long as the reserve holds what PacingAssumption says.
ExportedBeforeKill == phase = "exported" => now <= HardStop

\* A slow step does not end training: while most of the window is fast steps,
\* the deadline stops only when one and a half fast steps no longer fit.
StraySlowStepIsHarmless ==
    [][phase = "step_end" /\ ~stopping /\ stopping' =>
         \A fast \in 1 .. Horizon :
             2 * Cardinality({i \in DOMAIN costs' : costs'[i] > fast}) < Len(costs') =>
                 2 * Remaining <= 3 * fast]_vars

\* Training does not go on for ever, although its schedule would.
TrainingEnds == <>(phase = "exported")
=============================================================================
