----------------------------- MODULE EpochPlan -----------------------------
(***************************************************************************)
(* time_aware_epochs (src/forge/tasks/common.py): a short probe with a     *)
(* learning rate of zero measures the cost of a step, and the schedule is  *)
(* sized to the time that is left, so that the learning rate completes its *)
(* cooldown.  A step costs `warm` until the timer starts and `steady` from *)
(* then on; the real numbers of the code are scaled down by the constants. *)
(***************************************************************************)
EXTENDS Naturals

CONSTANTS
    Budgets,       \* deadline.remaining() when the planner is called
    Costs,         \* what a step may cost
    Builds,        \* what the construction of the probing trainer may cost
    EpochSteps,    \* steps_per_epoch: rows over the effective batch
    From, To,      \* the timed steps (10 and 30)
    TightBudget,   \* 900 s
    MinEpochSteps, \* 60 steps' worth of rows
    ProbeShare,    \* 12, percent of the budget
    ProbeFloor, ProbeCeiling,  \* 60 s and 180 s
    LowTime,       \* 600 s
    Slack,         \* 60 s for building the real trainer
    Margin         \* 90 or 82, percent

ASSUME EpochPlanAssumption ==
    /\ Budgets \subseteq Nat /\ Costs \subseteq Nat \ {0}
    /\ Builds \subseteq Nat /\ EpochSteps \subseteq Nat \ {0}
    /\ From \in Nat /\ To \in Nat /\ 0 < From /\ From < To
    /\ {TightBudget, MinEpochSteps, ProbeFloor, ProbeCeiling, LowTime, Slack} \subseteq Nat
    /\ ProbeShare \in 0 .. 100 /\ Margin \in 0 .. 100

Atmost(a, b)  == IF a < b THEN a ELSE b
Atleast(a, b) == IF a < b THEN b ELSE a
Minus(a, b)   == IF a < b THEN 0 ELSE a - b

VARIABLES
    budget, build, warm, steady, epochSteps,  \* fixed for a run
    phase, now, step, t10, t30,        \* now is the time since the call; 0: not taken
    epochs                             \* the answer, in hundredths; 0 is None

vars == <<budget, build, warm, steady, epochSteps, phase, now, step, t10, t30, epochs>>

Init ==
    /\ budget \in Budgets /\ epochSteps \in EpochSteps
    /\ build \in Builds /\ warm \in Costs /\ steady \in Costs
    /\ phase = "start" /\ now = 0 /\ step = 0 /\ t10 = 0 /\ t30 = 0 /\ epochs = 0

Remaining == Minus(budget, now)

ProbeStopAt ==
    Atmost(ProbeCeiling, Atleast(ProbeFloor, (budget * ProbeShare) \div 100))

OutOfProbeTime == now >= ProbeStopAt \/ Remaining <= LowTime

Run == UNCHANGED <<budget, build, warm, steady, epochSteps>>

Skip ==
    /\ phase = "start" /\ phase' = "done"
    /\ budget < TightBudget \/ epochSteps < MinEpochSteps
    /\ Run /\ UNCHANGED <<now, step, t10, t30, epochs>>

\* The probe's share of the time is fixed before its trainer is constructed, and
\* not looked at until the first step.
StartProbe ==
    /\ phase = "start" /\ phase' = "probe"
    /\ ~(budget < TightBudget \/ epochSteps < MinEpochSteps)
    /\ now' = build
    /\ Run /\ UNCHANGED <<step, t10, t30, epochs>>

StepCost == IF step < From THEN warm ELSE steady

\* Mutated form: the timer starts with the first step.
TimerFirst == 1

TimerStart == From

\* Mutated form: the probe runs to its end whatever the time.
EndsProbeLate == step' >= To

EndsProbe == step' # TimerStart /\ (step' >= To \/ OutOfProbeTime')

\* One optimizer step of the probe, and the timer's on_step_end: at the step
\* that starts the timer the time limit is not looked at.
ProbeStep ==
    /\ phase = "probe"
    /\ step' = step + 1
    /\ now' = now + StepCost
    /\ t10' = IF step' = TimerStart THEN now' ELSE t10
    /\ t30' = IF step' >= To /\ t30 = 0 THEN now' ELSE t30
    /\ Run /\ UNCHANGED epochs
    /\ phase' = IF EndsProbe THEN "plan" ELSE "probe"

\* Some of a step's micro-steps.
PartOfStep == now' \in now .. (now + StepCost - 1)

\* The limit has passed at the end of a micro-step inside an accumulation window.
ProbeCut ==
    /\ phase = "probe" /\ phase' = "plan"
    /\ Run /\ PartOfStep
    /\ OutOfProbeTime'
    /\ UNCHANGED <<step, t10, t30, epochs>>

\* The probe raises, out of memory or otherwise: the plan keeps its default.
ProbeRaises ==
    /\ phase = "probe" /\ phase' = "done"
    /\ PartOfStep
    /\ Run /\ UNCHANGED <<step, t10, t30, epochs>>

TimedSteps == To - From

\* round(achievable / steps_per_epoch, 2), in hundredths, before the bounds.
Achievable ==
    LET num == Minus(Remaining, Slack) * TimedSteps * Margin
        den == (t30 - t10) * epochSteps
    IN (2 * num + den) \div (2 * den)

\* Mutated forms: no margin, no slack; a plan of half the budget.
PlannedWithoutMargin ==
    LET den == (t30 - t10) * epochSteps
    IN Atleast(5, Atmost(400, (2 * Remaining * TimedSteps * 100 + den) \div (2 * den)))

PlannedHalf == Atleast(5, Atmost(400, Achievable \div 2))

Planned == Atleast(5, Atmost(400, Achievable))

\* A partial probe is discarded.
Plan ==
    /\ phase = "plan" /\ phase' = "done"
    /\ epochs' = IF t10 = 0 \/ t30 = 0 THEN 0 ELSE Planned
    /\ Run /\ UNCHANGED <<now, step, t10, t30>>

Terminated == phase = "done" /\ UNCHANGED vars

Next ==
    Skip \/ StartProbe \/ ProbeStep \/ ProbeCut \/ ProbeRaises \/ Plan \/ Terminated

Spec == Init /\ [][Next]_vars

-----------------------------------------------------------------------------
\* Properties.

\* The real schedule, in hundredths of a second: its epochs at the steady cost.
Schedule == epochs * epochSteps * steady

\* The schedule completes before the soft stop instead of being cut in the middle
\* of its cooldown, whenever the budget holds the smallest schedule the planner
\* knows: neither warm-up steps, rounding nor the probe's own time spoil it.
ScheduleCompletesIfAny ==
    epochs # 0 /\ 5 * epochSteps * steady <= 100 * Remaining => Schedule <= 100 * Remaining

\* The budget is used: a schedule below the cap of four epochs takes the margin's
\* share of the window, up to the rounding.
BudgetIsFilled ==
    epochs # 0 /\ epochs < 400 =>
        Schedule + epochSteps * steady >= Margin * Minus(Remaining, Slack)

\* The probe itself ends when its share of the budget is used up, or its trainer
\* is there if that takes longer, at most two steps later.
ProbeIsBounded ==
    phase # "start" =>
        now <= Atleast(ProbeStopAt, build) + 2 * Atleast(warm, steady)
=============================================================================
