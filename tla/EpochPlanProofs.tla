-------------------------- MODULE EpochPlanProofs --------------------------
(***************************************************************************)
(* Theorems about EpochPlan, for every budget, cost of a step, length of   *)
(* an epoch and threshold of time_aware_epochs.                            *)
(***************************************************************************)
EXTENDS EpochPlan, Integers, TLAPS

-----------------------------------------------------------------------------
\* The inductive invariant.

TypeOK ==
    /\ budget \in Nat /\ build \in Nat /\ warm \in Nat \ {0} /\ steady \in Nat \ {0}
    /\ epochSteps \in Nat \ {0}
    /\ phase \in {"start", "probe", "plan", "done"}
    /\ now \in Nat /\ step \in Nat /\ t10 \in Nat /\ t30 \in Nat /\ epochs \in Nat

\* What the timer of the probe knows: it starts at one step, counts steady steps
\* from then on, and stops at the other.
Timer ==
    /\ phase = "start" => step = 0 /\ now = 0
    /\ phase = "probe" => step < To
    /\ t10 = 0 <=> step < From
    /\ t10 # 0 /\ (phase = "probe" \/ t30 # 0) => now = t10 + (step - From) * steady
    /\ t30 # 0 => step = To /\ t30 = now

\* The limit is looked at after every step but the one that starts the timer.
FirstLook == Atleast(ProbeStopAt, build)

Limit ==
    /\ phase = "probe" /\ step # From => now <= FirstLook
    /\ phase = "probe" /\ step = From => now <= FirstLook + warm

\* A plan is made of a whole probe only.
Answer == epochs # 0 => phase = "done" /\ t30 # 0 /\ epochs = Planned

IInv == TypeOK /\ Timer /\ Limit /\ ProbeIsBounded /\ Answer

-----------------------------------------------------------------------------
\* Arithmetic.

LEMMA Division ==
    ASSUME NEW n \in Nat \ {0}, NEW a \in Nat
    PROVE  /\ a \div n \in Nat
           /\ n * (a \div n) <= a /\ a < n * (a \div n) + n
  OBVIOUS

LEMMA MulOrder ==
    ASSUME NEW t \in Nat \ {0}, NEW a \in Int, NEW b \in Int, t * a <= t * b
    PROVE  a <= b
  <1>1. SUFFICES ASSUME a >= b + 1 PROVE FALSE OBVIOUS
  <1>2. t * a >= t * (b + 1) BY <1>1
  <1>3. t * (b + 1) = t * b + t OBVIOUS
  <1>4. t * b \in Int /\ t * a \in Int OBVIOUS
  <1>5. QED BY <1>2, <1>3, <1>4

LEMMA MulBelow ==
    ASSUME NEW t \in Nat \ {0}, NEW a \in Int, NEW b \in Int, t * a < t * b
    PROVE  a < b
  <1>1. SUFFICES ASSUME a >= b PROVE FALSE OBVIOUS
  <1>2. t * a >= t * b BY <1>1
  <1>3. t * b \in Int /\ t * a \in Int OBVIOUS
  <1>4. QED BY <1>2, <1>3

\* Dividing with rounding to the nearest errs by at most a half, and a common
\* factor of both sides does not matter.
LEMMA Rounding ==
    ASSUME NEW t \in Nat \ {0}, NEW w \in Nat, NEW k \in Nat \ {0}
    PROVE  LET a == (2 * (t * w) + t * k) \div (2 * (t * k))
           IN  /\ a \in Nat
               /\ 2 * (k * a) <= 2 * w + k
               /\ 2 * w < 2 * (k * a) + k
  <1> DEFINE n == 2 * (t * k)
             x == 2 * (t * w) + t * k
             a == x \div n
  <1>1. n \in Nat \ {0} /\ x \in Nat
    <2>1. t * k \in Nat \ {0} /\ t * w \in Nat OBVIOUS
    <2>2. QED BY <2>1
  <1>2. a \in Nat /\ n * a <= x /\ x < n * a + n BY <1>1, Division
  <1>3. n * a = t * (2 * (k * a)) BY <1>2
  <1>4. x = t * (2 * w + k) OBVIOUS
  <1>5. n * a + n = t * (2 * (k * a) + 2 * k) BY <1>2, <1>3
  <1> HIDE DEF n, x, a
  <1>6. k * a \in Nat BY <1>2
  <1>7. 2 * (k * a) <= 2 * w + k BY <1>2, <1>3, <1>4, <1>6, MulOrder
  <1>8. 2 * w + k < 2 * (k * a) + 2 * k BY <1>2, <1>4, <1>5, <1>6, MulBelow
  <1>9. 2 * w < 2 * (k * a) + k BY <1>6, <1>8
  <1>10. QED BY <1>2, <1>7, <1>9 DEF a, x, n

LEMMA Limits ==
    ASSUME NEW x \in Nat
    PROVE  /\ Atmost(ProbeCeiling, Atleast(ProbeFloor, (x * ProbeShare) \div 100)) \in Nat
           /\ \A y \in Nat : Minus(x, y) \in Nat
  <1>1. (x * ProbeShare) \div 100 \in Nat
    <2>1. x * ProbeShare \in Nat BY EpochPlanAssumption
    <2>2. QED BY <2>1, Division
  <1>2. ProbeCeiling \in Nat /\ ProbeFloor \in Nat BY EpochPlanAssumption
  <1>3. QED BY <1>1, <1>2 DEF Atmost, Atleast, Minus

\* The whole schedule of a whole probe: at the steady cost it takes the margin's
\* share of the window, up to half an epoch's rounding of a hundredth.
LEMMA AchievableOfSteady ==
    ASSUME TypeOK, t30 - t10 = TimedSteps * steady
    PROVE  LET k == epochSteps * steady
               w == Minus(Remaining, Slack) * Margin
           IN  /\ Achievable \in Nat
               /\ 2 * (k * Achievable) <= 2 * w + k
               /\ 2 * w < 2 * (k * Achievable) + k
  <1> DEFINE k == epochSteps * steady
             w == Minus(Remaining, Slack) * Margin
             a == (2 * (TimedSteps * w) + TimedSteps * k) \div (2 * (TimedSteps * k))
  <1>1. TimedSteps \in Nat \ {0} BY EpochPlanAssumption DEF TimedSteps
  <1>2. Remaining \in Nat /\ Minus(Remaining, Slack) \in Nat
    BY EpochPlanAssumption DEF TypeOK, Minus, Remaining
  <1>3. w \in Nat /\ k \in Nat \ {0} /\ Margin \in Nat
    BY <1>2, EpochPlanAssumption DEF TypeOK
  <1>4. Achievable = a
    <2>1. Minus(Remaining, Slack) * TimedSteps * Margin = TimedSteps * w BY <1>1, <1>2, <1>3
    <2>2. (TimedSteps * steady) * epochSteps = TimedSteps * k BY <1>1 DEF TypeOK
    <2>3. (t30 - t10) * epochSteps = TimedSteps * k BY <2>2
    <2> HIDE DEF k, w
    <2>4. QED BY <2>1, <2>3 DEF Achievable
  <1> HIDE DEF k, w
  <1>5. /\ a \in Nat
        /\ 2 * (k * a) <= 2 * w + k
        /\ 2 * w < 2 * (k * a) + k
    BY <1>1, <1>3, Rounding
  <1> HIDE DEF a
  <1>6. QED BY <1>4, <1>5 DEF k, w

-----------------------------------------------------------------------------
\* The initial states.
LEMMA InitIInv == Init => IInv
  <1> SUFFICES ASSUME Init PROVE IInv OBVIOUS
  <1>1. TypeOK BY EpochPlanAssumption DEF Init, TypeOK
  <1>2. Timer BY EpochPlanAssumption DEF Init, Timer
  <1>3. QED BY <1>1, <1>2 DEF Init, IInv, Limit, ProbeIsBounded, Answer

\* The part of a step before a limit or an error cuts it is shorter than the step.
LEMMA Part ==
    ASSUME TypeOK, PartOfStep
    PROVE  /\ now' \in Nat /\ now <= now'
           /\ now' <= now + (IF step < From THEN warm ELSE steady)
  BY EpochPlanAssumption DEF TypeOK, PartOfStep, StepCost

LEMMA StepTypeOK == IInv /\ [Next]_vars => TypeOK'
  <1> SUFFICES ASSUME IInv, [Next]_vars PROVE TypeOK' OBVIOUS
  <1>0. TypeOK BY DEF IInv
  <1>1. CASE Skip BY <1>0, <1>1 DEF TypeOK, Skip, Run
  <1>2. CASE StartProbe BY <1>0, <1>2 DEF TypeOK, StartProbe, Run
  <1>3. CASE ProbeStep BY <1>0, <1>3 DEF TypeOK, ProbeStep, StepCost, Run
  <1>4. CASE ProbeCut BY <1>0, <1>4, Part DEF TypeOK, ProbeCut, Run
  <1>5. CASE ProbeRaises BY <1>0, <1>5, Part DEF TypeOK, ProbeRaises, Run
  <1>6. CASE Plan
    <2>1. t10 # 0 /\ t30 # 0 => Planned \in Nat
      <3> SUFFICES ASSUME t10 # 0, t30 # 0 PROVE Planned \in Nat OBVIOUS
      <3>1. t30 - t10 = TimedSteps * steady
        BY <1>0, EpochPlanAssumption DEF IInv, Timer, TypeOK, TimedSteps
      <3>2. Achievable \in Nat BY <1>0, <3>1, AchievableOfSteady
      <3>3. QED BY <3>2 DEF Planned, Atleast, Atmost
    <2>2. QED BY <1>0, <1>6, <2>1 DEF TypeOK, Plan, Run
  <1>7. CASE Terminated \/ UNCHANGED vars BY <1>0, <1>7 DEF TypeOK, Terminated, vars
  <1>8. QED BY <1>1, <1>2, <1>3, <1>4, <1>5, <1>6, <1>7 DEF Next

LEMMA StepTimer == IInv /\ [Next]_vars => Timer'
  <1> SUFFICES ASSUME IInv, [Next]_vars PROVE Timer' OBVIOUS
  <1>0. TypeOK /\ Timer BY DEF IInv
  <1>1. CASE Skip BY <1>0, <1>1 DEF Timer, Skip, Run
  <1>2. CASE StartProbe
    BY <1>0, <1>2, EpochPlanAssumption DEF Timer, StartProbe, Run
  <1>3. CASE ProbeStep
    <2>1. /\ step < To /\ step' = step + 1 /\ step \in Nat /\ step' \in Nat /\ From < To
          /\ From \in Nat /\ To \in Nat /\ warm' = warm /\ steady' = steady
          /\ now \in Nat /\ warm \in Nat \ {0} /\ steady \in Nat \ {0}
      BY <1>0, <1>3, EpochPlanAssumption DEF Timer, ProbeStep, TypeOK, Run
    <2>2. now' = now + (IF step < From THEN warm ELSE steady) /\ now' \in Nat \ {0}
      BY <1>3, <2>1 DEF ProbeStep, StepCost
    <2>3. phase' = "probe" => step' < To
      BY <1>3, <2>1 DEF ProbeStep, EndsProbe, TimerStart
    <2>4. t10' = 0 <=> step' < From
      <3>1. t10 = 0 <=> step < From BY <1>0 DEF Timer
      <3>2. t10' = IF step' = From THEN now' ELSE t10 BY <1>3 DEF ProbeStep, TimerStart
      <3>3. QED BY <2>1, <2>2, <3>1, <3>2
    <2>5. t10' # 0 => now' = t10' + (step' - From) * steady'
      <3>1. CASE step' = From
        <4>1. t10' = now' BY <1>3, <3>1 DEF ProbeStep, TimerStart
        <4>2. step' - From = 0 /\ 0 * steady' = 0 BY <2>1, <3>1
        <4>3. QED BY <2>2, <4>1, <4>2
      <3>2. CASE step' < From BY <2>4, <3>2
      <3>3. CASE step' > From
        <4>1. t10' = t10 /\ t10 \in Nat /\ step \in Nat
          BY <1>0, <1>3, <2>1, <3>3 DEF ProbeStep, TimerStart, TypeOK
        <4>2. now = t10 + (step - From) * steady /\ now' = now + steady
          BY <1>0, <1>3, <2>1, <2>2, <2>4, <3>3, <4>1 DEF Timer, ProbeStep
        <4>3. (step + 1 - From) * steady = (step - From) * steady + steady
          BY <2>1, <4>1
        <4>4. (step - From) * steady \in Int BY <2>1, <4>1
        <4>5. QED BY <2>1, <4>1, <4>2, <4>3, <4>4
      <3>4. QED BY <2>1, <3>1, <3>2, <3>3
    <2>6. t30' # 0 => step' = To /\ t30' = now'
      <3>1. t30 = 0 BY <1>0, <2>1 DEF Timer
      <3>2. t30' = IF step' >= To /\ t30 = 0 THEN now' ELSE t30 BY <1>3 DEF ProbeStep
      <3>3. QED BY <2>1, <3>1, <3>2
    <2>7. phase' # "start" /\ step' # 0 BY <1>0, <1>3, <2>1 DEF ProbeStep, TypeOK
    <2>8. QED BY <2>3, <2>4, <2>5, <2>6, <2>7 DEF Timer
  <1>4. CASE ProbeCut
    <2>1. t30 = 0 BY <1>0, <1>4, EpochPlanAssumption DEF Timer, ProbeCut, TypeOK
    <2>2. QED BY <1>0, <1>4, <2>1 DEF Timer, ProbeCut, Run
  <1>5. CASE ProbeRaises
    <2>1. t30 = 0 BY <1>0, <1>5, EpochPlanAssumption DEF Timer, ProbeRaises, TypeOK
    <2>2. QED BY <1>0, <1>5, <2>1 DEF Timer, ProbeRaises, Run
  <1>6. CASE Plan BY <1>0, <1>6 DEF Timer, Plan, Run
  <1>7. CASE Terminated \/ UNCHANGED vars BY <1>0, <1>7 DEF Timer, Terminated, vars
  <1>8. QED BY <1>1, <1>2, <1>3, <1>4, <1>5, <1>6, <1>7 DEF Next

LEMMA StepLimit == IInv /\ [Next]_vars => Limit' /\ ProbeIsBounded'
  <1> SUFFICES ASSUME IInv, [Next]_vars PROVE Limit' /\ ProbeIsBounded' OBVIOUS
  <1> DEFINE longest == Atleast(warm, steady)
  <1>0. TypeOK /\ Timer /\ Limit BY DEF IInv
  <1>a. /\ ProbeStopAt \in Nat /\ FirstLook \in Nat
        /\ ProbeStopAt <= FirstLook /\ build <= FirstLook
    <2>1. ProbeStopAt \in Nat BY <1>0, Limits DEF TypeOK, ProbeStopAt
    <2>2. QED BY <1>0, <2>1 DEF TypeOK, FirstLook, Atleast
  <1>b. UNCHANGED <<budget, build, warm, steady>>
    BY DEF Next, Skip, StartProbe, ProbeStep, ProbeCut, ProbeRaises, Plan,
           Terminated, Run, vars
  <1>c. ProbeStopAt' = ProbeStopAt /\ FirstLook' = FirstLook
    BY <1>b DEF ProbeStopAt, FirstLook
  <1>d. /\ warm \in Nat /\ steady \in Nat /\ longest \in Nat
        /\ warm <= longest /\ steady <= longest
    BY <1>0 DEF TypeOK, Atleast
  <1>e. ProbeIsBounded <=> (phase # "start" => now <= FirstLook + 2 * longest)
    BY DEF ProbeIsBounded, FirstLook
  <1>f. ProbeIsBounded' <=> (phase' # "start" => now' <= FirstLook + 2 * longest)
    BY <1>b, <1>c DEF ProbeIsBounded, FirstLook
  <1>g. phase # "start" => now <= FirstLook + 2 * longest BY <1>e DEF IInv
  <1>h. now \in Nat /\ From \in Nat /\ step \in Nat
    BY <1>0, EpochPlanAssumption DEF TypeOK
  <1> HIDE DEF longest
  <1>1. CASE Skip
    BY <1>0, <1>1, <1>a, <1>d, <1>f DEF Limit, Skip, Timer
  <1>2. CASE StartProbe
    <2>1. step' = 0 /\ now' = build /\ From # 0
      BY <1>0, <1>2, EpochPlanAssumption DEF StartProbe, Timer
    <2>2. now' <= FirstLook BY <1>a, <2>1
    <2>3. build \in Nat BY <1>0 DEF TypeOK
    <2>4. QED BY <1>a, <1>c, <1>d, <1>f, <2>1, <2>2, <2>3 DEF Limit
  <1>3. CASE ProbeStep
    <2>1. /\ step' = step + 1
          /\ now' = now + (IF step < From THEN warm ELSE steady)
          /\ phase = "probe" /\ phase' # "start"
      BY <1>3, <1>0 DEF ProbeStep, StepCost, TypeOK
    <2>2. CASE step = From
      <3>1. now <= FirstLook + warm /\ now' = now + steady
        BY <1>0, <1>h, <2>1, <2>2 DEF Limit
      <3>2. phase' = "probe" => now' < ProbeStopAt
        BY <1>3, <1>a, <1>c, <1>d, <1>h, <2>1, <2>2, <3>1
           DEF ProbeStep, EndsProbe, TimerStart, OutOfProbeTime
      <3>3. QED
        BY <1>a, <1>b, <1>c, <1>d, <1>f, <1>h, <2>1, <2>2, <3>1, <3>2 DEF Limit
    <2>3. CASE step # From
      <3>1. now <= FirstLook BY <1>0, <2>1, <2>3 DEF Limit
      <3>2. phase' = "probe" /\ step' # From => now' < ProbeStopAt
        BY <1>3, <1>a, <1>c, <1>d, <1>h, <2>1, <3>1
           DEF ProbeStep, EndsProbe, TimerStart, OutOfProbeTime
      <3>3. step' = From => now' <= FirstLook + warm
        BY <1>a, <1>d, <1>h, <2>1, <3>1
      <3>4. now' <= FirstLook + longest BY <1>a, <1>d, <1>h, <2>1, <3>1
      <3>5. QED
        BY <1>a, <1>b, <1>c, <1>d, <1>f, <1>h, <2>1, <3>2, <3>3, <3>4 DEF Limit
    <2>4. QED BY <2>2, <2>3
  <1>4. CASE ProbeCut \/ ProbeRaises
    <2>1. /\ phase = "probe" /\ phase' # "probe" /\ now' \in Nat
          /\ now' <= now + (IF step < From THEN warm ELSE steady)
      BY <1>0, <1>4, Part DEF ProbeCut, ProbeRaises
    <2>2. now' <= FirstLook + 2 * longest
      BY <1>0, <1>a, <1>d, <1>h, <2>1 DEF Limit
    <2>3. QED BY <1>f, <2>1, <2>2 DEF Limit
  <1>5. CASE Plan
    BY <1>5, <1>f, <1>g DEF Limit, Plan
  <1>6. CASE Terminated \/ UNCHANGED vars
    BY <1>0, <1>6, <1>b, <1>c, <1>f, <1>g DEF Limit, Terminated, vars
  <1>7. QED BY <1>1, <1>2, <1>3, <1>4, <1>5, <1>6 DEF Next

\* What an answer is computed from does not change after it.
LEMMA StepAnswer == IInv /\ [Next]_vars => Answer'
  <1> SUFFICES ASSUME IInv, [Next]_vars PROVE Answer' OBVIOUS
  <1>0. Answer BY DEF IInv
  <1>1. CASE UNCHANGED epochs /\ phase # "done"
    BY <1>0, <1>1 DEF Answer
  <1>2. CASE ProbeStep BY <1>0, <1>2 DEF Answer, ProbeStep
  <1>3. CASE Plan
    <2>1. UNCHANGED <<budget, epochSteps, now, t10, t30>> /\ phase' = "done"
      BY <1>3 DEF Plan, Run
    <2>2. Planned' = Planned
      BY <2>1 DEF Planned, Achievable, Remaining
    <2>3. epochs' # 0 => t30 # 0 /\ epochs' = Planned BY <1>3 DEF Plan
    <2>4. QED BY <2>1, <2>2, <2>3 DEF Answer
  <1>4. CASE Terminated \/ UNCHANGED vars
    <2>1. UNCHANGED vars BY <1>4 DEF Terminated
    <2>2. Planned' = Planned BY <2>1 DEF vars, Planned, Achievable, Remaining
    <2>3. QED BY <1>0, <2>1, <2>2 DEF Answer, vars
  <1>5. QED
    BY <1>1, <1>2, <1>3, <1>4
       DEF Next, Skip, StartProbe, ProbeCut, ProbeRaises, Run

-----------------------------------------------------------------------------
\* The invariant behind the theorems of this module: the timer, the limit of the
\* probe and what an answer was computed from.
THEOREM IInvHolds == Spec => []IInv
  <1>1. IInv /\ [Next]_vars => IInv'
    BY StepTypeOK, StepTimer, StepLimit, StepAnswer DEF IInv
  <1>2. QED BY InitIInv, <1>1, PTL DEF Spec

\* The probe of time_aware_epochs ends when its share of the budget is used up, or
\* its trainer is there, at most two steps later, whatever a step costs.
THEOREM ProbeStaysBounded == Spec => []ProbeIsBounded
  <1>1. IInv => ProbeIsBounded BY DEF IInv
  <1>2. QED BY IInvHolds, <1>1, PTL

\* What the invariant knows of an answer.
LEMMA Answered ==
    ASSUME IInv, epochs # 0
    PROVE  /\ TypeOK /\ epochs = Planned
           /\ t30 - t10 = TimedSteps * steady
  <1>1. TypeOK /\ Timer /\ Answer BY DEF IInv
  <1>2. t30 # 0 /\ epochs = Planned BY <1>1 DEF Answer
  <1>3. step = To /\ t30 = now /\ t10 # 0
    BY <1>1, <1>2, EpochPlanAssumption DEF Timer, TypeOK
  <1>4. now = t10 + (To - From) * steady BY <1>1, <1>2, <1>3 DEF Timer
  <1>5. (To - From) * steady \in Int BY <1>1, EpochPlanAssumption DEF TypeOK
  <1>6. QED BY <1>1, <1>2, <1>3, <1>4, <1>5 DEF TypeOK, TimedSteps

\* A schedule between the bounds takes the margin's share of the window: the cost
\* that the timer measures is the cost that the schedule is made of, and rounding
\* loses half a hundredth of an epoch.
THEOREM BudgetFilled == Spec => []BudgetIsFilled
  <1>1. IInv => BudgetIsFilled
    <2> SUFFICES ASSUME IInv, epochs # 0, epochs < 400
                 PROVE  Schedule + epochSteps * steady >= Margin * Minus(Remaining, Slack)
      BY DEF BudgetIsFilled
    <2> DEFINE k == epochSteps * steady
               w == Minus(Remaining, Slack) * Margin
    <2>1. TypeOK /\ epochs = Planned /\ t30 - t10 = TimedSteps * steady BY Answered
    <2>2. /\ Achievable \in Nat
          /\ 2 * w < 2 * (k * Achievable) + k
      BY <2>1, AchievableOfSteady
    <2>3. epochs \in Nat /\ Achievable <= epochs
      BY <2>1, <2>2 DEF Planned, Atleast, Atmost
    <2>4. k \in Nat \ {0} /\ w \in Nat /\ w = Margin * Minus(Remaining, Slack)
      <3>1. Minus(Remaining, Slack) \in Nat /\ Margin \in Nat
        BY <2>1, EpochPlanAssumption DEF TypeOK, Minus, Remaining
      <3>2. k \in Nat \ {0} BY <2>1 DEF TypeOK
      <3>3. QED BY <3>1, <3>2
    <2>5. Schedule = k * epochs BY <2>1, <2>3 DEF Schedule, TypeOK
    <2> HIDE DEF k, w
    <2>6. k * Achievable <= k * epochs /\ k * Achievable \in Nat /\ k * epochs \in Nat
      BY <2>2, <2>3, <2>4
    <2>7. k * epochs + k >= w BY <2>2, <2>4, <2>6
    <2>8. QED BY <2>4, <2>5, <2>7 DEF k
  <1>2. QED BY IInvHolds, <1>1, PTL

\* The schedule completes before the soft stop whenever the smallest one would.
\* The code's margin is 90 percent, or 82 with replay: what it leaves is what
\* absorbs the rounding, which is why it is a hypothesis.
THEOREM ScheduleCompletes ==
    ASSUME Margin <= 90
    PROVE  Spec => []ScheduleCompletesIfAny
  <1>1. IInv => ScheduleCompletesIfAny
    <2> SUFFICES ASSUME IInv, epochs # 0, 5 * epochSteps * steady <= 100 * Remaining
                 PROVE  Schedule <= 100 * Remaining
      BY DEF ScheduleCompletesIfAny
    <2> DEFINE k == epochSteps * steady
               m == Minus(Remaining, Slack)
               w == m * Margin
    <2>1. TypeOK /\ epochs = Planned /\ t30 - t10 = TimedSteps * steady BY Answered
    <2>2. /\ Achievable \in Nat
          /\ 2 * (k * Achievable) <= 2 * w + k
      BY <2>1, AchievableOfSteady
    <2>3. Remaining \in Nat /\ m \in Nat /\ m <= Remaining /\ Margin \in 0 .. 90
      BY <2>1, EpochPlanAssumption DEF TypeOK, Minus, Remaining
    <2>4. k \in Nat \ {0} /\ w \in Nat /\ 5 * k <= 100 * Remaining
      BY <2>1, <2>3 DEF TypeOK
    <2>5. w <= 90 * Remaining
      <3>1. m * Margin <= m * 90 BY <2>3
      <3>2. m * 90 <= 90 * Remaining BY <2>3
      <3>3. QED BY <2>3, <2>4, <3>1, <3>2
    <2>6. epochs \in Nat /\ (epochs = 5 \/ epochs <= Achievable)
      BY <2>1, <2>2 DEF Planned, Atleast, Atmost
    <2>7. Schedule = k * epochs BY <2>1, <2>6 DEF Schedule, TypeOK
    <2> HIDE DEF k, w, m
    <2>8. CASE epochs = 5 BY <2>4, <2>7, <2>8
    <2>9. CASE epochs <= Achievable
      <3>1. k * epochs <= k * Achievable /\ k * epochs \in Nat /\ k * Achievable \in Nat
        BY <2>2, <2>4, <2>6, <2>9
      <3>2. 2 * (k * epochs) <= 180 * Remaining + k BY <2>2, <2>3, <2>4, <2>5, <3>1
      <3>3. QED BY <2>3, <2>4, <2>7, <3>1, <3>2
    <2>10. QED BY <2>6, <2>8, <2>9
  <1>2. QED BY IInvHolds, <1>1, PTL
=============================================================================
