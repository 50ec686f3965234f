---------------------------- MODULE PacingProofs ----------------------------
(***************************************************************************)
(* The final model is written before the kill, for every deadline, reserve *)
(* and window and every set of costs that PacingAssumption allows.  The    *)
(* argument bounds the clock phase by phase: training goes on only while   *)
(* the soft stop has not passed, and from the last look at the clock to    *)
(* the export there is at most one micro-step between two rounds of        *)
(* callbacks.                                                              *)
(* And a slow step does not end training early, because the median of a    *)
(* window is a cost that more than a half of it keeps.                     *)
(***************************************************************************)
EXTENDS Pacing, FiniteSetTheorems, SequenceTheorems, WellFoundedInduction, TLAPS

\* The time by which each phase is reached at the latest.
PhaseBound ==
    /\ phase \in {"begin", "micro"} => \E a \in AfterCosts : now <= SoftStop + a
    /\ phase \in {"step_end", "after"} =>
         \E a \in AfterCosts, d \in MicroCosts : now <= SoftStop + a + d
    /\ phase = "after" /\ ~stopping => now <= SoftStop
    /\ phase = "export" =>
         \E a, b \in AfterCosts, d \in MicroCosts : now <= SoftStop + a + d + b
    /\ phase = "exported" => now <= HardStop

IInv == TypeOK /\ PhaseBound

-----------------------------------------------------------------------------
\* Arithmetic of the clock and of the median.

\* The clock moves forward, by no more than the cost, and stays in its range.
LEMMA ClockAdvances ==
    ASSUME now \in 0 .. Horizon, NEW d \in Nat
    PROVE  /\ After(d) \in 0 .. Horizon
           /\ now <= After(d) /\ After(d) <= now + d
  BY PacingAssumption DEF After, Horizon

LEMMA RemainingType == TypeOK => Remaining \in Nat
  BY PacingAssumption DEF TypeOK, Remaining, SoftStop, Horizon

\* A nonempty set of natural numbers has a minimum, and Min is one.
LEMMA MinOfNaturals ==
    ASSUME NEW S, S \subseteq Nat, S # {}
    PROVE  Min(S) \in S /\ \A y \in S : Min(S) =< y
  <1> DEFINE Less == {ss \in Nat \X Nat : ss[1] < ss[2]}
  <1>0. IsWellFoundedOn(Less, Nat)
    BY NatLessThanWellFounded, Zenon DEF OpToRel
  <1>1. \E x \in S : \A y \in S : ~ (<<y, x>> \in Less)
    <2> HIDE DEF Less
    <2> QED BY <1>0, WFMin
  <1>2. \E x \in S : \A y \in S : x =< y
    <2>1. PICK x \in S : \A y \in S : ~ (<<y, x>> \in Less)
      BY <1>1
    <2>2. ASSUME NEW y \in S
          PROVE  x =< y
      <3>1. <<y, x>> \in Nat \X Nat => ~ (y < x)
        BY <2>1, <2>2
      <3> QED BY <3>1
    <2> QED BY <2>2
  <1> QED BY <1>2 DEF Min

\* What is left of the window when fewer than a half of its costs are slow is enough
\* for the rank of the median.
LEMMA FastMajority ==
    ASSUME costs \in Seq(0 .. Horizon), NEW fast \in Nat,
           2 * Cardinality({i \in DOMAIN costs : costs[i] > fast}) < Len(costs)
    PROVE  LET kept == Cardinality({i \in DOMAIN costs : costs[i] <= fast})
           IN  kept \in Nat /\ 2 * kept > Len(costs)
  <1> DEFINE Kept == {i \in DOMAIN costs : costs[i] <= fast}
             Slow == {i \in DOMAIN costs : costs[i] > fast}
             n    == Len(costs)
  <1>1. DOMAIN costs = 1 .. n /\ n \in Nat
    BY LenProperties
  <1>2. \A i \in DOMAIN costs : costs[i] \in Nat
    <2>1. \A i \in DOMAIN costs : costs[i] \in 0 .. Horizon
      BY <1>1, ElementOfSeq
    <2> QED BY <2>1
  <1>3. \A i \in DOMAIN costs : costs[i] > fast <=> ~ (costs[i] <= fast)
    BY <1>2
  <1>4. Kept = DOMAIN costs \ Slow
    BY <1>3, Zenon
  <1>5. IsFiniteSet(DOMAIN costs) /\ Cardinality(DOMAIN costs) = n
    <2>1. 1 \in Int /\ n \in Int
      BY <1>1
    <2>2. IsFiniteSet(1 .. n) /\ Cardinality(1 .. n) = IF 1 > n THEN 0 ELSE n - 1 + 1
      BY <2>1, FS_Interval, Zenon
    <2>3. Cardinality(1 .. n) = n
      BY <1>1, <2>2
    <2> HIDE DEF n
    <2> QED BY <1>1, <2>2, <2>3, Zenon
  <1>6. Slow \subseteq DOMAIN costs /\ DOMAIN costs \cap Slow = Slow
    BY Zenon
  <1>7. Cardinality(Kept) = Cardinality(DOMAIN costs) - Cardinality(Slow)
    <2> HIDE DEF Slow, Kept, n
    <2>1. Cardinality(DOMAIN costs \ Slow)
            = Cardinality(DOMAIN costs) - Cardinality(DOMAIN costs \cap Slow)
      BY <1>5, FS_Difference, Zenon
    <2> QED BY <1>4, <1>6, <2>1, Zenon
  <1>8. IsFiniteSet(Slow) /\ IsFiniteSet(Kept)
    BY <1>4, <1>5, <1>6, FS_Subset, FS_Difference, Zenon
  <1>9. Cardinality(Slow) \in Nat /\ Cardinality(Kept) \in Nat
    BY <1>8, FS_CardinalityType, Zenon
  <1>10. 2 * Cardinality(Slow) < n
    OBVIOUS
  <1> HIDE DEF Slow, Kept, n
  <1>11. 2 * Cardinality(Kept) > n
    BY <1>1, <1>5, <1>7, <1>9, <1>10
  <1> QED BY <1>9, <1>11 DEF Kept, n

\* A time that k of the costs keep is at least the k-th cost.
LEMMA RankedBelow ==
    ASSUME NEW k \in Nat, NEW fast \in 0 .. Horizon,
           Cardinality({i \in DOMAIN costs : costs[i] <= fast}) >= k
    PROVE  Ranked(k) <= fast
  <1> DEFINE Times == {c \in 0 .. Horizon :
                         Cardinality({i \in DOMAIN costs : costs[i] <= c}) >= k}
  <1>1. fast \in Times
    OBVIOUS
  <1>2. Times \subseteq Nat
    OBVIOUS
  <1> HIDE DEF Times
  <1>3. Min(Times) <= fast
    BY <1>1, <1>2, MinOfNaturals
  <1> QED BY <1>3 DEF Times, Ranked

\* The k-th smallest cost of the window is a time, for k up to the length of it.
LEMMA RankedType ==
    ASSUME costs \in Seq(0 .. Horizon), NEW k \in Nat, k <= Len(costs)
    PROVE  Ranked(k) \in Nat
  <1> DEFINE Keep(c) == {i \in DOMAIN costs : costs[i] <= c}
             Times   == {c \in 0 .. Horizon : Cardinality(Keep(c)) >= k}
  <1>1. Horizon \in 0 .. Horizon /\ Horizon \in Nat
    BY PacingAssumption DEF Horizon
  <1>2. Keep(Horizon) = 1 .. Len(costs)
    <2>1. DOMAIN costs = 1 .. Len(costs)
      BY LenProperties
    <2>2. \A i \in DOMAIN costs : costs[i] \in 0 .. Horizon
      BY <2>1, ElementOfSeq
    <2>3. \A i \in DOMAIN costs : costs[i] <= Horizon
      BY <2>2, <1>1
    <2>4. Keep(Horizon) = DOMAIN costs
      BY <2>3, Zenon
    <2> QED BY <2>1, <2>4
  <1>3. Cardinality(1 .. Len(costs)) = Len(costs)
    <2>1. Len(costs) \in Nat
      OBVIOUS
    <2>2. Cardinality(1 .. Len(costs)) = IF 1 > Len(costs) THEN 0 ELSE Len(costs) - 1 + 1
      <3>1. 1 \in Int /\ Len(costs) \in Int
        BY <2>1
      <3> QED BY <3>1, FS_Interval, Zenon
    <2> QED BY <2>1, <2>2
  <1>4. Horizon \in Times
    BY <1>1, <1>2, <1>3
  <1>5. Times \subseteq Nat
    BY <1>1
  <1> HIDE DEF Times
  <1>6. Min(Times) \in Times
    BY <1>4, <1>5, MinOfNaturals
  <1>7. Min(Times) \in Nat
    BY <1>5, <1>6
  <1> QED BY <1>7 DEF Times, Ranked

\* Half of a number, and what is left of it.
LEMMA Halves ==
    ASSUME NEW n \in Nat
    PROVE  n \div 2 \in Nat /\ n % 2 \in 0 .. 1 /\ n = 2 * (n \div 2) + (n % 2)
  OBVIOUS

\* The median is a natural number, so that no time left always means stop.
LEMMA MedianType == TypeOK => TwicePerStep \in Nat
  <1> SUFFICES ASSUME costs \in Seq(0 .. Horizon)
               PROVE  TwicePerStep \in Nat
    BY DEF TypeOK
  <1> DEFINE n == Len(costs)
             mid == n \div 2
  <1>0. n \in Nat /\ mid \in Nat /\ n % 2 \in 0 .. 1 /\ n = 2 * mid + (n % 2)
    <2>1. n \in Nat
      OBVIOUS
    <2> QED BY <2>1, Halves
  <1>1. CASE n = 0
    BY <1>1 DEF TwicePerStep
  <1>2. CASE n # 0 /\ n % 2 = 1
    <2>1. mid + 1 <= n
      <3> HIDE DEF n, mid
      <3> QED BY <1>0, <1>2
    <2>2. Ranked(mid + 1) \in Nat
      BY <2>1, <1>0, RankedType
    <2> QED BY <1>2, <2>2 DEF TwicePerStep
  <1>3. CASE n # 0 /\ n % 2 # 1
    <2>1. mid + 1 <= n
      <3> HIDE DEF n, mid
      <3> QED BY <1>0, <1>3
    <2>2. Ranked(mid) \in Nat /\ Ranked(mid + 1) \in Nat
      BY <2>1, <1>0, RankedType
    <2> QED BY <1>3, <2>2 DEF TwicePerStep
  <1> QED BY <1>1, <1>2, <1>3

\* The same of the state after a step.
LEMMA MedianTypePrimed == (TypeOK => TwicePerStep \in Nat)'
  BY MedianType, PTL

\* While fewer than a half of the costs are slow, the median is not.
LEMMA MedianIsFast ==
    TypeOK =>
      \A fast \in 1 .. Horizon :
        2 * Cardinality({i \in DOMAIN costs : costs[i] > fast}) < Len(costs) =>
          TwicePerStep <= 2 * fast
  <1> SUFFICES ASSUME costs \in Seq(0 .. Horizon), NEW fast \in 1 .. Horizon,
                      2 * Cardinality({i \in DOMAIN costs : costs[i] > fast}) < Len(costs)
               PROVE  TwicePerStep <= 2 * fast
    BY DEF TypeOK
  <1> DEFINE n == Len(costs)
             mid == n \div 2
             kept == Cardinality({i \in DOMAIN costs : costs[i] <= fast})
  <1>0. n \in Nat /\ mid \in Nat /\ n % 2 \in 0 .. 1 /\ n = 2 * mid + (n % 2)
    <2>1. n \in Nat
      OBVIOUS
    <2> QED BY <2>1, Halves
  <1>f. fast \in 0 .. Horizon /\ fast \in Nat
    OBVIOUS
  <1>1. kept \in Nat /\ 2 * kept > n
    BY <1>f, FastMajority
  <1>2. kept >= mid /\ kept >= mid + 1
    <2> HIDE DEF n, mid, kept
    <2> QED BY <1>0, <1>1
  <1>3. Ranked(mid) <= fast /\ Ranked(mid + 1) <= fast
    <2>1. mid + 1 \in Nat
      BY <1>0
    <2> HIDE DEF n, mid
    <2> QED BY <1>0, <1>2, <1>f, <2>1, RankedBelow
  <1>4. n % 2 = 1 => mid + 1 <= n
    <2> HIDE DEF n, mid
    <2> QED BY <1>0
  <1>5. mid <= n /\ (n # 0 => mid + 1 <= n)
    <2> HIDE DEF n, mid
    <2> QED BY <1>0
  <1>6. n # 0 => Ranked(mid) \in Nat /\ Ranked(mid + 1) \in Nat
    <2>1. mid + 1 \in Nat
      BY <1>0
    <2> QED BY <1>0, <1>5, <2>1, RankedType
  <1>7. TwicePerStep = IF n = 0 THEN 0
                       ELSE IF n % 2 = 1 THEN 2 * Ranked(mid + 1)
                       ELSE Ranked(mid) + Ranked(mid + 1)
    BY DEF TwicePerStep
  <1> HIDE DEF n, mid
  <1> QED BY <1>f, <1>3, <1>6, <1>7

\* The same of the state after a step.
LEMMA MedianIsFastPrimed ==
    (TypeOK =>
      \A fast \in 1 .. Horizon :
        2 * Cardinality({i \in DOMAIN costs : costs[i] > fast}) < Len(costs) =>
          TwicePerStep <= 2 * fast)'
  BY MedianIsFast, PTL

\* The window never holds more than Window costs.
LEMMA RecordType ==
    ASSUME costs \in Seq(0 .. Horizon), Len(costs) <= Window, NEW cost \in 0 .. Horizon
    PROVE  Record(cost) \in Seq(0 .. Horizon) /\ Len(Record(cost)) <= Window
  <1> DEFINE longer == Append(costs, cost)
  <1>1. longer \in Seq(0 .. Horizon) /\ Len(longer) = Len(costs) + 1 /\ longer # <<>>
    BY AppendProperties
  <1>2. Tail(longer) \in Seq(0 .. Horizon) /\ Len(Tail(longer)) = Len(longer) - 1
    <2> HIDE DEF longer
    <2> QED BY <1>1, HeadTailProperties
  <1>3. Len(costs) \in Nat /\ Window \in Nat
    BY PacingAssumption
  <1>4. Record(cost) = IF Len(longer) > Window THEN Tail(longer) ELSE longer
    BY DEF Record
  <1> HIDE DEF longer
  <1>5. CASE Len(longer) > Window
    <2>1. Record(cost) = Tail(longer)
      BY <1>4, <1>5
    <2> QED BY <2>1, <1>1, <1>2, <1>3
  <1>6. CASE ~ (Len(longer) > Window)
    <2>1. Record(cost) = longer
      BY <1>4, <1>6
    <2> QED BY <2>1, <1>1, <1>3, <1>6
  <1> QED BY <1>5, <1>6

-----------------------------------------------------------------------------
\* The invariant.

LEMMA InitIInv == Init => IInv
  <1> SUFFICES ASSUME Init
               PROVE  IInv
    OBVIOUS
  <1>1. TypeOK
    <2>1. costs = <<>>
      BY DEF Init
    <2>2. <<>> \in Seq(0 .. Horizon) /\ Len(<<>>) = 0
      BY EmptySeq, Zenon
    <2>3. accumulation \in Nat \ {0} /\ Horizon \in Nat
      BY PacingAssumption DEF Init, Horizon
    <2>4. Len(costs) <= Window
      BY <2>1, <2>2, PacingAssumption
    <2>5. micro \in 0 .. accumulation /\ now \in 0 .. Horizon /\ started \in 0 .. now
      BY <2>3 DEF Init
    <2> QED BY <2>1, <2>2, <2>4, <2>5 DEF Init, TypeOK
  <1>2. PhaseBound
    <2>1. PICK a \in AfterCosts : a \in Nat
      BY PacingAssumption
    <2>2. 0 <= SoftStop + a
      BY <2>1, PacingAssumption DEF SoftStop
    <2>3. now = 0 /\ phase = "begin"
      BY DEF Init
    <2> QED BY <2>2, <2>3 DEF PhaseBound
  <1> QED BY <1>1, <1>2 DEF IInv

\* The type part of the invariant.
LEMMA NextTypeOK == TypeOK /\ [Next]_vars => TypeOK'
  <1> SUFFICES ASSUME TypeOK, [Next]_vars
               PROVE  TypeOK'
    OBVIOUS
  <1> USE DEF TypeOK
  <1>0. /\ MicroCosts \subseteq Nat /\ AfterCosts \subseteq Nat /\ ExportCosts \subseteq Nat
        /\ Accumulation \subseteq Nat \ {0} /\ Horizon \in Nat
    BY PacingAssumption DEF Horizon
  <1>1. CASE StepBegin
    BY <1>0, <1>1 DEF StepBegin
  <1>2. CASE Substep
    <2>1. PICK d \in MicroCosts : now' = After(d)
      BY <1>2 DEF Substep
    <2>2. now' \in 0 .. Horizon /\ now <= now'
      BY <1>0, <2>1, ClockAdvances
    <2> QED BY <1>0, <1>2, <2>2 DEF Substep
  <1>3. CASE LastMicroStep
    <2>1. PICK d \in MicroCosts : now' = After(d)
      BY <1>3 DEF LastMicroStep
    <2>2. now' \in 0 .. Horizon /\ now <= now'
      BY <1>0, <2>1, ClockAdvances
    <2> QED BY <1>0, <1>3, <2>2 DEF LastMicroStep
  <1>4. CASE StepEnd
    <2>1. now - started \in 0 .. Horizon
      BY <1>0
    <2>2. costs' \in Seq(0 .. Horizon) /\ Len(costs') <= Window
      BY <1>4, <2>1, RecordType DEF StepEnd
    <2>3. stopping' \in BOOLEAN
      BY <1>4 DEF StepEnd
    <2> QED BY <1>4, <2>2, <2>3 DEF StepEnd
  <1>5. CASE AfterStep
    <2>1. PICK d \in AfterCosts : now' = After(d)
      BY <1>5 DEF AfterStep
    <2>2. now' \in 0 .. Horizon /\ now <= now'
      BY <1>0, <2>1, ClockAdvances
    <2> QED BY <1>0, <1>5, <2>2 DEF AfterStep
  <1>6. CASE Export
    <2>1. PICK d \in ExportCosts : now' = After(d)
      BY <1>6 DEF Export
    <2>2. now' \in 0 .. Horizon /\ now <= now'
      BY <1>0, <2>1, ClockAdvances
    <2> QED BY <1>0, <1>6, <2>2 DEF Export
  <1>7. CASE Terminated \/ UNCHANGED vars
    BY <1>7 DEF Terminated, vars
  <1> QED BY <1>1, <1>2, <1>3, <1>4, <1>5, <1>6, <1>7 DEF Next

\* Every phase is entered in time: a step adds the cost it takes, and the two
\* looks at the clock start the count again from the soft stop.
LEMMA NextPhaseBound == IInv /\ [Next]_vars => PhaseBound'
  <1> SUFFICES ASSUME IInv, [Next]_vars
               PROVE  PhaseBound'
    OBVIOUS
  <1>0. /\ MicroCosts \subseteq Nat /\ AfterCosts \subseteq Nat /\ ExportCosts \subseteq Nat
        /\ AfterCosts # {} /\ SoftStop \in Nat /\ SoftStop + Reserve = HardStop
        /\ \A d \in MicroCosts, a, b \in AfterCosts, e \in ExportCosts :
              a + d + b + e <= Reserve
        /\ Reserve \in Nat /\ HardStop \in Nat
    BY PacingAssumption DEF SoftStop
  <1>t. now \in 0 .. Horizon /\ now \in Nat /\ TypeOK /\ TypeOK'
    BY NextTypeOK DEF IInv, TypeOK
  <1>1. CASE StepBegin
    BY <1>1 DEF StepBegin, IInv, PhaseBound
  <1>2. CASE Substep
    <2>1. PICK d \in MicroCosts : now' = After(d)
      BY <1>2 DEF Substep
    <2>2. PICK a \in AfterCosts : now <= SoftStop + a
      BY <1>2 DEF Substep, IInv, PhaseBound
    <2>3. now' \in Nat /\ now' <= now + d /\ d \in Nat /\ a \in Nat
      BY <1>0, <1>t, <2>1, ClockAdvances
    <2>4. CASE stopping'
      <3>1. now' <= SoftStop + a + d + a
        BY <1>0, <1>t, <2>2, <2>3
      <3>2. phase' = "export"
        BY <1>2, <2>4 DEF Substep
      <3> QED BY <3>1, <3>2 DEF PhaseBound, SoftStop
    <2>5. CASE ~ stopping'
      <3>1. phase' = "micro" /\ ~ (Remaining' = 0)
        BY <1>2, <2>5 DEF Substep
      <3>2. now' < SoftStop
        BY <3>1 DEF Remaining, SoftStop
      <3>3. now' <= SoftStop + a
        BY <1>0, <2>3, <3>2
      <3> QED BY <3>1, <3>3 DEF PhaseBound, SoftStop
    <2> QED BY <2>4, <2>5
  <1>3. CASE LastMicroStep
    <2>1. PICK d \in MicroCosts : now' = After(d)
      BY <1>3 DEF LastMicroStep
    <2>2. PICK a \in AfterCosts : now <= SoftStop + a
      BY <1>3 DEF LastMicroStep, IInv, PhaseBound
    <2>3. now' \in Nat /\ now' <= now + d /\ d \in Nat /\ a \in Nat
      BY <1>0, <1>t, <2>1, ClockAdvances
    <2>4. now' <= SoftStop + a + d
      BY <1>0, <1>t, <2>2, <2>3
    <2>5. phase' = "step_end"
      BY <1>3 DEF LastMicroStep
    <2> QED BY <2>4, <2>5 DEF PhaseBound, SoftStop
  <1>4. CASE StepEnd
    <2>1. phase = "step_end" /\ phase' = "after" /\ now' = now
      BY <1>4 DEF StepEnd
    <2>2. \E a \in AfterCosts, d \in MicroCosts : now' <= SoftStop + a + d
      BY <2>1 DEF IInv, PhaseBound
    <2>3. ASSUME ~ stopping'
          PROVE  now' <= SoftStop
      <3>1. ~ MustStop'
        BY <1>4, <2>3 DEF StepEnd
      <3>2. ~ (4 * Remaining' <= 3 * TwicePerStep')
        BY <3>1 DEF MustStop
      <3>3. TwicePerStep' \in Nat
        BY <1>t, MedianTypePrimed
      <3>4. Remaining' # 0
        BY <3>2, <3>3
      <3> QED BY <1>0, <1>t, <2>1, <3>4 DEF Remaining, SoftStop
    <2> QED BY <2>1, <2>2, <2>3 DEF PhaseBound, SoftStop
  <1>5. CASE AfterStep
    <2>1. PICK b \in AfterCosts : now' = After(b)
      BY <1>5 DEF AfterStep
    <2>2. PICK a \in AfterCosts, d \in MicroCosts : now <= SoftStop + a + d
      BY <1>5 DEF AfterStep, IInv, PhaseBound
    <2>3. now' \in Nat /\ now' <= now + b /\ a \in Nat /\ b \in Nat /\ d \in Nat
      BY <1>0, <1>t, <2>1, ClockAdvances
    <2>4. CASE stopping
      <3>1. now' <= SoftStop + a + d + b
        BY <1>0, <1>t, <2>2, <2>3
      <3>2. phase' = "export"
        BY <1>5, <2>4 DEF AfterStep
      <3> QED BY <3>1, <3>2 DEF PhaseBound, SoftStop
    <2>5. CASE ~ stopping
      <3>1. phase' = "begin" /\ now <= SoftStop
        BY <1>5, <2>5 DEF AfterStep, IInv, PhaseBound
      <3>2. now' <= SoftStop + b
        BY <1>0, <1>t, <2>3, <3>1
      <3> QED BY <3>1, <3>2 DEF PhaseBound, SoftStop
    <2> QED BY <2>4, <2>5
  <1>6. CASE Export
    <2>1. PICK e \in ExportCosts : now' = After(e)
      BY <1>6 DEF Export
    <2>2. PICK a \in AfterCosts, b \in AfterCosts, d \in MicroCosts :
            now <= SoftStop + a + d + b
      BY <1>6 DEF Export, IInv, PhaseBound
    <2>3. /\ now' \in Nat /\ now' <= now + e
          /\ a \in Nat /\ b \in Nat /\ d \in Nat /\ e \in Nat
      BY <1>0, <1>t, <2>1, ClockAdvances
    <2>4. a + d + b + e <= Reserve
      BY <1>0
    <2>5. now' <= HardStop
      BY <1>0, <1>t, <2>2, <2>3, <2>4
    <2>6. phase' = "exported"
      BY <1>6 DEF Export
    <2> QED BY <2>5, <2>6 DEF PhaseBound
  <1>7. CASE Terminated \/ UNCHANGED vars
    BY <1>7 DEF Terminated, vars, IInv, PhaseBound, SoftStop
  <1> QED BY <1>1, <1>2, <1>3, <1>4, <1>5, <1>6, <1>7 DEF Next

-----------------------------------------------------------------------------
\* Theorems.

\* The clock is bounded phase by phase in every reachable state: what Deadline
\* and DeadlineCallback guarantee of the step loop.
THEOREM ClockInvariant == Spec => []IInv
  <1>1. IInv /\ [Next]_vars => IInv'
    BY NextTypeOK, NextPhaseBound DEF IInv
  <1> QED BY InitIInv, <1>1, PTL DEF Spec

\* The handler's final save ends before hard_stop, for every accumulation, every
\* window length and every sequence of costs within the reserve's assumption.
THEOREM ExportIsInTime == Spec => []ExportedBeforeKill
  <1>1. IInv => ExportedBeforeKill
    BY DEF IInv, PhaseBound, ExportedBeforeKill
  <1> QED BY ClockInvariant, <1>1, PTL

\* DeadlineCallback stops training at the end of a step only when one and a half
\* fast steps no longer fit, as long as fewer than a half of the steps in the window
\* were slow: a slow evaluation or save step does not end training early.
THEOREM SlowStepIsAbsorbed == Spec => StraySlowStepIsHarmless
  <1> DEFINE Harmless ==
        phase = "step_end" /\ ~stopping /\ stopping' =>
          \A fast \in 1 .. Horizon :
            2 * Cardinality({i \in DOMAIN costs' : costs'[i] > fast}) < Len(costs') =>
              2 * Remaining <= 3 * fast
  <1>1. TypeOK /\ [Next]_vars => [Harmless]_vars
    <2> SUFFICES ASSUME TypeOK, [Next]_vars, phase = "step_end", ~stopping, stopping',
                        NEW fast \in 1 .. Horizon,
                        2 * Cardinality({i \in DOMAIN costs' : costs'[i] > fast}) < Len(costs')
                 PROVE  2 * Remaining <= 3 * fast
      OBVIOUS
    <2>1. StepEnd
      BY DEF Next, StepBegin, Substep, LastMicroStep, AfterStep, Export, Terminated, vars
    <2>2. 4 * Remaining <= 3 * TwicePerStep'
      <3>1. now' = now /\ 4 * Remaining' <= 3 * TwicePerStep'
        BY <2>1 DEF StepEnd, MustStop
      <3> QED BY <3>1 DEF Remaining, SoftStop
    <2>3. TypeOK'
      BY NextTypeOK
    <2>4. TwicePerStep' \in Nat
      BY <2>3, MedianTypePrimed
    <2>5. TwicePerStep' <= 2 * fast
      BY <2>3, MedianIsFastPrimed
    <2>6. Remaining \in Nat
      BY RemainingType
    <2>7. fast \in Nat
      OBVIOUS
    <2>8. \A r, m, f \in Nat : 4 * r <= 3 * m /\ m <= 2 * f => 2 * r <= 3 * f
      OBVIOUS
    <2> QED BY <2>2, <2>4, <2>5, <2>6, <2>7, <2>8, Zenon
  <1>2. IInv => TypeOK
    BY DEF IInv
  <1> QED BY ClockInvariant, <1>1, <1>2, PTL DEF Spec, StraySlowStepIsHarmless

-----------------------------------------------------------------------------
(* The end of training, without its liveness: a number that every step     *)
(* makes smaller, because each micro-step takes time and none begins once  *)
(* the horizon is reached.                                                 *)

Rank ==
    CASE phase = "step_end" -> 4 * (Horizon - now) + 5
      [] phase = "after"    -> 4 * (Horizon - now) + 4
      [] phase = "begin"    -> 4 * (Horizon - now) + 3
      [] phase = "micro"    -> 4 * (Horizon - now) + 2
      [] phase = "export"   -> 1
      [] OTHER              -> 0

LEMMA MicroStepTakesTime ==
    ASSUME IInv, phase = "micro", NEW d \in MicroCosts, now' = After(d)
    PROVE  now' > now /\ now' \in 0 .. Horizon
  <1>1. PICK a \in AfterCosts : now <= SoftStop + a
    BY DEF IInv, PhaseBound
  <1>2. /\ a \in Nat /\ d \in Nat /\ d > 0 /\ Reserve \in Nat /\ HardStop \in Nat
        /\ SoftStop = HardStop - Reserve /\ Horizon = HardStop + 1 /\ now \in Nat
    BY PacingAssumption DEF SoftStop, Horizon, IInv, TypeOK
  <1>3. a + d <= Reserve
    <2>1. PICK e \in ExportCosts : e \in Nat
      BY PacingAssumption
    <2>2. a + d + a + e <= Reserve
      BY PacingAssumption
    <2> QED BY <1>2, <2>1, <2>2
  <1>4. now < Horizon
    BY <1>1, <1>2, <1>3
  <1> QED BY <1>2, <1>4 DEF After

LEMMA StepRank ==
    ASSUME IInv, IInv', Next, ~ UNCHANGED vars
    PROVE  Rank' \in Nat /\ Rank \in Nat /\ Rank' < Rank
  <1>1. Horizon \in Nat /\ now \in 0 .. Horizon /\ now' \in 0 .. Horizon
    BY PacingAssumption DEF Horizon, IInv, TypeOK
  <1> DEFINE left == Horizon - now
             then == Horizon - now'
  <1>2. left \in Nat /\ then \in Nat /\ (now' = now => then = left)
        /\ (now' >= now => then <= left) /\ (now' > now => then < left)
    <2>1. \A h, m, n \in Nat : m \in 0 .. h /\ n \in 0 .. h =>
             /\ h - m \in Nat /\ h - n \in Nat /\ (n = m => h - n = h - m)
             /\ (n >= m => h - n <= h - m) /\ (n > m => h - n < h - m)
      OBVIOUS
    <2>2. now \in Nat /\ now' \in Nat
      BY <1>1
    <2> QED BY <1>1, <2>1, <2>2, Zenon
  <1> HIDE DEF left, then
  <1>3. CASE StepBegin
    <2>1. phase = "begin" /\ phase' = "micro" /\ now' = now
      BY <1>3 DEF StepBegin
    <2>2. Rank = 4 * left + 3 /\ Rank' = 4 * then + 2
      BY <2>1 DEF Rank, Horizon, left, then
    <2> QED BY <1>2, <2>1, <2>2
  <1>4. CASE Substep \/ LastMicroStep
    <2>1. PICK d \in MicroCosts : now' = After(d)
      BY <1>4 DEF Substep, LastMicroStep
    <2>2. phase = "micro" /\ phase' \in {"micro", "export", "step_end"}
      BY <1>4 DEF Substep, LastMicroStep
    <2>3. now' > now
      BY <2>1, <2>2, MicroStepTakesTime
    <2>4. /\ Rank = 4 * left + 2
          /\ Rank' \in {4 * then + 2, 1, 4 * then + 5}
      BY <2>2 DEF Rank, Horizon, left, then
    <2> QED BY <1>1, <1>2, <2>3, <2>4
  <1>5. CASE StepEnd
    <2>1. phase = "step_end" /\ phase' = "after" /\ now' = now
      BY <1>5 DEF StepEnd
    <2>2. Rank = 4 * left + 5 /\ Rank' = 4 * then + 4
      BY <2>1 DEF Rank, Horizon, left, then
    <2> QED BY <1>2, <2>1, <2>2
  <1>6. CASE AfterStep
    <2>1. PICK d \in AfterCosts : now' = After(d)
      BY <1>6 DEF AfterStep
    <2>2. now' >= now
      BY <1>1, <2>1, ClockAdvances, PacingAssumption
    <2>3. phase = "after" /\ phase' \in {"export", "begin"}
      BY <1>6 DEF AfterStep
    <2>4. Rank = 4 * left + 4 /\ Rank' \in {1, 4 * then + 3}
      BY <2>3 DEF Rank, Horizon, left, then
    <2> QED BY <1>1, <1>2, <2>2, <2>4
  <1>7. CASE Export
    <2>1. phase = "export" /\ phase' = "exported"
      BY <1>7 DEF Export
    <2>2. Rank = 1 /\ Rank' = 0
      BY <2>1 DEF Rank
    <2> QED BY <2>2
  <1>8. CASE Terminated
    BY <1>8 DEF Terminated
  <1> QED BY <1>3, <1>4, <1>5, <1>6, <1>7, <1>8 DEF Next

\* The step loop and its callbacks cannot go round for ever: each step leaves
\* fewer to come, whatever steps, callbacks and the export cost.  Which of them
\* happens is a matter of fairness, so TrainingEnds itself stays with TLC.
THEOREM RankFalls == Spec => [][Rank' \in Nat /\ Rank \in Nat /\ Rank' < Rank]_vars
  <1>1. IInv /\ IInv' /\ [Next]_vars =>
            [Rank' \in Nat /\ Rank \in Nat /\ Rank' < Rank]_vars
    BY StepRank
  <1> QED BY ClockInvariant, <1>1, PTL DEF Spec
=============================================================================
