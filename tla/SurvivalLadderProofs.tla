------------------------ MODULE SurvivalLadderProofs ------------------------
(***************************************************************************)
(* Theorems about SurvivalLadder, for every set of requested batches,      *)
(* every initial cap, quantum, quantile and retained fraction, and for     *)
(* training schedules of every length.                                     *)
(***************************************************************************)
EXTENDS SurvivalLadder, FiniteSetTheorems, TLAPS

-----------------------------------------------------------------------------
\* The geometries that _plans lists.

Geometry == [batch : {1, 2, 4}, accum : {4, 8, 16}, gc : BOOLEAN, cap : 1 .. FullCap]

Balanced(p) == p.batch * p.accum = EffectiveBatch

\* A lower rung asks for no more of anything and for less of something.
Lower(p, q) ==
    /\ q.batch <= p.batch /\ q.cap <= p.cap /\ (p.gc => q.gc)
    /\ q.batch < p.batch \/ q.cap < p.cap \/ (q.gc /\ ~p.gc)

Descending(s) == \A i \in 1 .. Len(s) : \A j \in i + 1 .. Len(s) : Lower(s[i], s[j])

\* A sequence of geometries that goes down and keeps the effective batch.
Ladder(s) ==
    /\ s \in Seq(Geometry) /\ Descending(s)
    /\ \A i \in 1 .. Len(s) : Balanced(s[i])

LEMMA RungGeometry ==
    ASSUME NEW b \in {1, 2, 4}, NEW gc \in BOOLEAN, NEW cap \in 1 .. FullCap
    PROVE  /\ Rung(b, gc, cap) \in Geometry /\ Balanced(Rung(b, gc, cap))
           /\ Rung(b, gc, cap).batch = b /\ Rung(b, gc, cap).gc = gc
           /\ Rung(b, gc, cap).cap = cap
  <1>1. 16 \div 1 = 16 /\ 16 \div 2 = 8 /\ 16 \div 4 = 4 OBVIOUS
  <1>2. QED BY <1>1 DEF Rung, Geometry, Balanced, EffectiveBatch

LEMMA ElementType == ASSUME NEW S, NEW s \in Seq(S), NEW i \in 1 .. Len(s) PROVE s[i] \in S
  OBVIOUS

\* No geometry comes twice in a ladder.
LEMMA RungsDiffer ==
    ASSUME NEW s, Ladder(s), NEW i \in 1 .. Len(s), NEW j \in i + 1 .. Len(s)
    PROVE  s[j] # s[i]
  <1>1. Lower(s[i], s[j]) BY DEF Ladder, Descending
  <1>2. s[j] \in Geometry BY ElementType DEF Ladder
  <1>3. s[j].batch \in {1, 2, 4} /\ s[j].cap \in Nat
    BY <1>2, SurvivalLadderAssumption DEF Geometry
  <1>4. SUFFICES ASSUME s[j] = s[i] PROVE FALSE OBVIOUS
  <1>5. Lower(s[j], s[j]) BY <1>1, <1>4
  <1>6. QED BY <1>3, <1>5 DEF Lower

\* Two ladders of which the second lies below the first are one ladder.
LEMMA LaddersJoin ==
    ASSUME NEW s, NEW t, Ladder(s), Ladder(t),
           \A i \in 1 .. Len(s) : \A j \in 1 .. Len(t) : Lower(s[i], t[j])
    PROVE  Ladder(s \o t)
  <1>1. /\ s \in Seq(Geometry) /\ t \in Seq(Geometry)
        /\ s \o t \in Seq(Geometry) /\ Len(s \o t) = Len(s) + Len(t)
        /\ Len(s) \in Nat /\ Len(t) \in Nat
    BY DEF Ladder
  <1>2. \A i \in 1 .. Len(s) : (s \o t)[i] = s[i] BY <1>1
  <1>3. \A i \in Len(s) + 1 .. Len(s) + Len(t) :
            i - Len(s) \in 1 .. Len(t) /\ (s \o t)[i] = t[i - Len(s)]
    BY <1>1
  <1>4. \A i \in 1 .. Len(s \o t) : Balanced((s \o t)[i])
    <2>1. SUFFICES ASSUME NEW i \in 1 .. Len(s) + Len(t) PROVE Balanced((s \o t)[i])
      BY <1>1
    <2>2. CASE i <= Len(s) BY <1>1, <1>2, <2>2 DEF Ladder
    <2>3. CASE i > Len(s) BY <1>1, <1>3, <2>3 DEF Ladder
    <2>4. QED BY <1>1, <2>2, <2>3
  <1>5. Descending(s \o t)
    <2>1. SUFFICES ASSUME NEW i \in 1 .. Len(s) + Len(t),
                          NEW j \in i + 1 .. Len(s) + Len(t)
                   PROVE  Lower((s \o t)[i], (s \o t)[j])
      BY <1>1 DEF Descending
    <2>2. CASE j <= Len(s)
      BY <1>1, <1>2, <2>2 DEF Ladder, Descending
    <2>3. CASE i <= Len(s) /\ j > Len(s)
      BY <1>1, <1>2, <1>3, <2>3
    <2>4. CASE i > Len(s)
      <3>1. /\ i - Len(s) \in 1 .. Len(t) /\ (s \o t)[i] = t[i - Len(s)]
            /\ j - Len(s) \in (i - Len(s)) + 1 .. Len(t)
            /\ (s \o t)[j] = t[j - Len(s)]
        BY <1>1, <1>3, <2>4
      <3>2. QED BY <3>1 DEF Ladder, Descending
    <2>5. QED BY <1>1, <2>2, <2>3, <2>4
  <1>6. QED BY <1>1, <1>4, <1>5 DEF Ladder

LEMMA UpToCardinality == ASSUME NEW n \in Nat PROVE Cardinality(1 .. n) = n
  <1>1. 1 \in Int /\ n \in Int OBVIOUS
  <1>2. Cardinality(1 .. n) = IF 1 > n THEN 0 ELSE n - 1 + 1 BY <1>1, FS_Interval
  <1> DEFINE c == Cardinality(1 .. n)
  <1>3. c = IF 1 > n THEN 0 ELSE n - 1 + 1 BY <1>2
  <1> HIDE DEF c
  <1>4. c = n BY <1>3
  <1>5. QED BY <1>4 DEF c

\* A sequence without repetitions is left as it is.
LEMMA UniqueOfDistinct ==
    ASSUME NEW S, NEW s \in Seq(S),
           \A i \in 1 .. Len(s) : \A j \in 1 .. i - 1 : s[j] # s[i]
    PROVE  Unique(s) = s
  <1> DEFINE fresh == {i \in 1 .. Len(s) : \A j \in 1 .. i - 1 : s[j] # s[i]}
             place(k) == CHOOSE i \in fresh : Cardinality({j \in fresh : j <= i}) = k
  <1>1. fresh = 1 .. Len(s) /\ Len(s) \in Nat OBVIOUS
  <1>2. Cardinality(fresh) = Len(s) BY <1>1, UpToCardinality, Zenon
  <1> HIDE DEF fresh
  <1>3. ASSUME NEW i \in fresh PROVE Cardinality({j \in fresh : j <= i}) = i
    <2>1. {j \in fresh : j <= i} = 1 .. i BY <1>1
    <2>2. i \in Nat BY <1>1
    <2>3. Cardinality(1 .. i) = i BY <2>2, UpToCardinality
    <2>4. QED BY <2>1, <2>3, Zenon
  <1>4. ASSUME NEW k \in 1 .. Len(s) PROVE place(k) = k
    <2>1. k \in fresh BY <1>1
    <2>2. QED BY <1>3, <2>1
  <1>5. Unique(s) = [k \in 1 .. Cardinality(fresh) |-> s[place(k)]] BY DEF Unique, fresh
  <1> HIDE DEF place
  <1>6. [k \in 1 .. Cardinality(fresh) |-> s[place(k)]] = [k \in 1 .. Len(s) |-> s[k]]
    BY <1>2, <1>4
  <1>7. s = [k \in 1 .. Len(s) |-> s[k]] OBVIOUS
  <1>8. QED BY <1>5, <1>6, <1>7

-----------------------------------------------------------------------------
\* The reduced caps.

LEMMA Division ==
    ASSUME NEW n \in Nat \ {0}, NEW a \in Nat
    PROVE  /\ a \div n \in Nat /\ a % n \in Nat /\ a % n < n
           /\ a = n * (a \div n) + (a % n)
  OBVIOUS

LEMMA TimesAtLeast ==
    ASSUME NEW k \in Nat, NEW n \in Nat, k # 0 PROVE k * n >= n
  <1>1. k >= 1 OBVIOUS
  <1>2. k * n >= 1 * n BY <1>1
  <1>3. QED BY <1>2

LEMMA DivisionMonotone ==
    ASSUME NEW n \in Nat \ {0}, NEW a \in Nat, NEW b \in Nat, a <= b
    PROVE  (a \div n) * n <= (b \div n) * n
  <1>1. a \div n <= b \div n /\ a \div n \in Nat /\ b \div n \in Nat OBVIOUS
  <1>2. QED BY <1>1

\* _cap rounds up: a positive quantile gives a positive cap, a larger one no
\* smaller a cap.
LEMMA RoundedUpMonotone ==
    ASSUME NEW p \in Nat, NEW q \in Nat, p <= q
    PROVE  /\ RoundedUp(p) \in Nat /\ RoundedUp(p) <= RoundedUp(q)
           /\ p > 0 => RoundedUp(p) > 0
  <1>1. Quantum \in Nat \ {0} BY SurvivalLadderAssumption
  <1> DEFINE a == p + Quantum - 1
             b == q + Quantum - 1
  <1>2. a \in Nat /\ b \in Nat /\ a <= b /\ (p > 0 => a >= Quantum) BY <1>1
  <1>4. RoundedUp(p) = (a \div Quantum) * Quantum /\ RoundedUp(q) = (b \div Quantum) * Quantum
    BY DEF RoundedUp
  <1> HIDE DEF a, b
  <1>3. /\ a = Quantum * (a \div Quantum) + (a % Quantum) /\ a % Quantum < Quantum
        /\ a \div Quantum \in Nat /\ a % Quantum \in Nat
    BY <1>1, <1>2, Division
  <1>5. RoundedUp(p) <= RoundedUp(q) BY <1>1, <1>2, <1>4, DivisionMonotone
  <1>6. RoundedUp(p) \in Nat BY <1>1, <1>3, <1>4
  <1>7. ASSUME p > 0 PROVE RoundedUp(p) > 0
    <2>1. a >= Quantum BY <1>2, <1>7
    <2>2. a \div Quantum # 0 BY <1>1, <1>2, <1>3, <2>1
    <2>3. (a \div Quantum) * Quantum >= Quantum BY <1>1, <1>3, <2>2, TimesAtLeast
    <2>4. RoundedUp(p) >= Quantum BY <1>4, <2>3
    <2>5. QED BY <1>1, <1>6, <2>4
  <1>8. QED BY <1>5, <1>6, <1>7

LEMMA CapPair ==
    ASSUME NEW S, NEW x \in S, NEW y \in S
    PROVE  /\ <<x>> \o <<y>> \in Seq(S) /\ Len(<<x>> \o <<y>>) = 2
           /\ (<<x>> \o <<y>>)[1] = x /\ (<<x>> \o <<y>>)[2] = y
           /\ <<x>> \o <<>> \in Seq(S) /\ Len(<<x>> \o <<>>) = 1
           /\ (<<x>> \o <<>>)[1] = x
           /\ <<>> \o <<y>> \in Seq(S) /\ Len(<<>> \o <<y>>) = 1
           /\ (<<>> \o <<y>>)[1] = y
  OBVIOUS

LEMMA ReducedCapsDescend ==
    ASSUME NEW p \in Nat, NEW q \in Nat, q <= p
    PROVE  /\ ReducedCaps(p, q) \in Seq(1 .. FullCap)
           /\ Len(ReducedCaps(p, q)) \in {0, 1, 2}
           /\ \A i \in 1 .. Len(ReducedCaps(p, q)) :
                /\ ReducedCaps(p, q)[i] < FullCap
                /\ \A j \in i + 1 .. Len(ReducedCaps(p, q)) :
                     ReducedCaps(p, q)[j] < ReducedCaps(p, q)[i]
  <1>1. FullCap \in Nat \ {0} BY SurvivalLadderAssumption
  <1>2. /\ RoundedUp(p) \in Nat /\ RoundedUp(q) \in Nat /\ RoundedUp(q) <= RoundedUp(p)
        /\ p > 0 => RoundedUp(p) > 0
        /\ q > 0 => RoundedUp(q) > 0
    BY RoundedUpMonotone
  <1> DEFINE usable(x) == x > 0 /\ RoundedUp(x) < FullCap
             wide == IF usable(p) THEN <<RoundedUp(p)>> ELSE <<>>
             narrow == IF usable(q) /\ (usable(p) => RoundedUp(q) # RoundedUp(p))
                       THEN <<RoundedUp(q)>> ELSE <<>>
  <1>3. ReducedCaps(p, q) = wide \o narrow BY DEF ReducedCaps
  <1>4. usable(p) => RoundedUp(p) \in 1 .. FullCap /\ RoundedUp(p) < FullCap BY <1>1, <1>2
  <1>5. usable(q) => RoundedUp(q) \in 1 .. FullCap /\ RoundedUp(q) < FullCap BY <1>1, <1>2
  <1> DEFINE Caps == 1 .. FullCap
             caps == ReducedCaps(p, q)
             x == RoundedUp(p)
             y == RoundedUp(q)
  <1>6. caps = wide \o narrow BY <1>3
  <1>7. ASSUME NEW u \in Caps, NEW v \in Caps PROVE
          /\ <<u>> \o <<v>> \in Seq(Caps) /\ Len(<<u>> \o <<v>>) = 2
          /\ (<<u>> \o <<v>>)[1] = u /\ (<<u>> \o <<v>>)[2] = v
          /\ <<u>> \o <<>> \in Seq(Caps) /\ Len(<<u>> \o <<>>) = 1
          /\ (<<u>> \o <<>>)[1] = u
          /\ <<>> \o <<v>> \in Seq(Caps) /\ Len(<<>> \o <<v>>) = 1
          /\ (<<>> \o <<v>>)[1] = v
    <2> HIDE DEF Caps
    <2> QED BY CapPair
  <1> HIDE DEF caps
  <1>8. CASE usable(p) /\ usable(q) /\ y # x
    <2>1. wide = <<x>> /\ narrow = <<y>> BY <1>8, Zenon
    <2>2. x \in Caps /\ y \in Caps /\ y < x /\ x < FullCap /\ y < FullCap
      BY <1>2, <1>4, <1>5, <1>8
    <2> HIDE DEF wide, narrow, x, y, usable
    <2>3. caps \in Seq(Caps) /\ Len(caps) = 2 /\ caps[1] = x /\ caps[2] = y
      BY <1>6, <1>7, <2>1, <2>2
    <2>4. QED BY <2>2, <2>3 DEF caps
  <1>9. CASE usable(p) /\ (usable(q) => y = x)
    <2>1. wide = <<x>> /\ narrow = <<>> BY <1>9, Zenon
    <2>2. x \in Caps /\ x < FullCap BY <1>4, <1>9
    <2> HIDE DEF wide, narrow, x, y, usable
    <2>3. caps \in Seq(Caps) /\ Len(caps) = 1 /\ caps[1] = x
      BY <1>6, <1>7, <2>1, <2>2
    <2>4. QED BY <2>2, <2>3 DEF caps
  <1>10. CASE ~usable(p) /\ usable(q)
    <2>1. wide = <<>> /\ narrow = <<y>> BY <1>10, Zenon
    <2>2. y \in Caps /\ y < FullCap BY <1>5, <1>10
    <2> HIDE DEF wide, narrow, x, y, usable
    <2>3. caps \in Seq(Caps) /\ Len(caps) = 1 /\ caps[1] = y
      BY <1>6, <1>7, <2>1, <2>2
    <2>4. QED BY <2>2, <2>3 DEF caps
  <1>11. CASE ~usable(p) /\ ~usable(q)
    <2>1. wide \o narrow = <<>> BY <1>11
    <2>2. QED BY <1>3, <2>1
  <1>12. QED BY <1>8, <1>9, <1>10, <1>11

-----------------------------------------------------------------------------
\* The rungs.

LEMMA StartType ==
    ASSUME NEW request \in Nat
    PROVE  Start(request) \in 1 .. 3
  <1> DEFINE P(i) == /\ Batches[i] <= Clamped(request)
                     /\ \A j \in 1 .. i - 1 : Batches[j] > Clamped(request)
  <1>1. Clamped(request) \in {1, 2, 3, 4} BY DEF Clamped
  <1>2. Batches[1] = 4 /\ Batches[2] = 2 /\ Batches[3] = 1 BY DEF Batches
  <1>3. CASE Clamped(request) = 4
    <2>1. P(1) BY <1>2, <1>3
    <2>2. \E i \in 1 .. 3 : P(i) BY <2>1
    <2>3. QED BY <2>2 DEF Start
  <1>4. CASE Clamped(request) \in {2, 3}
    <2>1. P(2) BY <1>2, <1>4
    <2>2. \E i \in 1 .. 3 : P(i) BY <2>1
    <2>3. QED BY <2>2 DEF Start
  <1>5. CASE Clamped(request) = 1
    <2>1. P(3) BY <1>2, <1>5
    <2>2. \E i \in 1 .. 3 : P(i) BY <2>1
    <2>3. QED BY <2>2 DEF Start
  <1>6. QED BY <1>1, <1>3, <1>4, <1>5

LEMMA BatchesDescend ==
    /\ \A i \in 1 .. 3 : Batches[i] \in {1, 2, 4}
    /\ \A i \in 1 .. 3 : \A j \in i + 1 .. 3 : Batches[j] < Batches[i]
  <1>1. Batches[1] = 4 /\ Batches[2] = 2 /\ Batches[3] = 1 BY DEF Batches
  <1>2. QED BY <1>1

LEMMA FirstRungsLadder ==
    ASSUME NEW start \in 1 .. 3, NEW gc \in BOOLEAN, NEW supported \in BOOLEAN
    PROVE  /\ Ladder(FirstRungs(start, gc, supported))
           /\ Len(FirstRungs(start, gc, supported)) > 0
           /\ \A i \in 1 .. Len(FirstRungs(start, gc, supported)) :
                LET p == FirstRungs(start, gc, supported)[i]
                IN p.batch = Batches[start] /\ p.cap = FullCap /\ (p.gc => supported)
  <1> DEFINE b == Batches[start]
             one == Rung(b, gc /\ supported, FullCap)
             two == [one EXCEPT !.gc = TRUE]
             s == FirstRungs(start, gc, supported)
  <1>1. b \in {1, 2, 4} BY BatchesDescend
  <1>2. FullCap \in 1 .. FullCap BY SurvivalLadderAssumption
  <1>3. /\ one \in Geometry /\ Balanced(one) /\ one.batch = b /\ one.cap = FullCap
        /\ one.gc = (gc /\ supported)
    BY <1>1, <1>2, RungGeometry
  <1>4. s = IF supported /\ ~gc THEN <<one, two>> ELSE <<one>> BY DEF FirstRungs
  <1> HIDE DEF b, one, s
  <1>5. /\ two \in Geometry /\ Balanced(two) /\ two.batch = b /\ two.cap = FullCap
        /\ two.gc = TRUE
    BY <1>3 DEF Geometry, Balanced
  <1> HIDE DEF two
  <1>6. CASE supported /\ ~gc
    <2>1. s = <<one, two>> BY <1>4, <1>6
    <2>2. s \in Seq(Geometry) /\ Len(s) = 2 /\ s[1] = one /\ s[2] = two
      BY <1>3, <1>5, <2>1
    <2>3. Lower(one, two) BY <1>1, <1>2, <1>3, <1>5, <1>6 DEF Lower
    <2>4. Ladder(s) BY <1>3, <1>5, <2>2, <2>3 DEF Ladder, Descending
    <2>5. \A i \in 1 .. Len(s) :
             s[i].batch = b /\ s[i].cap = FullCap /\ (s[i].gc => supported)
      BY <1>3, <1>5, <1>6, <2>2
    <2>6. QED BY <2>2, <2>4, <2>5 DEF b, s
  <1>7. CASE ~(supported /\ ~gc)
    <2>1. s = <<one>> BY <1>4, <1>7
    <2>2. s \in Seq(Geometry) /\ Len(s) = 1 /\ s[1] = one BY <1>3, <2>1
    <2>3. Ladder(s) BY <1>3, <2>2 DEF Ladder, Descending
    <2>4. QED BY <1>3, <2>2, <2>3 DEF b, s
  <1>8. QED BY <1>6, <1>7

LEMMA SmallerRungsLadder ==
    ASSUME NEW start \in 1 .. 3, NEW supported \in BOOLEAN
    PROVE  /\ Ladder(SmallerRungs(start, supported))
           /\ \A i \in 1 .. Len(SmallerRungs(start, supported)) :
                LET p == SmallerRungs(start, supported)[i]
                IN p.batch < Batches[start] /\ p.cap = FullCap /\ p.gc = supported
  <1> DEFINE s == SmallerRungs(start, supported)
  <1>1. FullCap \in 1 .. FullCap BY SurvivalLadderAssumption
  <1>2. ASSUME NEW i \in 1 .. 3 - start
        PROVE  /\ s[i] \in Geometry /\ Balanced(s[i])
               /\ s[i].batch = Batches[start + i] /\ s[i].gc = supported
               /\ s[i].cap = FullCap
    <2>1. Batches[start + i] \in {1, 2, 4} BY BatchesDescend
    <2>2. s[i] = Rung(Batches[start + i], supported, FullCap)
      BY DEF SmallerRungs, RescueCheckpointing
    <2>3. QED BY <1>1, <2>1, <2>2, RungGeometry
  <1>3. Len(s) = 3 - start /\ s \in Seq(Geometry)
    <2>1. s = [i \in 1 .. 3 - start |-> s[i]] BY DEF SmallerRungs
    <2>2. 3 - start \in Nat OBVIOUS
    <2> HIDE DEF s
    <2>3. QED BY <1>2, <2>1, <2>2
  <1> HIDE DEF s
  <1>4. ASSUME NEW i \in 1 .. Len(s), NEW j \in i + 1 .. Len(s)
        PROVE  Lower(s[i], s[j])
    <2>1. /\ i \in 1 .. 3 - start /\ j \in 1 .. 3 - start /\ start + i \in 1 .. 3
          /\ start + j \in start + i + 1 .. 3
      BY <1>3
    <2>2. Batches[start + j] < Batches[start + i] BY <2>1, BatchesDescend
    <2>3. Batches[start + j] \in Nat /\ Batches[start + i] \in Nat
      BY <2>1, BatchesDescend
    <2>4. QED BY <1>1, <1>2, <2>1, <2>2, <2>3 DEF Lower
  <1>5. Ladder(s) BY <1>2, <1>3, <1>4 DEF Ladder, Descending
  <1>6. ASSUME NEW i \in 1 .. Len(s) PROVE Batches[start + i] < Batches[start]
    BY <1>3, BatchesDescend
  <1>7. QED BY <1>2, <1>3, <1>5, <1>6 DEF s

LEMMA ShorterRungsLadder ==
    ASSUME NEW supported \in BOOLEAN, NEW caps \in Seq(1 .. FullCap),
           \A i \in 1 .. Len(caps) : \A j \in i + 1 .. Len(caps) : caps[j] < caps[i]
    PROVE  /\ Ladder(ShorterRungs(supported, caps))
           /\ Len(ShorterRungs(supported, caps)) = Len(caps)
           /\ \A i \in 1 .. Len(caps) :
                LET p == ShorterRungs(supported, caps)[i]
                IN p.batch = 1 /\ p.cap = caps[i] /\ p.gc = supported
  <1> DEFINE s == ShorterRungs(supported, caps)
  <1>1. ASSUME NEW i \in 1 .. Len(caps)
        PROVE  /\ s[i] \in Geometry /\ Balanced(s[i])
               /\ s[i].batch = 1 /\ s[i].gc = supported /\ s[i].cap = caps[i]
               /\ caps[i] \in Nat
    <2>1. caps[i] \in 1 .. FullCap BY ElementType, Zenon
    <2>2. s[i] = Rung(1, supported, caps[i]) BY DEF ShorterRungs, RescueCheckpointing
    <2>3. QED BY <2>1, <2>2, RungGeometry
  <1>2. Len(s) = Len(caps) /\ s \in Seq(Geometry)
    <2>1. s = [i \in 1 .. Len(caps) |-> s[i]] BY DEF ShorterRungs
    <2>2. Len(caps) \in Nat OBVIOUS
    <2> HIDE DEF s
    <2>3. QED BY <1>1, <2>1, <2>2
  <1> HIDE DEF s
  <1>3. ASSUME NEW i \in 1 .. Len(s), NEW j \in i + 1 .. Len(s)
        PROVE  Lower(s[i], s[j])
    BY <1>1, <1>2 DEF Lower
  <1>4. Ladder(s) BY <1>1, <1>2, <1>3 DEF Ladder, Descending
  <1>5. QED BY <1>1, <1>2, <1>4 DEF s

\* _plans lists a ladder that starts at the initial cap, whatever the request,
\* the plan's checkpointing, the model's support for it and the reduced caps.
LEMMA PlansLadder ==
    ASSUME NEW request \in Nat, NEW gc \in BOOLEAN, NEW supported \in BOOLEAN,
           NEW caps \in Seq(1 .. FullCap),
           \A i \in 1 .. Len(caps) :
             /\ caps[i] < FullCap
             /\ \A j \in i + 1 .. Len(caps) : caps[j] < caps[i]
    PROVE  LET plans == Plans(request, gc, supported, caps)
           IN Ladder(plans) /\ Len(plans) > 0 /\ plans[1].cap = FullCap
  <1> DEFINE start == Start(request)
             r == FirstRungs(start, gc, supported)
             s == SmallerRungs(start, supported)
             t == ShorterRungs(supported, caps)
  <1>1. start \in 1 .. 3 BY StartType
  <1>2. /\ Ladder(r) /\ Len(r) > 0
        /\ \A i \in 1 .. Len(r) :
             r[i].batch = Batches[start] /\ r[i].cap = FullCap /\ (r[i].gc => supported)
    BY <1>1, FirstRungsLadder
  <1>3. /\ Ladder(s)
        /\ \A i \in 1 .. Len(s) :
             s[i].batch < Batches[start] /\ s[i].cap = FullCap /\ s[i].gc = supported
    BY <1>1, SmallerRungsLadder
  <1>4. /\ Ladder(t) /\ Len(t) = Len(caps)
        /\ \A i \in 1 .. Len(caps) :
             t[i].batch = 1 /\ t[i].cap = caps[i] /\ t[i].gc = supported
    BY ShorterRungsLadder
  <1>5. /\ Batches[start] \in {1, 2, 4} /\ FullCap \in Nat
        /\ Plans(request, gc, supported, caps) = Unique(r \o s \o t)
    BY <1>1, BatchesDescend, SurvivalLadderAssumption DEF Plans
  <1> HIDE DEF start, r, s, t
  <1>6. ASSUME NEW u, Ladder(u), NEW i \in 1 .. Len(u)
        PROVE  u[i].batch \in {1, 2, 4} /\ u[i].cap \in Nat /\ u[i].gc \in BOOLEAN
    <2>1. u[i] \in Geometry BY <1>6, ElementType DEF Ladder
    <2>2. QED BY <2>1, <1>5 DEF Geometry
  <1>7. Ladder(r \o s)
    <2>1. ASSUME NEW i \in 1 .. Len(r), NEW j \in 1 .. Len(s) PROVE Lower(r[i], s[j])
      <3>1. /\ r[i].batch = Batches[start] /\ r[i].cap = FullCap
            /\ (r[i].gc => supported)
        BY <1>2
      <3>2. s[j].batch < Batches[start] /\ s[j].cap = FullCap /\ s[j].gc = supported
        BY <1>3
      <3>3. s[j].batch \in Nat BY <1>3, <1>6
      <3>4. s[j].batch < r[i].batch /\ s[j].batch <= r[i].batch
        BY <1>5, <3>1, <3>2, <3>3
      <3>5. s[j].cap <= r[i].cap BY <1>5, <3>1, <3>2
      <3>6. r[i].gc => s[j].gc BY <3>1, <3>2
      <3>7. QED BY <3>4, <3>5, <3>6 DEF Lower
    <2>2. QED BY <1>2, <1>3, <2>1, LaddersJoin
  <1>8. \A i \in 1 .. Len(r \o s) :
           /\ (r \o s)[i].cap = FullCap /\ ((r \o s)[i].gc => supported)
           /\ (r \o s)[i].batch \in {1, 2, 4}
    <2>1. SUFFICES ASSUME NEW i \in 1 .. Len(r \o s)
                   PROVE  /\ (r \o s)[i].cap = FullCap /\ ((r \o s)[i].gc => supported)
                          /\ (r \o s)[i].batch \in {1, 2, 4}
      OBVIOUS
    <2>2. /\ r \in Seq(Geometry) /\ s \in Seq(Geometry)
          /\ i \in 1 .. Len(r) \/ i - Len(r) \in 1 .. Len(s)
          /\ (r \o s)[i] = IF i <= Len(r) THEN r[i] ELSE s[i - Len(r)]
      BY <1>2, <1>3 DEF Ladder
    <2>3. CASE i \in 1 .. Len(r) BY <1>2, <1>6, <2>2, <2>3
    <2>4. CASE i - Len(r) \in 1 .. Len(s)
      <3>1. (r \o s)[i] = s[i - Len(r)] BY <2>2, <2>4
      <3>2. QED BY <1>3, <1>6, <2>4, <3>1
    <2>5. QED BY <2>2, <2>3, <2>4
  <1>9. Ladder(r \o s \o t)
    <2>1. ASSUME NEW i \in 1 .. Len(r \o s), NEW j \in 1 .. Len(t)
          PROVE  Lower((r \o s)[i], t[j])
      <3>1. j \in 1 .. Len(caps) /\ caps[j] < FullCap BY <1>4
      <3>2. t[j].batch = 1 /\ t[j].cap = caps[j] /\ t[j].gc = supported BY <1>4, <3>1
      <3>3. /\ (r \o s)[i].cap = FullCap /\ ((r \o s)[i].gc => supported)
            /\ (r \o s)[i].batch \in {1, 2, 4}
        BY <1>8
      <3>4. t[j].cap \in Nat BY <1>4, <1>6
      <3>5. t[j].cap < (r \o s)[i].cap /\ t[j].cap <= (r \o s)[i].cap
        BY <1>5, <3>1, <3>2, <3>3, <3>4
      <3>6. t[j].batch <= (r \o s)[i].batch BY <3>2, <3>3
      <3>7. (r \o s)[i].gc => t[j].gc BY <3>2, <3>3
      <3>8. QED BY <3>5, <3>6, <3>7 DEF Lower
    <2>2. QED BY <1>4, <1>7, <2>1, LaddersJoin
  <1>10. Unique(r \o s \o t) = r \o s \o t
    <2> DEFINE w == r \o s \o t
    <2>1. w \in Seq(Geometry) BY <1>9 DEF Ladder
    <2>2. ASSUME NEW i \in 1 .. Len(w), NEW j \in 1 .. i - 1 PROVE w[j] # w[i]
      <3> HIDE DEF w
      <3>1. j \in 1 .. Len(w) /\ i \in j + 1 .. Len(w) BY <2>1
      <3>2. Ladder(w) BY <1>9 DEF w
      <3>3. QED BY <3>1, <3>2, RungsDiffer
    <2> HIDE DEF w
    <2>3. Unique(w) = w BY <2>1, <2>2, UniqueOfDistinct
    <2>4. QED BY <2>3 DEF w
  <1>11. Len(r \o s \o t) > 0 /\ (r \o s \o t)[1].cap = FullCap
    <2>1. r \in Seq(Geometry) /\ s \in Seq(Geometry) /\ t \in Seq(Geometry)
      BY <1>2, <1>3, <1>4 DEF Ladder
    <2>2. /\ Len(r \o s \o t) = Len(r) + Len(s) + Len(t)
          /\ (r \o s \o t)[1] = r[1]
      BY <1>2, <2>1
    <2>3. QED BY <1>2, <2>1, <2>2
  <1>12. QED BY <1>5, <1>9, <1>10, <1>11

-----------------------------------------------------------------------------
\* The inductive invariant.

\* The ladder was listed by _plans and never changes: it goes down, and its
\* first rung has the rows of the initial view, which need no authorization.
LadderKept == Ladder(rungs) /\ Len(rungs) > 0 /\ rungs[1].cap = FullCap

\* The rungs whose rows the task's distribution authorizes.
Fits == {i \in 1 .. Len(rungs) : Authorized(rungs[i].cap)}

\* Which reference keeps a model on the device: run's until the first probe
\* takes it over, then that of the frame at work, and none in between.
Holder ==
    /\ phase \in {"admit", "probe_build"} =>
         live = {} \/ (live = {"initial"} /\ rung = 1 /\ batch = 1)
    /\ phase = "probe" => live \in {{}, {"initial"}, {"probe"}}
    /\ phase \in {"ladder", "measure_build", "build"} => live = {}
    /\ phase = "measure" => live = {"timing"}
    /\ phase \in {"make", "train"} => live = {"training"}
    /\ phase \in {"oom", "done"} => live \in {{}, {"training"}}

\* A rung at work is an authorized one of the ladder, and so is its view.
AtRung == phase \in {"probe_build", "probe", "measure_build", "measure", "build", "make",
                     "train", "oom"}

Rows == AtRung => rung \in Fits /\ view = Cap

\* Only training makes optimizer steps, and only the end has an outcome.
Position ==
    /\ step > 0 => phase \in {"train", "oom", "done"}
    /\ phase # "done" => outcome = "none"

\* What _admit knows while it goes down: the fallback is the last authorized rung
\* that it has passed.
Admission ==
    /\ phase \in {"admit", "probe_build", "probe"} => admitted = 0 /\ passed = {}
    /\ phase \in {"probe_build", "probe"} => cuda /\ fallback = rung
    /\ phase = "admit" =>
         /\ ~cuda => rung = 1
         /\ fallback < rung /\ (fallback # 0 => fallback \in Fits)
         /\ \A j \in fallback + 1 .. rung - 1 : j \notin Fits

\* What it decides.
Admitted ==
    admitted # 0 =>
        /\ admitted \in Fits
        /\ ~cuda => admitted = 1
        /\ cuda /\ passed # {} => passed = {admitted}
        /\ cuda /\ passed = {} => \A j \in admitted + 1 .. Len(rungs) : j \notin Fits

\* What _train_ladder leaves behind: every authorized rung above the present one,
\* from the admitted one on, ran out of memory at step zero.
Descent ==
    /\ phase \in {"ladder", "measure_build", "measure", "build", "make", "train", "oom"} =>
         /\ admitted \in 1 .. rung
         /\ \A i \in admitted .. rung - 1 : i \in Fits => i \in exhausted
    /\ outcome = "zero_progress_exhausted" =>
         /\ admitted # 0
         /\ \A i \in admitted .. Len(rungs) : i \in Fits => i \in exhausted

Inv ==
    LadderKept /\ Holder /\ Rows /\ Position /\ Admission /\ Admitted /\ Descent

-----------------------------------------------------------------------------
\* What every step leaves alone, and where the ladder is.

LEMMA Constant ==
    ASSUME [Next]_vars
    PROVE  /\ rungs' = rungs /\ cuda' = cuda /\ retains' = retains
           /\ p99' = p99 /\ p95' = p95
  BY DEF Next, vars, Run, Terminated, AdmitWithoutCuda, AdmitRung, ProbeBuild, Probe,
     AdmitFallback, TrainRung, MeasureBuild, Measure, Build, Make, Builds, TrainStep,
     TrainReturns, OutOfMemory, Error, Raises, ZeroProgressOom, ProgressedOom,
     LadderExhausted

LEMMA FitsConstant == ASSUME [Next]_vars PROVE Fits' = Fits
  BY Constant DEF Fits, Authorized, Required

LEMMA Places ==
    ASSUME TypeOK
    PROVE  /\ Len(rungs) \in Nat /\ rung \in Nat \ {0} /\ rung <= Len(rungs) + 1
           /\ Fits \subseteq 1 .. Len(rungs) /\ step \in Nat
           /\ rung <= Len(rungs) => (Authorized(Cap) <=> rung \in Fits)
           /\ \A i \in 1 .. Len(rungs) : rungs[i].cap \in 1 .. FullCap
  <1>1. rungs \in Seq(Geometry) BY DEF TypeOK, Geometry
  <1>2. \A i \in 1 .. Len(rungs) : rungs[i].cap \in 1 .. FullCap
    <2>1. ASSUME NEW i \in 1 .. Len(rungs) PROVE rungs[i].cap \in 1 .. FullCap
      <3>1. rungs[i] \in Geometry BY <1>1, ElementType
      <3>2. QED BY <3>1 DEF Geometry
    <2>2. QED BY <2>1
  <1>3. Len(rungs) \in Nat BY <1>1
  <1>4. rung \in Nat \ {0} /\ rung <= Len(rungs) + 1 /\ step \in Nat
    BY <1>3, SurvivalLadderAssumption DEF TypeOK
  <1>5. rung <= Len(rungs) => (Authorized(Cap) <=> rung \in Fits)
    BY <1>3, <1>4 DEF Fits, Cap
  <1>6. Fits \subseteq 1 .. Len(rungs) BY DEF Fits
  <1>7. QED BY <1>2, <1>3, <1>4, <1>5, <1>6

-----------------------------------------------------------------------------
\* Every action keeps every part.

LEMMA StepType ==
    ASSUME TypeOK, LadderKept, Rows, Admission, Descent, [Next]_vars
    PROVE  TypeOK'
  <1>1. rungs' = rungs /\ cuda' = cuda /\ Fits' = Fits BY Constant, FitsConstant
  <1>2. /\ Len(rungs) \in Nat /\ rung \in Nat \ {0} /\ rung <= Len(rungs) + 1
        /\ Fits \subseteq 1 .. Len(rungs) /\ step \in Nat
        /\ rung <= Len(rungs) => (Authorized(Cap) <=> rung \in Fits)
        /\ \A i \in 1 .. Len(rungs) : rungs[i].cap \in 1 .. FullCap
    BY Places
  <1>AdmitWithoutCuda. CASE AdmitWithoutCuda
    <2>1. Len(rungs) > 0 /\ rung = 1 /\ Cap \in 1 .. FullCap
      BY <1>2, <1>AdmitWithoutCuda DEF AdmitWithoutCuda, LadderKept, Admission, Cap
    <2>2. view' \in 0 .. FullCap /\ admitted' \in 0 .. Len(rungs)
      BY <1>2, <1>AdmitWithoutCuda, <2>1 DEF AdmitWithoutCuda
    <2>3. QED
      BY <1>1, <1>AdmitWithoutCuda, <2>2 DEF AdmitWithoutCuda, TypeOK, Run, Phases
  <1>AdmitRung. CASE AdmitRung
    <2>1. rung \in 1 .. Len(rungs) /\ Cap \in 1 .. FullCap
      BY <1>2, <1>AdmitRung DEF AdmitRung, Cap
    <2>2. view' \in 0 .. FullCap /\ rung' \in 1 .. Len(rungs) + 1
      BY <1>2, <1>AdmitRung, <2>1 DEF AdmitRung
    <2>3. QED BY <1>1, <1>AdmitRung, <2>1, <2>2 DEF AdmitRung, TypeOK, Run, Phases
  <1>ProbeBuild. CASE ProbeBuild
    BY <1>1, <1>2, <1>ProbeBuild
       DEF ProbeBuild, TypeOK, Run, Phases, Outcomes, Rows, AtRung, Cap
  <1>Probe. CASE Probe
    BY <1>1, <1>2, <1>Probe
       DEF Probe, Discard, TypeOK, Run, Phases, Outcomes, Rows, AtRung, Cap
  <1>AdmitFallback. CASE AdmitFallback
    BY <1>1, <1>2, <1>AdmitFallback
       DEF AdmitFallback, TypeOK, Run, Phases, Outcomes, Rows, AtRung, Cap
  <1>TrainRung. CASE TrainRung
    <2>1. rung \in 1 .. Len(rungs) /\ Cap \in 1 .. FullCap
      BY <1>2, <1>TrainRung DEF TrainRung, Cap
    <2>2. view' \in 0 .. FullCap /\ rung' \in 1 .. Len(rungs) + 1
      BY <1>2, <1>TrainRung, <2>1 DEF TrainRung
    <2>3. QED BY <1>1, <1>TrainRung, <2>1, <2>2 DEF TrainRung, TypeOK, Run, Phases
  <1>MeasureBuild. CASE MeasureBuild
    BY <1>1, <1>2, <1>MeasureBuild
       DEF MeasureBuild, Builds, TypeOK, Run, Phases, Outcomes, Rows, AtRung, Cap
  <1>Measure. CASE Measure
    BY <1>1, <1>2, <1>Measure
       DEF Measure, Discard, TypeOK, Run, Phases, Outcomes, Rows, AtRung, Cap
  <1>Build. CASE Build
    BY <1>1, <1>2, <1>Build
       DEF Build, Builds, TypeOK, Run, Phases, Outcomes, Rows, AtRung, Cap
  <1>Make. CASE Make
    BY <1>1, <1>2, <1>Make
       DEF Make, Builds, TypeOK, Run, Phases, Outcomes, Rows, AtRung, Cap
  <1>TrainStep. CASE TrainStep
    <2>1. step' \in 0 .. MaxSteps
      BY <1>TrainStep, SurvivalLadderAssumption DEF TrainStep, TypeOK
    <2>2. QED BY <1>1, <1>TrainStep, <2>1 DEF TrainStep, TypeOK, Run
  <1>TrainReturns. CASE TrainReturns
    BY <1>1, <1>2, <1>TrainReturns
       DEF TrainReturns, Finish, TypeOK, Run, Phases, Outcomes, Rows, AtRung, Cap
  <1>OutOfMemory. CASE OutOfMemory
    BY <1>1, <1>2, <1>OutOfMemory
       DEF OutOfMemory, TypeOK, Run, Phases, Outcomes, Rows, AtRung, Cap
  <1>Error. CASE Error
    BY <1>1, <1>2, <1>Error
       DEF Error, Raises, Finish, TypeOK, Run, Phases, Outcomes, Rows, AtRung, Cap
  <1>ZeroProgressOom. CASE ZeroProgressOom
    BY <1>1, <1>2, <1>ZeroProgressOom
       DEF ZeroProgressOom, Discard, TypeOK, Run, Phases, Outcomes, Rows, AtRung,
           Cap
  <1>ProgressedOom. CASE ProgressedOom
    BY <1>1, <1>2, <1>ProgressedOom
       DEF ProgressedOom, Finish, TypeOK, Run, Phases, Outcomes, Rows, AtRung, Cap
  <1>LadderExhausted. CASE LadderExhausted
    BY <1>1, <1>2, <1>LadderExhausted
       DEF LadderExhausted, Finish, TypeOK, Run, Phases, Outcomes, Rows, AtRung, Cap
  <1>Stutter. CASE Terminated \/ UNCHANGED vars
    BY <1>1, <1>Stutter
       DEF Terminated, vars, TypeOK, Run, Phases, Outcomes, Rows, AtRung, Cap
  <1>3. QED
    BY <1>AdmitWithoutCuda, <1>AdmitRung, <1>ProbeBuild, <1>Probe,
       <1>AdmitFallback, <1>TrainRung, <1>MeasureBuild, <1>Measure, <1>Build,
       <1>Make, <1>TrainStep, <1>TrainReturns, <1>OutOfMemory, <1>Error,
       <1>ZeroProgressOom, <1>ProgressedOom, <1>LadderExhausted, <1>Stutter
       DEF Next

LEMMA StepHolder ==
    ASSUME TypeOK, LadderKept, Rows, Admission, Holder, [Next]_vars
    PROVE  Holder'
  <1>1. rungs' = rungs /\ cuda' = cuda /\ Fits' = Fits BY Constant, FitsConstant
  <1>2. /\ Len(rungs) \in Nat /\ rung \in Nat \ {0} /\ rung <= Len(rungs) + 1
        /\ Fits \subseteq 1 .. Len(rungs) /\ step \in Nat
        /\ rung <= Len(rungs) => (Authorized(Cap) <=> rung \in Fits)
        /\ \A i \in 1 .. Len(rungs) : rungs[i].cap \in 1 .. FullCap
    BY Places
  <1>AdmitWithoutCuda. CASE AdmitWithoutCuda
    BY <1>1, <1>2, <1>AdmitWithoutCuda
       DEF AdmitWithoutCuda, Holder, LadderKept, Admission
  <1>AdmitRung. CASE AdmitRung
    <2>1. 1 \in Fits BY <1>2 DEF LadderKept, Fits, Authorized
    <2>2. CASE live = {}
      BY <1>AdmitRung, <2>2 DEF AdmitRung, Holder
    <2>3. CASE live # {}
      <3>1. live = {"initial"} /\ rung = 1
        BY <1>AdmitRung, <2>3 DEF AdmitRung, Holder
      <3>2. Authorized(Cap) BY <1>2, <2>1, <3>1
      <3>3. QED BY <1>AdmitRung, <3>1, <3>2 DEF AdmitRung, Holder
    <2>4. QED BY <2>2, <2>3
  <1>ProbeBuild. CASE ProbeBuild
    BY <1>1, <1>2, <1>ProbeBuild DEF ProbeBuild, Holder, LadderKept, Admission
  <1>Probe. CASE Probe
    BY <1>1, <1>2, <1>Probe DEF Probe, Discard, Holder, LadderKept, Admission
  <1>AdmitFallback. CASE AdmitFallback
    BY <1>1, <1>2, <1>AdmitFallback
       DEF AdmitFallback, Holder, LadderKept, Admission
  <1>TrainRung. CASE TrainRung
    BY <1>1, <1>2, <1>TrainRung DEF TrainRung, Holder, LadderKept, Admission
  <1>MeasureBuild. CASE MeasureBuild
    BY <1>1, <1>2, <1>MeasureBuild
       DEF MeasureBuild, Builds, Holder, LadderKept, Admission
  <1>Measure. CASE Measure
    BY <1>1, <1>2, <1>Measure DEF Measure, Discard, Holder, LadderKept, Admission
  <1>Build. CASE Build
    BY <1>1, <1>2, <1>Build DEF Build, Builds, Holder, LadderKept, Admission
  <1>Make. CASE Make
    BY <1>1, <1>2, <1>Make DEF Make, Builds, Holder, LadderKept, Admission
  <1>TrainStep. CASE TrainStep
    BY <1>1, <1>2, <1>TrainStep DEF TrainStep, Holder, LadderKept, Admission
  <1>TrainReturns. CASE TrainReturns
    BY <1>1, <1>2, <1>TrainReturns
       DEF TrainReturns, Finish, Holder, LadderKept, Admission
  <1>OutOfMemory. CASE OutOfMemory
    BY <1>1, <1>2, <1>OutOfMemory DEF OutOfMemory, Holder, LadderKept, Admission
  <1>Error. CASE Error
    BY <1>1, <1>2, <1>Error
       DEF Error, Raises, Finish, Holder, LadderKept, Admission
  <1>ZeroProgressOom. CASE ZeroProgressOom
    BY <1>1, <1>2, <1>ZeroProgressOom
       DEF ZeroProgressOom, Discard, Holder, LadderKept, Admission
  <1>ProgressedOom. CASE ProgressedOom
    BY <1>1, <1>2, <1>ProgressedOom
       DEF ProgressedOom, Finish, Holder, LadderKept, Admission
  <1>LadderExhausted. CASE LadderExhausted
    BY <1>1, <1>2, <1>LadderExhausted
       DEF LadderExhausted, Finish, Holder, LadderKept, Admission
  <1>Stutter. CASE Terminated \/ UNCHANGED vars
    BY <1>1, <1>Stutter DEF Terminated, vars, Holder, LadderKept, Admission
  <1>3. QED
    BY <1>AdmitWithoutCuda, <1>AdmitRung, <1>ProbeBuild, <1>Probe,
       <1>AdmitFallback, <1>TrainRung, <1>MeasureBuild, <1>Measure, <1>Build,
       <1>Make, <1>TrainStep, <1>TrainReturns, <1>OutOfMemory, <1>Error,
       <1>ZeroProgressOom, <1>ProgressedOom, <1>LadderExhausted, <1>Stutter
       DEF Next

LEMMA StepRows ==
    ASSUME TypeOK, Rows, [Next]_vars
    PROVE  Rows'
  <1>1. rungs' = rungs /\ cuda' = cuda /\ Fits' = Fits BY Constant, FitsConstant
  <1>2. /\ Len(rungs) \in Nat /\ rung \in Nat \ {0} /\ rung <= Len(rungs) + 1
        /\ Fits \subseteq 1 .. Len(rungs) /\ step \in Nat
        /\ rung <= Len(rungs) => (Authorized(Cap) <=> rung \in Fits)
        /\ \A i \in 1 .. Len(rungs) : rungs[i].cap \in 1 .. FullCap
    BY Places
  <1>AdmitWithoutCuda. CASE AdmitWithoutCuda
    BY <1>1, <1>2, <1>AdmitWithoutCuda DEF AdmitWithoutCuda, Rows, AtRung, Cap
  <1>AdmitRung. CASE AdmitRung
    BY <1>1, <1>2, <1>AdmitRung DEF AdmitRung, Rows, AtRung, Cap
  <1>ProbeBuild. CASE ProbeBuild
    BY <1>1, <1>2, <1>ProbeBuild DEF ProbeBuild, Rows, AtRung, Cap
  <1>Probe. CASE Probe
    BY <1>1, <1>2, <1>Probe DEF Probe, Discard, Rows, AtRung, Cap
  <1>AdmitFallback. CASE AdmitFallback
    BY <1>1, <1>2, <1>AdmitFallback DEF AdmitFallback, Rows, AtRung, Cap
  <1>TrainRung. CASE TrainRung
    BY <1>1, <1>2, <1>TrainRung DEF TrainRung, Rows, AtRung, Cap
  <1>MeasureBuild. CASE MeasureBuild
    BY <1>1, <1>2, <1>MeasureBuild DEF MeasureBuild, Builds, Rows, AtRung, Cap
  <1>Measure. CASE Measure
    BY <1>1, <1>2, <1>Measure DEF Measure, Discard, Rows, AtRung, Cap
  <1>Build. CASE Build
    BY <1>1, <1>2, <1>Build DEF Build, Builds, Rows, AtRung, Cap
  <1>Make. CASE Make
    BY <1>1, <1>2, <1>Make DEF Make, Builds, Rows, AtRung, Cap
  <1>TrainStep. CASE TrainStep
    BY <1>1, <1>2, <1>TrainStep DEF TrainStep, Rows, AtRung, Cap
  <1>TrainReturns. CASE TrainReturns
    BY <1>1, <1>2, <1>TrainReturns DEF TrainReturns, Finish, Rows, AtRung, Cap
  <1>OutOfMemory. CASE OutOfMemory
    BY <1>1, <1>2, <1>OutOfMemory DEF OutOfMemory, Rows, AtRung, Cap
  <1>Error. CASE Error
    BY <1>1, <1>2, <1>Error DEF Error, Raises, Finish, Rows, AtRung, Cap
  <1>ZeroProgressOom. CASE ZeroProgressOom
    BY <1>1, <1>2, <1>ZeroProgressOom
       DEF ZeroProgressOom, Discard, Rows, AtRung, Cap
  <1>ProgressedOom. CASE ProgressedOom
    BY <1>1, <1>2, <1>ProgressedOom DEF ProgressedOom, Finish, Rows, AtRung, Cap
  <1>LadderExhausted. CASE LadderExhausted
    BY <1>1, <1>2, <1>LadderExhausted
       DEF LadderExhausted, Finish, Rows, AtRung, Cap
  <1>Stutter. CASE Terminated \/ UNCHANGED vars
    BY <1>1, <1>Stutter DEF Terminated, vars, Rows, AtRung, Cap
  <1>3. QED
    BY <1>AdmitWithoutCuda, <1>AdmitRung, <1>ProbeBuild, <1>Probe,
       <1>AdmitFallback, <1>TrainRung, <1>MeasureBuild, <1>Measure, <1>Build,
       <1>Make, <1>TrainStep, <1>TrainReturns, <1>OutOfMemory, <1>Error,
       <1>ZeroProgressOom, <1>ProgressedOom, <1>LadderExhausted, <1>Stutter
       DEF Next

LEMMA StepPosition ==
    ASSUME TypeOK, Position, [Next]_vars
    PROVE  Position'
  <1>1. rungs' = rungs /\ cuda' = cuda /\ Fits' = Fits BY Constant, FitsConstant
  <1>2. /\ Len(rungs) \in Nat /\ rung \in Nat \ {0} /\ rung <= Len(rungs) + 1
        /\ Fits \subseteq 1 .. Len(rungs) /\ step \in Nat
        /\ rung <= Len(rungs) => (Authorized(Cap) <=> rung \in Fits)
        /\ \A i \in 1 .. Len(rungs) : rungs[i].cap \in 1 .. FullCap
    BY Places
  <1>AdmitWithoutCuda. CASE AdmitWithoutCuda
    BY <1>1, <1>2, <1>AdmitWithoutCuda DEF AdmitWithoutCuda, Position
  <1>AdmitRung. CASE AdmitRung
    BY <1>1, <1>2, <1>AdmitRung DEF AdmitRung, Position
  <1>ProbeBuild. CASE ProbeBuild
    BY <1>1, <1>2, <1>ProbeBuild DEF ProbeBuild, Position
  <1>Probe. CASE Probe
    BY <1>1, <1>2, <1>Probe DEF Probe, Discard, Position
  <1>AdmitFallback. CASE AdmitFallback
    BY <1>1, <1>2, <1>AdmitFallback DEF AdmitFallback, Position
  <1>TrainRung. CASE TrainRung
    BY <1>1, <1>2, <1>TrainRung DEF TrainRung, Position
  <1>MeasureBuild. CASE MeasureBuild
    BY <1>1, <1>2, <1>MeasureBuild DEF MeasureBuild, Builds, Position
  <1>Measure. CASE Measure
    BY <1>1, <1>2, <1>Measure DEF Measure, Discard, Position
  <1>Build. CASE Build
    BY <1>1, <1>2, <1>Build DEF Build, Builds, Position
  <1>Make. CASE Make
    BY <1>1, <1>2, <1>Make DEF Make, Builds, Position
  <1>TrainStep. CASE TrainStep
    BY <1>1, <1>2, <1>TrainStep DEF TrainStep, Position
  <1>TrainReturns. CASE TrainReturns
    BY <1>1, <1>2, <1>TrainReturns DEF TrainReturns, Finish, Position
  <1>OutOfMemory. CASE OutOfMemory
    BY <1>1, <1>2, <1>OutOfMemory DEF OutOfMemory, Position
  <1>Error. CASE Error
    BY <1>1, <1>2, <1>Error DEF Error, Raises, Finish, Position
  <1>ZeroProgressOom. CASE ZeroProgressOom
    BY <1>1, <1>2, <1>ZeroProgressOom DEF ZeroProgressOom, Discard, Position
  <1>ProgressedOom. CASE ProgressedOom
    BY <1>1, <1>2, <1>ProgressedOom DEF ProgressedOom, Finish, Position
  <1>LadderExhausted. CASE LadderExhausted
    BY <1>1, <1>2, <1>LadderExhausted DEF LadderExhausted, Finish, Position
  <1>Stutter. CASE Terminated \/ UNCHANGED vars
    BY <1>1, <1>Stutter DEF Terminated, vars, Position
  <1>3. QED
    BY <1>AdmitWithoutCuda, <1>AdmitRung, <1>ProbeBuild, <1>Probe,
       <1>AdmitFallback, <1>TrainRung, <1>MeasureBuild, <1>Measure, <1>Build,
       <1>Make, <1>TrainStep, <1>TrainReturns, <1>OutOfMemory, <1>Error,
       <1>ZeroProgressOom, <1>ProgressedOom, <1>LadderExhausted, <1>Stutter
       DEF Next

LEMMA StepAdmission ==
    ASSUME TypeOK, Rows, Admission, [Next]_vars
    PROVE  Admission'
  <1>1. rungs' = rungs /\ cuda' = cuda /\ Fits' = Fits BY Constant, FitsConstant
  <1>2. /\ Len(rungs) \in Nat /\ rung \in Nat \ {0} /\ rung <= Len(rungs) + 1
        /\ Fits \subseteq 1 .. Len(rungs) /\ step \in Nat
        /\ rung <= Len(rungs) => (Authorized(Cap) <=> rung \in Fits)
        /\ \A i \in 1 .. Len(rungs) : rungs[i].cap \in 1 .. FullCap
    BY Places
  <1>AdmitWithoutCuda. CASE AdmitWithoutCuda
    BY <1>1, <1>2, <1>AdmitWithoutCuda
       DEF AdmitWithoutCuda, Admission, Rows, AtRung
  <1>AdmitRung. CASE AdmitRung
    <2>1. CASE Authorized(Cap)
      BY <1>1, <1>2, <1>AdmitRung, <2>1 DEF AdmitRung, Admission
    <2>2. CASE ~Authorized(Cap)
      <3>1. /\ rung \notin Fits /\ rung' = rung + 1 /\ phase' = "admit" /\ cuda
            /\ fallback' = fallback /\ admitted' = admitted /\ passed' = passed
        BY <1>2, <1>AdmitRung, <2>2 DEF AdmitRung
      <3>2. /\ admitted = 0 /\ passed = {} /\ fallback < rung
            /\ fallback # 0 => fallback \in Fits
            /\ \A j \in fallback + 1 .. rung - 1 : j \notin Fits
        BY <1>AdmitRung DEF AdmitRung, Admission
      <3>3. fallback \in Nat BY <1>2 DEF TypeOK
      <3>4. fallback' < rung' BY <1>2, <3>1, <3>2, <3>3
      <3>5. \A j \in fallback' + 1 .. rung' - 1 : j \notin Fits BY <1>2, <3>1, <3>2, <3>3
      <3>6. QED BY <1>1, <3>1, <3>2, <3>4, <3>5 DEF Admission
    <2>3. QED BY <2>1, <2>2
  <1>ProbeBuild. CASE ProbeBuild
    BY <1>1, <1>2, <1>ProbeBuild DEF ProbeBuild, Admission, Rows, AtRung
  <1>Probe. CASE Probe
    BY <1>1, <1>2, <1>Probe DEF Probe, Discard, Admission, Rows, AtRung
  <1>AdmitFallback. CASE AdmitFallback
    BY <1>1, <1>2, <1>AdmitFallback DEF AdmitFallback, Admission, Rows, AtRung
  <1>TrainRung. CASE TrainRung
    BY <1>1, <1>2, <1>TrainRung DEF TrainRung, Admission, Rows, AtRung
  <1>MeasureBuild. CASE MeasureBuild
    BY <1>1, <1>2, <1>MeasureBuild
       DEF MeasureBuild, Builds, Admission, Rows, AtRung
  <1>Measure. CASE Measure
    BY <1>1, <1>2, <1>Measure DEF Measure, Discard, Admission, Rows, AtRung
  <1>Build. CASE Build
    BY <1>1, <1>2, <1>Build DEF Build, Builds, Admission, Rows, AtRung
  <1>Make. CASE Make
    BY <1>1, <1>2, <1>Make DEF Make, Builds, Admission, Rows, AtRung
  <1>TrainStep. CASE TrainStep
    BY <1>1, <1>2, <1>TrainStep DEF TrainStep, Admission, Rows, AtRung
  <1>TrainReturns. CASE TrainReturns
    BY <1>1, <1>2, <1>TrainReturns
       DEF TrainReturns, Finish, Admission, Rows, AtRung
  <1>OutOfMemory. CASE OutOfMemory
    BY <1>1, <1>2, <1>OutOfMemory DEF OutOfMemory, Admission, Rows, AtRung
  <1>Error. CASE Error
    BY <1>1, <1>2, <1>Error DEF Error, Raises, Finish, Admission, Rows, AtRung
  <1>ZeroProgressOom. CASE ZeroProgressOom
    BY <1>1, <1>2, <1>ZeroProgressOom
       DEF ZeroProgressOom, Discard, Admission, Rows, AtRung
  <1>ProgressedOom. CASE ProgressedOom
    BY <1>1, <1>2, <1>ProgressedOom
       DEF ProgressedOom, Finish, Admission, Rows, AtRung
  <1>LadderExhausted. CASE LadderExhausted
    BY <1>1, <1>2, <1>LadderExhausted
       DEF LadderExhausted, Finish, Admission, Rows, AtRung
  <1>Stutter. CASE Terminated \/ UNCHANGED vars
    BY <1>1, <1>Stutter DEF Terminated, vars, Admission, Rows, AtRung
  <1>3. QED
    BY <1>AdmitWithoutCuda, <1>AdmitRung, <1>ProbeBuild, <1>Probe,
       <1>AdmitFallback, <1>TrainRung, <1>MeasureBuild, <1>Measure, <1>Build,
       <1>Make, <1>TrainStep, <1>TrainReturns, <1>OutOfMemory, <1>Error,
       <1>ZeroProgressOom, <1>ProgressedOom, <1>LadderExhausted, <1>Stutter
       DEF Next

LEMMA StepAdmitted ==
    ASSUME TypeOK, LadderKept, Rows, Admission, Admitted, [Next]_vars
    PROVE  Admitted'
  <1>1. rungs' = rungs /\ cuda' = cuda /\ Fits' = Fits BY Constant, FitsConstant
  <1>2. /\ Len(rungs) \in Nat /\ rung \in Nat \ {0} /\ rung <= Len(rungs) + 1
        /\ Fits \subseteq 1 .. Len(rungs) /\ step \in Nat
        /\ rung <= Len(rungs) => (Authorized(Cap) <=> rung \in Fits)
        /\ \A i \in 1 .. Len(rungs) : rungs[i].cap \in 1 .. FullCap
    BY Places
  <1>AdmitWithoutCuda. CASE AdmitWithoutCuda
    <2>1. 1 \in Fits BY <1>2 DEF LadderKept, Fits, Authorized
    <2>2. QED
      BY <1>1, <1>2, <1>AdmitWithoutCuda, <2>1 DEF AdmitWithoutCuda, Admitted
  <1>AdmitRung. CASE AdmitRung
    BY <1>1, <1>2, <1>AdmitRung
       DEF AdmitRung, Admitted, Admission, Rows, AtRung, LadderKept
  <1>ProbeBuild. CASE ProbeBuild
    BY <1>1, <1>2, <1>ProbeBuild
       DEF ProbeBuild, Admitted, Admission, Rows, AtRung, LadderKept
  <1>Probe. CASE Probe
    BY <1>1, <1>2, <1>Probe
       DEF Probe, Discard, Admitted, Admission, Rows, AtRung, LadderKept
  <1>AdmitFallback. CASE AdmitFallback
    BY <1>1, <1>2, <1>AdmitFallback
       DEF AdmitFallback, Admitted, Admission, Rows, AtRung, LadderKept
  <1>TrainRung. CASE TrainRung
    BY <1>1, <1>2, <1>TrainRung
       DEF TrainRung, Admitted, Admission, Rows, AtRung, LadderKept
  <1>MeasureBuild. CASE MeasureBuild
    BY <1>1, <1>2, <1>MeasureBuild
       DEF MeasureBuild, Builds, Admitted, Admission, Rows, AtRung, LadderKept
  <1>Measure. CASE Measure
    BY <1>1, <1>2, <1>Measure
       DEF Measure, Discard, Admitted, Admission, Rows, AtRung, LadderKept
  <1>Build. CASE Build
    BY <1>1, <1>2, <1>Build
       DEF Build, Builds, Admitted, Admission, Rows, AtRung, LadderKept
  <1>Make. CASE Make
    BY <1>1, <1>2, <1>Make
       DEF Make, Builds, Admitted, Admission, Rows, AtRung, LadderKept
  <1>TrainStep. CASE TrainStep
    BY <1>1, <1>2, <1>TrainStep
       DEF TrainStep, Admitted, Admission, Rows, AtRung, LadderKept
  <1>TrainReturns. CASE TrainReturns
    BY <1>1, <1>2, <1>TrainReturns
       DEF TrainReturns, Finish, Admitted, Admission, Rows, AtRung, LadderKept
  <1>OutOfMemory. CASE OutOfMemory
    BY <1>1, <1>2, <1>OutOfMemory
       DEF OutOfMemory, Admitted, Admission, Rows, AtRung, LadderKept
  <1>Error. CASE Error
    BY <1>1, <1>2, <1>Error
       DEF Error, Raises, Finish, Admitted, Admission, Rows, AtRung, LadderKept
  <1>ZeroProgressOom. CASE ZeroProgressOom
    BY <1>1, <1>2, <1>ZeroProgressOom
       DEF ZeroProgressOom, Discard, Admitted, Admission, Rows, AtRung, LadderKept
  <1>ProgressedOom. CASE ProgressedOom
    BY <1>1, <1>2, <1>ProgressedOom
       DEF ProgressedOom, Finish, Admitted, Admission, Rows, AtRung, LadderKept
  <1>LadderExhausted. CASE LadderExhausted
    BY <1>1, <1>2, <1>LadderExhausted
       DEF LadderExhausted, Finish, Admitted, Admission, Rows, AtRung, LadderKept
  <1>Stutter. CASE Terminated \/ UNCHANGED vars
    BY <1>1, <1>Stutter
       DEF Terminated, vars, Admitted, Admission, Rows, AtRung, LadderKept
  <1>3. QED
    BY <1>AdmitWithoutCuda, <1>AdmitRung, <1>ProbeBuild, <1>Probe,
       <1>AdmitFallback, <1>TrainRung, <1>MeasureBuild, <1>Measure, <1>Build,
       <1>Make, <1>TrainStep, <1>TrainReturns, <1>OutOfMemory, <1>Error,
       <1>ZeroProgressOom, <1>ProgressedOom, <1>LadderExhausted, <1>Stutter
       DEF Next

LEMMA StepDescent ==
    ASSUME TypeOK, Position, Rows, Admission, Admitted, Descent, [Next]_vars
    PROVE  Descent'
  <1>1. rungs' = rungs /\ cuda' = cuda /\ Fits' = Fits BY Constant, FitsConstant
  <1>2. /\ Len(rungs) \in Nat /\ rung \in Nat \ {0} /\ rung <= Len(rungs) + 1
        /\ Fits \subseteq 1 .. Len(rungs) /\ step \in Nat
        /\ rung <= Len(rungs) => (Authorized(Cap) <=> rung \in Fits)
        /\ \A i \in 1 .. Len(rungs) : rungs[i].cap \in 1 .. FullCap
    BY Places
  <1>AdmitWithoutCuda. CASE AdmitWithoutCuda
    BY <1>1, <1>2, <1>AdmitWithoutCuda
       DEF AdmitWithoutCuda, Descent, Admission, Admitted, Rows, AtRung, Position
  <1>AdmitRung. CASE AdmitRung
    BY <1>1, <1>2, <1>AdmitRung
       DEF AdmitRung, Descent, Admission, Admitted, Rows, AtRung, Position
  <1>ProbeBuild. CASE ProbeBuild
    BY <1>1, <1>2, <1>ProbeBuild
       DEF ProbeBuild, Descent, Admission, Admitted, Rows, AtRung, Position
  <1>Probe. CASE Probe
    BY <1>1, <1>2, <1>Probe
       DEF Probe, Discard, Descent, Admission, Admitted, Rows, AtRung, Position
  <1>AdmitFallback. CASE AdmitFallback
    <2>1. /\ phase' = "ladder" /\ rung' = fallback /\ admitted' = fallback
          /\ fallback # 0 /\ outcome' = outcome /\ outcome = "none"
      BY <1>AdmitFallback DEF AdmitFallback, Position
    <2>2. fallback \in Nat BY <1>2 DEF TypeOK
    <2>3. QED BY <2>1, <2>2 DEF Descent
  <1>TrainRung. CASE TrainRung
    BY <1>1, <1>2, <1>TrainRung
       DEF TrainRung, Descent, Admission, Admitted, Rows, AtRung, Position
  <1>MeasureBuild. CASE MeasureBuild
    BY <1>1, <1>2, <1>MeasureBuild
       DEF MeasureBuild, Builds, Descent, Admission, Admitted, Rows, AtRung,
           Position
  <1>Measure. CASE Measure
    BY <1>1, <1>2, <1>Measure
       DEF Measure, Discard, Descent, Admission, Admitted, Rows, AtRung, Position
  <1>Build. CASE Build
    BY <1>1, <1>2, <1>Build
       DEF Build, Builds, Descent, Admission, Admitted, Rows, AtRung, Position
  <1>Make. CASE Make
    BY <1>1, <1>2, <1>Make
       DEF Make, Builds, Descent, Admission, Admitted, Rows, AtRung, Position
  <1>TrainStep. CASE TrainStep
    BY <1>1, <1>2, <1>TrainStep
       DEF TrainStep, Descent, Admission, Admitted, Rows, AtRung, Position
  <1>TrainReturns. CASE TrainReturns
    BY <1>1, <1>2, <1>TrainReturns
       DEF TrainReturns, Finish, Descent, Admission, Admitted, Rows, AtRung,
           Position
  <1>OutOfMemory. CASE OutOfMemory
    BY <1>1, <1>2, <1>OutOfMemory
       DEF OutOfMemory, Descent, Admission, Admitted, Rows, AtRung, Position
  <1>Error. CASE Error
    BY <1>1, <1>2, <1>Error
       DEF Error, Raises, Finish, Descent, Admission, Admitted, Rows, AtRung,
           Position
  <1>ZeroProgressOom. CASE ZeroProgressOom
    BY <1>1, <1>2, <1>ZeroProgressOom
       DEF ZeroProgressOom, Discard, Descent, Admission, Admitted, Rows, AtRung,
           Position
  <1>ProgressedOom. CASE ProgressedOom
    BY <1>1, <1>2, <1>ProgressedOom
       DEF ProgressedOom, Finish, Descent, Admission, Admitted, Rows, AtRung,
           Position
  <1>LadderExhausted. CASE LadderExhausted
    BY <1>1, <1>2, <1>LadderExhausted
       DEF LadderExhausted, Finish, Descent, Admission, Admitted, Rows, AtRung,
           Position
  <1>Stutter. CASE Terminated \/ UNCHANGED vars
    BY <1>1, <1>Stutter
       DEF Terminated, vars, Descent, Admission, Admitted, Rows, AtRung, Position
  <1>3. QED
    BY <1>AdmitWithoutCuda, <1>AdmitRung, <1>ProbeBuild, <1>Probe,
       <1>AdmitFallback, <1>TrainRung, <1>MeasureBuild, <1>Measure, <1>Build,
       <1>Make, <1>TrainStep, <1>TrainReturns, <1>OutOfMemory, <1>Error,
       <1>ZeroProgressOom, <1>ProgressedOom, <1>LadderExhausted, <1>Stutter
       DEF Next

-----------------------------------------------------------------------------
\* The invariant holds at the start and is kept.

LEMMA InitLadder == Init => TypeOK /\ LadderKept
  <1>1. SUFFICES ASSUME Init PROVE TypeOK /\ LadderKept OBVIOUS
  <1>2. PICK request \in Requests, gc \in BOOLEAN, supported \in BOOLEAN,
             summary \in BOOLEAN :
          rungs = Plans(request, gc, supported,
                        IF summary THEN ReducedCaps(p99, p95) ELSE <<>>)
    BY <1>1 DEF Init
  <1>3. request \in Nat /\ p99 \in Nat /\ p95 \in Nat /\ p95 <= p99
    BY <1>1, SurvivalLadderAssumption DEF Init
  <1> DEFINE Descends(caps) ==
                \A i \in 1 .. Len(caps) :
                  /\ caps[i] < FullCap
                  /\ \A j \in i + 1 .. Len(caps) : caps[j] < caps[i]
  <1>4. \E caps \in Seq(1 .. FullCap) :
          rungs = Plans(request, gc, supported, caps) /\ Descends(caps)
    <2>1. CASE summary
      <3>1. rungs = Plans(request, gc, supported, ReducedCaps(p99, p95))
        BY <1>2, <2>1
      <3>2. ReducedCaps(p99, p95) \in Seq(1 .. FullCap) /\ Descends(ReducedCaps(p99, p95))
        BY <1>3, ReducedCapsDescend
      <3>3. QED BY <3>1, <3>2
    <2>2. CASE ~summary
      <3>1. rungs = Plans(request, gc, supported, <<>>) BY <1>2, <2>2
      <3>2. <<>> \in Seq(1 .. FullCap) /\ Descends(<<>>) OBVIOUS
      <3> HIDE DEF Descends
      <3>3. QED BY <3>1, <3>2, Zenon
    <2>3. QED BY <2>1, <2>2
  <1>5. Ladder(rungs) /\ Len(rungs) > 0 /\ rungs[1].cap = FullCap
    <2>1. PICK caps \in Seq(1 .. FullCap) :
            rungs = Plans(request, gc, supported, caps) /\ Descends(caps)
      BY <1>4
    <2>2. QED BY <1>3, <2>1, PlansLadder
  <1>6. rungs \in Seq(Geometry) /\ Len(rungs) \in Nat BY <1>5 DEF Ladder
  <1>7. TypeOK
    BY <1>1, <1>5, <1>6, SurvivalLadderAssumption
       DEF Init, TypeOK, Geometry, Phases, Outcomes
  <1>8. QED BY <1>5, <1>7 DEF LadderKept

LEMMA InitInv == Init => TypeOK /\ Inv
  <1>1. SUFFICES ASSUME Init PROVE Inv BY InitLadder
  <1>2. LadderKept BY <1>1, InitLadder
  <1>3. /\ phase = "admit" /\ rung = 1 /\ batch = 1 /\ fallback = 0 /\ admitted = 0
        /\ live = {"initial"} /\ step = 0 /\ passed = {} /\ outcome = "none"
    BY <1>1 DEF Init
  <1>4. QED
    BY <1>2, <1>3
       DEF Inv, Holder, Rows, AtRung, Position, Admission, Admitted, Descent

LEMMA StepInv == TypeOK /\ Inv /\ [Next]_vars => TypeOK' /\ Inv'
  <1>1. SUFFICES ASSUME TypeOK, Inv, [Next]_vars PROVE TypeOK' /\ Inv' OBVIOUS
  <1>2. LadderKept /\ Holder /\ Rows /\ Position /\ Admission /\ Admitted /\ Descent
    BY <1>1 DEF Inv
  <1>3. TypeOK' BY <1>1, <1>2, StepType
  <1>4. LadderKept' BY <1>1, <1>2, Constant DEF LadderKept
  <1>5. Holder' BY <1>1, <1>2, StepHolder
  <1>6. Rows' BY <1>1, <1>2, StepRows
  <1>7. Position' BY <1>1, <1>2, StepPosition
  <1>8. Admission' BY <1>1, <1>2, StepAdmission
  <1>9. Admitted' BY <1>1, <1>2, StepAdmitted
  <1>10. Descent' BY <1>1, <1>2, StepDescent
  <1>11. QED BY <1>3, <1>4, <1>5, <1>6, <1>7, <1>8, <1>9, <1>10 DEF Inv

\* In every behaviour the types and the inductive invariant hold together.
THEOREM InvHolds == Spec => [](TypeOK /\ Inv)
  BY InitInv, StepInv, PTL DEF Spec

\* Every rung is a geometry _plans can make, and rung, fallback and admitted stay
\* indices of the ladder.
THEOREM TypeCorrect == Spec => []TypeOK
  BY InvHolds, PTL

\* run, _admit, _probe_once, measure_epochs and _train_ladder never hold two
\* models on the device at once.
THEOREM OneModelAtATime == Spec => []OneModelOnDevice
  <1>1. TypeOK /\ Inv => OneModelOnDevice
    <2>1. SUFFICES ASSUME TypeOK, Holder PROVE Cardinality(live) <= 1
      BY DEF Inv, OneModelOnDevice
    <2>2. live = {} \/ \E owner : live = {owner}
      BY <2>1 DEF Holder, TypeOK, Phases
    <2>3. Cardinality(live) \in {0, 1} BY <2>2, FS_EmptySet, FS_Singleton, Zenon
    <2>4. QED BY <2>3
  <1>2. QED BY <1>1, InvHolds, PTL

\* Whatever rung is probed, timed or trained, its rows are those of its own cap
\* and _make_data_view authorized them.
THEOREM RowsStayWithTheRung == Spec => []RowsFitTheRung
  <1>1. TypeOK /\ Inv => RowsFitTheRung
    BY Places DEF Inv, Rows, AtRung, RowsFitTheRung, Fits, Cap
  <1>2. QED BY <1>1, InvHolds, PTL

\* _plans: down the ladder nothing grows, no geometry comes twice, and every
\* rung has an effective batch of 16.
THEOREM LadderGoesDown == Spec => []LadderShrinks
  <1>1. TypeOK /\ Inv => LadderShrinks
    <2>1. SUFFICES ASSUME Ladder(rungs) PROVE LadderShrinks BY DEF Inv, LadderKept
    <2>2. ASSUME NEW i \in 1 .. Len(rungs), NEW j \in i + 1 .. Len(rungs)
          PROVE  /\ rungs[j] # rungs[i]
                 /\ rungs[j].batch <= rungs[i].batch /\ rungs[j].cap <= rungs[i].cap
                 /\ rungs[i].gc => rungs[j].gc
      <3>1. Lower(rungs[i], rungs[j]) BY <2>1 DEF Ladder, Descending
      <3>2. QED BY <2>1, <3>1, RungsDiffer DEF Lower
    <2>3. QED BY <2>1, <2>2 DEF Ladder, Balanced, LadderShrinks
  <1>2. QED BY <1>1, InvHolds, PTL

\* _admit: training starts at the first rung that passed both probes, else at the
\* last authorized one.
THEOREM FirstFitWins == Spec => []FirstFitIsAdmitted
  <1>1. TypeOK /\ Inv => FirstFitIsAdmitted
    <2>1. SUFFICES ASSUME TypeOK, Admitted, admitted # 0 PROVE FirstFitIsAdmitted
      BY DEF Inv, FirstFitIsAdmitted
    <2>2. Len(rungs) \in Nat /\ admitted \in 1 .. Len(rungs)
      BY <2>1, Places DEF TypeOK
    <2>3. QED BY <2>1, <2>2 DEF Admitted, FirstFitIsAdmitted, Fits
  <1>2. QED BY <1>1, InvHolds, PTL

\* run declares the floor final only when every authorized rung from the admitted
\* one on ran out of memory before its first optimizer step.
THEOREM ExhaustionNeedsEveryRung == Spec => []ExhaustionIsEarned
  <1>1. TypeOK /\ Inv => ExhaustionIsEarned
    <2>1. SUFFICES ASSUME TypeOK, Admitted, Descent,
                          outcome = "zero_progress_exhausted"
                   PROVE  ExhaustionIsEarned
      BY DEF Inv, ExhaustionIsEarned
    <2>2. /\ Len(rungs) \in Nat /\ admitted \in 1 .. Len(rungs) /\ admitted \in Fits
          /\ \A i \in admitted .. Len(rungs) : i \in Fits => i \in exhausted
      BY <2>1, Places DEF TypeOK, Descent, Admitted
    <2>3. exhausted # {} BY <2>2
    <2>4. QED BY <2>2, <2>3 DEF ExhaustionIsEarned, Fits
  <1>2. QED BY <1>1, InvHolds, PTL

\* Once an optimizer step is done the ladder builds no other model.
THEOREM ProgressIsKept == Spec => ProgressEndsTheLadder
  <1> DEFINE Ends == step > 0 => rung' = rung /\ step' >= step
                                 /\ phase' \in {"train", "oom", "done"}
  <1>1. TypeOK /\ Inv /\ [Next]_vars => [Ends]_vars
    <2>1. SUFFICES ASSUME TypeOK, Position, Next, step > 0 PROVE Ends
      BY DEF Inv
    <2>2. step \in Nat /\ phase \in {"train", "oom", "done"}
      BY <2>1, Places DEF Position
    <2>3. QED
      BY <2>1, <2>2
         DEF Next, vars, Run, Terminated, AdmitWithoutCuda, AdmitRung, ProbeBuild,
             Probe, AdmitFallback, TrainRung, MeasureBuild, Measure, Build, Make, Builds,
             TrainStep, TrainReturns, OutOfMemory, Error, Raises, Finish,
             ZeroProgressOom, ProgressedOom, LadderExhausted
  <1>2. QED BY <1>1, InvHolds, PTL DEF Spec, ProgressEndsTheLadder

-----------------------------------------------------------------------------
(* The end of the ladder, without its liveness: a number that every step   *)
(* makes smaller.                                                          *)

\* Rungs below the present one, itself included; 0 past the last.
RungsLeft == Len(rungs) + 1 - rung

\* What admission and training can still do with the present rung.
ProbesLeft ==
    CASE phase = "admit" -> 5
      [] phase = "probe_build" -> IF batch = 1 THEN 4 ELSE 2
      [] phase = "probe" -> IF batch = 1 THEN 3 ELSE 1
      [] OTHER -> 0

StepsLeft ==
    CASE phase = "ladder" -> MaxSteps + 6
      [] phase = "measure_build" -> MaxSteps + 5
      [] phase = "measure" -> MaxSteps + 4
      [] phase = "build" -> MaxSteps + 3
      [] phase = "make" -> MaxSteps + 2
      [] phase = "train" -> MaxSteps - step + 1
      [] OTHER -> 0

Width == MaxSteps + 7

\* Admission comes before training, whichever rung it ends at.
Rank ==
    IF phase = "done" THEN 0
    ELSE IF phase \in {"admit", "probe_build", "probe"}
    THEN 1 + (Len(rungs) + 2) * Width + 5 * RungsLeft + ProbesLeft
    ELSE 1 + RungsLeft * Width + StepsLeft

LEMMA WidthMonotone ==
    ASSUME NEW a \in Nat, NEW b \in Nat, a <= b
    PROVE  a * Width \in Nat /\ b * Width \in Nat /\ a * Width <= b * Width
           /\ (a + 1) * Width = a * Width + Width
  <1>1. Width \in Nat BY SurvivalLadderAssumption DEF Width
  <1>2. b - a \in Nat /\ b = a + (b - a) OBVIOUS
  <1>3. b * Width = a * Width + (b - a) * Width BY <1>1, <1>2
  <1>4. a * Width \in Nat /\ (b - a) * Width \in Nat BY <1>1, <1>2
  <1>5. (a + 1) * Width = a * Width + Width BY <1>1
  <1>6. QED BY <1>3, <1>4, <1>5

\* A step that leaves admission for training goes below all of admission.
LEMMA TrainingBelowAdmission ==
    ASSUME NEW n \in Nat, NEW left \in 0 .. n, NEW probes \in Nat, NEW more \in Nat
    PROVE  1 + left * Width + MaxSteps + 6 < 1 + (n + 2) * Width + 5 * probes + more
  <1>1. left * Width \in Nat /\ n * Width \in Nat /\ left * Width <= n * Width
    BY WidthMonotone
  <1>2. (n + 1) * Width = n * Width + Width /\ ((n + 1) + 1) * Width = (n + 1) * Width + Width
    BY WidthMonotone
  <1>3. (n + 1) + 1 = n + 2 OBVIOUS
  <1>4. QED BY <1>1, <1>2, <1>3, SurvivalLadderAssumption DEF Width

LEMMA RankType ==
    ASSUME TypeOK, LadderKept
    PROVE  /\ Len(rungs) \in Nat /\ rung \in Nat /\ RungsLeft \in 0 .. Len(rungs)
           /\ RungsLeft * Width \in Nat /\ (Len(rungs) + 2) * Width \in Nat
           /\ Rank \in Nat
  <1>1. Len(rungs) \in Nat /\ Len(rungs) > 0 /\ rung \in 1 .. Len(rungs) + 1
        /\ step \in 0 .. MaxSteps /\ MaxSteps \in Nat
    BY SurvivalLadderAssumption DEF TypeOK, LadderKept
  <1>2. RungsLeft \in 0 .. Len(rungs) BY <1>1 DEF RungsLeft
  <1>3. RungsLeft * Width \in Nat /\ (Len(rungs) + 2) * Width \in Nat
    BY <1>1, <1>2, WidthMonotone
  <1>4. ProbesLeft \in Nat BY DEF ProbesLeft
  <1>5. StepsLeft \in Nat BY <1>1 DEF StepsLeft
  <1>6. Rank \in Nat BY <1>1, <1>2, <1>3, <1>4, <1>5 DEF Rank
  <1>7. QED BY <1>1, <1>2, <1>3, <1>6

\* One rung further down leaves a whole width less.
LEMMA NextRung ==
    ASSUME TypeOK, LadderKept, rungs' = rungs, rung' = rung + 1, rung <= Len(rungs)
    PROVE  /\ RungsLeft' = RungsLeft - 1 /\ RungsLeft' \in Nat
           /\ RungsLeft' * Width \in Nat
           /\ RungsLeft * Width = RungsLeft' * Width + Width
  <1>1. Len(rungs) \in Nat /\ rung \in Nat BY RankType
  <1>2. RungsLeft' = RungsLeft - 1 /\ RungsLeft' \in Nat BY <1>1 DEF RungsLeft
  <1> DEFINE m == RungsLeft'
  <1>3. RungsLeft = m + 1 /\ m \in Nat BY <1>1, <1>2, RankType
  <1> HIDE DEF m
  <1>4. m * Width \in Nat /\ (m + 1) * Width = m * Width + Width
    <2>1. Width \in Nat BY SurvivalLadderAssumption DEF Width
    <2>2. QED BY <1>3, <2>1
  <1>5. QED BY <1>2, <1>3, <1>4 DEF m

\* Every step of the search and of the training makes Rank smaller.
LEMMA StepRank ==
    ASSUME TypeOK, Inv, TypeOK', Inv', Next, ~ UNCHANGED vars
    PROVE  Rank' < Rank
  <1> USE SurvivalLadderAssumption
  <1>1. /\ Len(rungs) \in Nat /\ rung \in Nat /\ RungsLeft \in 0 .. Len(rungs)
        /\ RungsLeft * Width \in Nat /\ (Len(rungs) + 2) * Width \in Nat /\ Rank \in Nat
    BY RankType DEF Inv
  <1>2. rungs' = rungs /\ RungsLeft' \in 0 .. Len(rungs) /\ RungsLeft' * Width \in Nat
    <2>1. rungs' = rungs BY Constant
    <2>2. rung' \in 1 .. Len(rungs) + 1 BY <2>1 DEF TypeOK
    <2>3. RungsLeft' \in 0 .. Len(rungs) BY <1>1, <2>1, <2>2 DEF RungsLeft
    <2>4. QED BY <1>1, <2>1, <2>3, WidthMonotone
  <1>3. phase \in Phases /\ phase' \in Phases /\ step \in 0 .. MaxSteps
    BY DEF TypeOK
  <1> DEFINE Base == (Len(rungs) + 2) * Width
             Here == RungsLeft * Width
             There == RungsLeft' * Width
  <1>4. Base \in Nat /\ Here \in Nat /\ There \in Nat BY <1>1, <1>2
  <1>5. ASSUME phase \in {"admit", "probe_build", "probe"}, phase' = "ladder"
        PROVE  Rank' < Rank
    <2>1. ProbesLeft \in Nat BY DEF ProbesLeft
    <2>2. Rank' = 1 + There + MaxSteps + 6
      <3>1. Rank' = 1 + There + StepsLeft' BY <1>5 DEF Rank
      <3>2. StepsLeft' = MaxSteps + 6 BY <1>5 DEF StepsLeft
      <3> HIDE DEF There
      <3> QED BY <1>4, <3>1, <3>2
    <2>3. Rank = 1 + Base + 5 * RungsLeft + ProbesLeft
      BY <1>5 DEF Rank
    <2>4. 1 + There + MaxSteps + 6 < 1 + Base + 5 * RungsLeft + ProbesLeft
      <3> DEFINE left == RungsLeft'
                 n == Len(rungs)
                 more == ProbesLeft
                 probes == RungsLeft
      <3>1. n \in Nat /\ left \in 0 .. n /\ more \in Nat /\ probes \in Nat
        BY <1>1, <1>2, <2>1
      <3> HIDE DEF left, n, more, probes
      <3>2. 1 + left * Width + MaxSteps + 6 < 1 + (n + 2) * Width + 5 * probes + more
        BY <3>1, TrainingBelowAdmission
      <3> QED BY <3>2 DEF left, n, more, probes
    <2>5. QED BY <2>2, <2>3, <2>4
  <1>6. ASSUME phase' = "done", phase # "done" PROVE Rank' < Rank
    <2>1. Rank' = 0 BY <1>6 DEF Rank
    <2>2. ProbesLeft \in Nat BY DEF ProbesLeft
    <2>3. StepsLeft \in Nat BY <1>3 DEF StepsLeft
    <2> HIDE DEF Base, Here
    <2>4. Rank = 1 + Base + 5 * RungsLeft + ProbesLeft \/ Rank = 1 + Here + StepsLeft
      BY <1>6 DEF Rank, Base, Here
    <2>5. QED BY <2>1, <2>2, <2>3, <2>4, <1>1, <1>4
  <1>7. ASSUME rung' = rung PROVE RungsLeft' = RungsLeft /\ There = Here
    BY <1>2, <1>7 DEF RungsLeft
  <1>8. ASSUME rung' = rung + 1, rung <= Len(rungs)
        PROVE  RungsLeft' = RungsLeft - 1 /\ There \in Nat /\ Here = There + Width
    BY <1>2, <1>8, NextRung DEF Inv
  <1> HIDE DEF Base, Here, There
  <1>9. phase \in {"admit", "probe_build", "probe"} =>
            Rank = 1 + Base + 5 * RungsLeft + ProbesLeft
    BY DEF Rank, Base
  <1>10. phase' \in {"admit", "probe_build", "probe"} =>
            Rank' = 1 + Base + 5 * RungsLeft' + ProbesLeft'
    BY <1>2 DEF Rank, Base
  <1>11. phase \in {"ladder", "measure_build", "measure", "build", "make", "train", "oom"} =>
            Rank = 1 + Here + StepsLeft
    BY DEF Rank, Here
  <1>12. phase' \in {"ladder", "measure_build", "measure", "build", "make", "train", "oom"} =>
            Rank' = 1 + There + StepsLeft'
    BY <1>2 DEF Rank, There
  <1>13. Width = MaxSteps + 7 /\ MaxSteps \in Nat BY DEF Width
  <1>AdmitWithoutCuda. CASE AdmitWithoutCuda
    BY <1>AdmitWithoutCuda, <1>5 DEF AdmitWithoutCuda
  <1>AdmitRung. CASE AdmitRung
    <2>1. phase = "admit" /\ rung <= Len(rungs) /\ batch' = 1
          /\ \/ phase' = "probe_build" /\ rung' = rung
             \/ phase' = "admit" /\ rung' = rung + 1
      BY <1>AdmitRung DEF AdmitRung
    <2>2. /\ phase' = "probe_build" => ProbesLeft = 5 /\ ProbesLeft' = 4
          /\ phase' = "admit" => ProbesLeft = 5 /\ ProbesLeft' = 5
      BY <2>1 DEF ProbesLeft
    <2>3. CASE phase' = "probe_build" BY <2>1, <2>2, <2>3, <1>1, <1>4, <1>7, <1>9, <1>10
    <2>4. CASE phase' = "admit" BY <2>1, <2>2, <2>4, <1>1, <1>4, <1>8, <1>9, <1>10
    <2>5. QED BY <2>1, <2>3, <2>4
  <1>ProbeBuild. CASE ProbeBuild
    <2>1. phase = "probe_build" /\ phase' = "probe" /\ rung' = rung /\ batch' = batch
          /\ batch \in {1, 2}
      BY <1>ProbeBuild DEF ProbeBuild, TypeOK
    <2>2. ProbesLeft' + 1 = ProbesLeft /\ ProbesLeft' \in Nat BY <2>1 DEF ProbesLeft
    <2>3. QED BY <2>1, <2>2, <1>1, <1>4, <1>7, <1>9, <1>10
  <1>Probe. CASE Probe
    <2>1. phase = "probe" /\ batch \in {1, 2}
          /\ \/ phase' = "probe_build" /\ batch' = 2 /\ rung' = rung /\ batch = 1
             \/ phase' = "ladder"
             \/ phase' = "admit" /\ rung' = rung + 1
      BY <1>Probe DEF Probe, TypeOK
    <2>2. rung <= Len(rungs) BY <2>1, <1>1, Places DEF Inv, Rows, AtRung, Fits
    <2>3. /\ phase' = "probe_build" => ProbesLeft = 3 /\ ProbesLeft' = 2
          /\ phase' = "admit" => ProbesLeft \in {1, 3} /\ ProbesLeft' = 5
      BY <2>1 DEF ProbesLeft
    <2>4. CASE phase' = "probe_build" BY <2>1, <2>3, <2>4, <1>1, <1>4, <1>7, <1>9, <1>10
    <2>5. CASE phase' = "admit" BY <2>1, <2>2, <2>3, <2>5, <1>1, <1>4, <1>8, <1>9, <1>10
    <2>6. CASE phase' = "ladder" BY <2>1, <2>6, <1>5
    <2>7. QED BY <2>1, <2>4, <2>5, <2>6
  <1>AdmitFallback. CASE AdmitFallback
    BY <1>AdmitFallback, <1>5 DEF AdmitFallback
  <1>TrainRung. CASE TrainRung
    <2>1. phase = "ladder" /\ rung <= Len(rungs)
          /\ \/ phase' = "measure_build" /\ rung' = rung
             \/ phase' = "ladder" /\ rung' = rung + 1
      BY <1>TrainRung DEF TrainRung
    <2>2. /\ StepsLeft = MaxSteps + 6
          /\ phase' = "measure_build" => StepsLeft' = MaxSteps + 5
          /\ phase' = "ladder" => StepsLeft' = MaxSteps + 6
      BY <2>1 DEF StepsLeft
    <2>3. CASE phase' = "measure_build" BY <2>1, <2>2, <2>3, <1>4, <1>7, <1>11, <1>12, <1>13
    <2>4. CASE phase' = "ladder" BY <2>1, <2>2, <2>4, <1>4, <1>8, <1>11, <1>12, <1>13
    <2>5. QED BY <2>1, <2>3, <2>4
  <1>Builds. CASE MeasureBuild \/ Measure \/ Build \/ Make
    <2>1. /\ rung' = rung /\ step' = step
          /\ \/ phase = "measure_build" /\ phase' = "measure"
             \/ phase = "measure" /\ phase' = "build"
             \/ phase = "build" /\ phase' = "make"
             \/ phase = "make" /\ phase' = "train"
      BY <1>Builds DEF MeasureBuild, Measure, Build, Make, Builds
    <2>2. QED BY <2>1, <1>3, <1>4, <1>7, <1>11, <1>12, <1>13 DEF StepsLeft
  <1>TrainStep. CASE TrainStep
    <2>1. rung' = rung /\ phase = "train" /\ phase' = "train" /\ step' = step + 1
          /\ step < MaxSteps
      BY <1>TrainStep DEF TrainStep
    <2>2. QED BY <2>1, <1>3, <1>4, <1>7, <1>11, <1>12, <1>13 DEF StepsLeft
  <1>OutOfMemory. CASE OutOfMemory
    <2>1. rung' = rung /\ phase' = "oom"
          /\ phase \in {"measure_build", "build", "make", "train"}
      BY <1>OutOfMemory DEF OutOfMemory
    <2>2. QED BY <2>1, <1>3, <1>4, <1>7, <1>11, <1>12, <1>13 DEF StepsLeft
  <1>ZeroProgressOom. CASE ZeroProgressOom
    <2>1. phase = "oom" /\ phase' = "ladder" /\ rung' = rung + 1
      BY <1>ZeroProgressOom DEF ZeroProgressOom
    <2>2. rung <= Len(rungs) BY <2>1, <1>1, Places DEF Inv, Rows, AtRung, Fits
    <2>3. QED BY <2>1, <2>2, <1>3, <1>4, <1>8, <1>11, <1>12, <1>13 DEF StepsLeft
  <1>Ends. CASE TrainReturns \/ Error \/ ProgressedOom \/ LadderExhausted
    <2>1. phase' = "done" /\ phase # "done"
      BY <1>Ends DEF TrainReturns, Error, Raises, ProgressedOom, LadderExhausted, Finish
    <2>2. QED BY <2>1, <1>6
  <1>Terminated. CASE Terminated BY <1>Terminated DEF Terminated
  <1>14. QED
    BY <1>AdmitWithoutCuda, <1>AdmitRung, <1>ProbeBuild, <1>Probe, <1>AdmitFallback,
       <1>TrainRung, <1>Builds, <1>TrainStep, <1>OutOfMemory, <1>ZeroProgressOom,
       <1>Ends, <1>Terminated
       DEF Next

\* However memory runs out, each step of _admit and _train_ladder brings the end
\* of the handler nearer: no more than Rank steps are left in any state.  With the
\* next theorem this is LadderTerminates but for the fairness.
THEOREM RankFalls == Spec => [][Rank' \in Nat /\ Rank \in Nat /\ Rank' < Rank]_vars
  <1>1. TypeOK /\ Inv /\ TypeOK' /\ Inv' /\ [Next]_vars =>
            [Rank' \in Nat /\ Rank \in Nat /\ Rank' < Rank]_vars
    <2>1. SUFFICES ASSUME TypeOK, Inv, TypeOK', Inv', Next, ~ UNCHANGED vars
                   PROVE  Rank' \in Nat /\ Rank \in Nat /\ Rank' < Rank
      OBVIOUS
    <2>2. Rank \in Nat BY <2>1, RankType DEF Inv
    <2>3. (TypeOK /\ LadderKept => Rank \in Nat)' BY RankType, PTL
    <2>4. QED BY <2>1, <2>2, <2>3, StepRank DEF Inv
  <1>2. QED BY <1>1, InvHolds, PTL DEF Spec

\* _admit always has a rung to return: "all distribution-authorized SFT geometries
\* were empty" is never raised, so admission cannot stop between two steps.
THEOREM FallbackExists ==
    Spec => [](phase = "admit" /\ rung > Len(rungs) => fallback \in 1 .. Len(rungs))
  <1>1. TypeOK /\ Inv =>
            (phase = "admit" /\ rung > Len(rungs) => fallback \in 1 .. Len(rungs))
    <2>1. SUFFICES ASSUME TypeOK, Inv, phase = "admit", rung > Len(rungs)
                   PROVE  fallback \in 1 .. Len(rungs)
      OBVIOUS
    <2>2. /\ Len(rungs) \in Nat /\ Len(rungs) > 0 /\ rung \in Nat
          /\ fallback \in 0 .. Len(rungs)
      BY <2>1, Places DEF Inv, LadderKept, TypeOK
    <2>3. 1 \in Fits BY <2>1, <2>2 DEF Inv, LadderKept, Fits, Authorized
    <2>4. \A j \in fallback + 1 .. rung - 1 : j \notin Fits
      BY <2>1 DEF Inv, Admission
    <2>5. fallback # 0 BY <2>2, <2>3, <2>4, <2>1
    <2>6. QED BY <2>2, <2>5
  <1>2. QED BY <1>1, InvHolds, PTL
=============================================================================
