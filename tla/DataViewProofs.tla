--------------------------- MODULE DataViewProofs ---------------------------
(***************************************************************************)
(* Theorems about DataView, for every task, template, text, merge table,   *)
(* limit, and cap the survival ladder may ask for.                         *)
(***************************************************************************)
EXTENDS DataView, FiniteSetTheorems, SequenceTheorems, WellFoundedInduction, TLAPS

-----------------------------------------------------------------------------
(* Induction and recursion over the numbers, stated without operator       *)
(* parameters: a property is the set of the numbers that have it, and a    *)
(* step is a function.                                                     *)

\* A nonempty set of natural numbers has a minimum, and Min is one.
LEMMA MinOfNaturals ==
    ASSUME NEW S, S \subseteq Nat, S # {}
    PROVE  Min(S) \in S /\ \A y \in S : Min(S) =< y
  <1> DEFINE Less == {ss \in Nat \X Nat : ss[1] < ss[2]}
  <1>1. IsWellFoundedOn(Less, Nat)
    BY NatLessThanWellFounded, Zenon DEF OpToRel
  <1>2. PICK x \in S : \A y \in S : ~ (<<y, x>> \in Less)
    <2> HIDE DEF Less
    <2> QED BY <1>1, WFMin
  <1>3. ASSUME NEW y \in S PROVE x =< y
    <2>1. <<y, x>> \in Nat \X Nat => ~ (y < x)
      BY <1>2
    <2> QED BY <2>1
  <1> QED BY <1>3 DEF Min

\* A nonempty set of numbers up to n has a maximum, and Max is one.
LEMMA MaxOfNumbers ==
    ASSUME NEW n \in Nat, NEW S, S \subseteq 1 .. n, S # {}
    PROVE  Max(S) \in S /\ \A y \in S : Max(S) >= y
  <1> DEFINE R == {n - s : s \in S}
  <1>1. R \subseteq Nat /\ R # {}
    <2>1. \A s \in S : n - s \in Nat
      OBVIOUS
    <2> QED BY <2>1
  <1>2. PICK r \in R : \A y \in R : r =< y
    <2> HIDE DEF R
    <2> QED BY <1>1, MinOfNaturals
  <1>3. PICK x \in S : r = n - x
    BY <1>2
  <1>4. \A y \in S : x >= y
    <2> TAKE y \in S
    <2>1. n - y \in R /\ y \in Nat /\ x \in Nat
      BY <1>3
    <2> HIDE DEF R
    <2>2. r =< n - y
      BY <2>1, <1>2
    <2> QED BY <2>1, <2>2, <1>3
  <1> QED BY <1>4 DEF Max

\* A set that has 0 and, with each number below n, the next one has them all.
LEMMA Induction ==
    ASSUME NEW n \in Nat, NEW P, 0 \in P,
           \A k \in 1 .. n : k - 1 \in P => k \in P
    PROVE  \A k \in 0 .. n : k \in P
  <1> DEFINE Out == {k \in 0 .. n : k \notin P}
  <1>1. SUFFICES ASSUME Out # {} PROVE FALSE
    BY <1>1
  <1>2. Out \subseteq Nat
    BY SMT
  <1>3. PICK x \in Out : \A y \in Out : x =< y
    <2> HIDE DEF Out
    <2> QED BY <1>1, <1>2, MinOfNaturals
  <1>4. x \in 1 .. n /\ x - 1 \in 0 .. n
    BY <1>3, SMT
  <1>5. x - 1 \notin Out
    <2> HIDE DEF Out
    <2> QED BY <1>3, <1>4
  <1> QED BY <1>3, <1>4, <1>5

\* A function of the numbers may be defined by its value at 0 and by how each
\* value follows from the one before.
Iterates(S, s, g, f) ==
    /\ f \in [Nat -> S] /\ f[0] = s
    /\ \A k \in Nat \ {0} : f[k] = g[k][f[k - 1]]

LEMMA Iteration ==
    ASSUME NEW S, NEW s \in S, NEW g \in [Nat -> [S -> S]]
    PROVE  \E f : Iterates(S, s, g, f)
  <1> DEFINE Starts(n, f) == /\ f \in [0 .. n -> S] /\ f[0] = s
                           /\ \A k \in 1 .. n : f[k] = g[k][f[k - 1]]
  <1>1. ASSUME NEW n \in Nat PROVE \E f : Starts(n, f)
    <2> DEFINE P == {k \in Nat : \E f : Starts(k, f)}
    <2>1. 0 \in P
      <3>1. Starts(0, [k \in 0 .. 0 |-> s])
        OBVIOUS
      <3> QED BY <3>1
    <2>2. ASSUME NEW k \in 1 .. n, k - 1 \in P PROVE k \in P
      <3>1. PICK f : Starts(k - 1, f)
        BY <2>2
      <3> DEFINE h == [i \in 0 .. k |-> IF i = k THEN g[k][f[k - 1]] ELSE f[i]]
      <3>2. h \in [0 .. k -> S] /\ h[0] = s
        BY <3>1
      <3>3. \A i \in 1 .. k : h[i] = g[i][h[i - 1]]
        BY <3>1
      <3>4. Starts(k, h)
        BY <3>2, <3>3
      <3> HIDE DEF h
      <3> QED BY <3>4
    <2> HIDE DEF P
    <2>3. \A k \in 1 .. n : k - 1 \in P => k \in P
      BY <2>2
    <2>4. \A k \in 0 .. n : k \in P
      BY <2>1, <2>3, Induction
    <2>5. n \in P
      BY <2>4
    <2> QED BY <2>5 DEF P
  <1>2. ASSUME NEW n \in Nat, NEW m \in 0 .. n, NEW e, NEW f, Starts(n, e), Starts(m, f)
        PROVE  \A k \in 0 .. m : e[k] = f[k]
    <2> DEFINE P == {k \in 0 .. m : e[k] = f[k]}
    <2>1. 0 \in P
      BY <1>2
    <2>2. ASSUME NEW k \in 1 .. m, k - 1 \in P PROVE k \in P
      BY <1>2, <2>2
    <2> HIDE DEF P
    <2>3. \A k \in 1 .. m : k - 1 \in P => k \in P
      BY <2>2
    <2>4. m \in Nat
      BY <1>2
    <2>5. \A k \in 0 .. m : k \in P
      BY <2>1, <2>3, <2>4, Induction
    <2> QED BY <2>5 DEF P
  <1> DEFINE F == [n \in Nat |-> (CHOOSE f : Starts(n, f))]
             r == [n \in Nat |-> F[n][n]]
  <1>3. \A n \in Nat : Starts(n, F[n])
    <2> HIDE DEF Starts
    <2> QED BY <1>1
  <1> HIDE DEF F
  <1>4. r \in [Nat -> S] /\ r[0] = s
    BY <1>3
  <1>5. ASSUME NEW k \in Nat \ {0} PROVE r[k] = g[k][r[k - 1]]
    <2>1. k - 1 \in Nat /\ k - 1 \in 0 .. k /\ k - 1 \in 0 .. k - 1
      OBVIOUS
    <2>2. F[k][k - 1] = F[k - 1][k - 1]
      <3>1. Starts(k, F[k]) /\ Starts(k - 1, F[k - 1])
        BY <2>1, <1>3
      <3> HIDE DEF Starts
      <3>2. \A i \in 0 .. k - 1 : F[k][i] = F[k - 1][i]
        BY <2>1, <3>1, <1>2
      <3> QED BY <3>2, <2>1
    <2>3. F[k][k] = g[k][F[k][k - 1]]
      BY <2>1, <1>3
    <2> QED BY <2>1, <2>2, <2>3
  <1> HIDE DEF r
  <1>6. Iterates(S, s, g, r)
    BY <1>4, <1>5 DEF Iterates
  <1> QED BY <1>6
-----------------------------------------------------------------------------
(* Tokens and renderings.                                                  *)

LEMMA Singleton ==
    ASSUME NEW C, NEW c \in C
    PROVE  <<c>> \in Seq(C)
  OBVIOUS

\* Tokens reads a text from left to right.
Trace(C, text, f) ==
    /\ f \in [0 .. Len(text) -> Seq(Seq(C))] /\ f[0] = <<>>
    /\ \A k \in 1 .. Len(text) : f[k] = Reading(f[k - 1], text[k])
    /\ Tokens(text) = f[Len(text)]

\* Reading a character gives tokens again.
LEMMA ReadingType ==
    ASSUME NEW C, NEW tokens \in Seq(Seq(C)), NEW c \in C
    PROVE  Reading(tokens, c) \in Seq(Seq(C))
  <1> DEFINE T == Seq(Seq(C))
  <1>1. <<c>> \in Seq(C)
    OBVIOUS
  <1>2. Append(tokens, <<c>>) \in T
    BY <1>1
  <1>3. ASSUME tokens # <<>>
        PROVE  Append(Front(tokens), Append(Last(tokens), c)) \in T
    <2>1. Len(tokens) \in Nat /\ Len(tokens) > 0
      BY <1>3
    <2>2. Last(tokens) \in Seq(C)
      BY <2>1 DEF Last
    <2>3. Append(Last(tokens), c) \in Seq(C)
      BY <2>2
    <2>4. Front(tokens) \in Seq(Seq(C))
      BY <2>1 DEF Front
    <2> QED BY <2>3, <2>4
  <1> HIDE DEF T
  <1> QED BY <1>2, <1>3 DEF Reading, T

\* The tokens of a text are what reading it one character at a time comes to.
LEMMA TokensTrace ==
    ASSUME NEW C, NEW text \in Seq(C)
    PROVE  \E f : Trace(C, text, f)
  <1> DEFINE n == Len(text)
             T == Seq(Seq(C))
             Read(k, tokens) == IF k \in 1 .. n THEN Reading(tokens, text[k]) ELSE <<>>
             g == [k \in Nat |-> [tokens \in T |-> Read(k, tokens)]]
             read[k \in 0 .. n] ==
                 IF k = 0 THEN <<>> ELSE Reading(read[k - 1], text[k])
  <1>0. n \in Nat /\ <<>> \in T /\ \A k \in 1 .. n : text[k] \in C
    OBVIOUS
  <1>1. ASSUME NEW tokens \in T, NEW c \in C
        PROVE  Reading(tokens, c) \in T
    BY ReadingType
  <1> HIDE DEF T, n
  <1>2. \A k \in Nat, tokens \in T : Read(k, tokens) \in T
    BY <1>0, <1>1
  <1> HIDE DEF Read
  <1>3. /\ g \in [Nat -> [T -> T]]
        /\ \A k \in Nat, tokens \in T : g[k][tokens] = Read(k, tokens)
    BY <1>2
  <1> HIDE DEF g
  <1>4. PICK f : Iterates(T, <<>>, g, f)
    <2> DEFINE none == <<>>
    <2>1. none \in T /\ g \in [Nat -> [T -> T]]
      BY <1>0, <1>3
    <2> HIDE DEF none
    <2>2. \E f : Iterates(T, none, g, f)
      BY <2>1, Iteration
    <2> QED BY <2>2 DEF none
  <1> DEFINE h == [k \in 0 .. n |-> f[k]]
  <1>5. ASSUME NEW k \in 1 .. n PROVE f[k] = Reading(f[k - 1], text[k])
    <2>1. k \in Nat \ {0} /\ k - 1 \in Nat
      BY <1>0
    <2>2. f[k] = Read(k, f[k - 1])
      BY <2>1, <1>3, <1>4 DEF Iterates
    <2> QED BY <2>2 DEF Read
  <1>6. h = [k \in 0 .. n |-> IF k = 0 THEN <<>> ELSE Reading(h[k - 1], text[k])]
    BY <1>0, <1>4, <1>5 DEF Iterates
  <1>7. read = [k \in 0 .. n |-> IF k = 0 THEN <<>> ELSE Reading(read[k - 1], text[k])]
    <2> HIDE DEF h
    <2> QED BY <1>6 DEF read
  <1> HIDE DEF read
  <1> DEFINE P == {k \in 0 .. n : read[k] = f[k]}
  <1>8. 0 \in P
    BY <1>0, <1>4, <1>7 DEF Iterates
  <1>9. ASSUME NEW k \in 1 .. n, k - 1 \in P PROVE k \in P
    <2>1. read[k] = Reading(read[k - 1], text[k])
      BY <1>0, <1>7
    <2> QED BY <2>1, <1>0, <1>5, <1>9
  <1>10. \A k \in 1 .. n : k - 1 \in P => k \in P
    BY <1>9
  <1>11. \A k \in 0 .. n : k \in P
    <2> HIDE DEF P
    <2> QED BY <1>0, <1>8, <1>10, Induction
  <1>12. read[n] = f[n]
    BY <1>0, <1>11
  <1>13. Tokens(text) = read[n]
    BY Zenon DEF Tokens, read, n
  <1>14. /\ h \in [0 .. n -> T] /\ h[0] = <<>> /\ h[n] = Tokens(text)
         /\ \A k \in 1 .. n : h[k] = Reading(h[k - 1], text[k])
    BY <1>0, <1>4, <1>5, <1>12, <1>13 DEF Iterates
  <1> HIDE DEF h
  <1>15. Trace(C, text, h)
    BY <1>14 DEF Trace, n, T
  <1> QED BY <1>15

\* The tokens of a text are texts; none come from an empty one, and each further
\* character is read in turn.
LEMMA TokensType ==
    ASSUME NEW C, NEW text \in Seq(C)
    PROVE  Tokens(text) \in Seq(Seq(C))
  <1>1. PICK f : Trace(C, text, f)
    BY TokensTrace
  <1>2. Len(text) \in 0 .. Len(text)
    OBVIOUS
  <1> QED BY <1>1, <1>2 DEF Trace

\* A text without characters has no tokens.
LEMMA TokensOfNone == Tokens(<<>>) = <<>>
  <1>1. <<>> \in Seq(Characters) /\ Len(<<>>) = 0
    OBVIOUS
  <1>2. PICK f : Trace(Characters, <<>>, f)
    <2> DEFINE none == <<>>
    <2>1. none \in Seq(Characters)
      BY <1>1
    <2> HIDE DEF none
    <2>2. \E f : Trace(Characters, none, f)
      BY <2>1, TokensTrace
    <2> QED BY <2>2 DEF none
  <1> QED BY <1>1, <1>2 DEF Trace

\* The tokens of a text that goes on are those of the text, read on.
LEMMA TokensAppend ==
    ASSUME NEW C, NEW text \in Seq(C), NEW c \in C
    PROVE  Tokens(Append(text, c)) = Reading(Tokens(text), c)
  <1> DEFINE longer == Append(text, c)
             n == Len(text)
  <1>1. /\ longer \in Seq(C) /\ Len(longer) = n + 1 /\ n \in Nat
        /\ longer[n + 1] = c /\ \A k \in 1 .. n : longer[k] = text[k]
    OBVIOUS
  <1> HIDE DEF longer
  <1>2. PICK f : Trace(C, text, f)
    BY TokensTrace
  <1>3. PICK g : Trace(C, longer, g)
    BY <1>1, TokensTrace
  <1>4. /\ f[0] = <<>> /\ \A k \in 1 .. n : f[k] = Reading(f[k - 1], text[k])
        /\ Tokens(text) = f[n]
    BY <1>2 DEF Trace
  <1>5. /\ g[0] = <<>> /\ \A k \in 1 .. n + 1 : g[k] = Reading(g[k - 1], longer[k])
        /\ Tokens(longer) = g[n + 1]
    BY <1>1, <1>3 DEF Trace
  <1> HIDE DEF n
  <1> DEFINE P == {k \in 0 .. n : f[k] = g[k]}
  <1>6. 0 \in P
    BY <1>1, <1>4, <1>5
  <1>7. ASSUME NEW k \in 1 .. n, k - 1 \in P PROVE k \in P
    <2>1. k \in 1 .. n + 1 /\ k \in 0 .. n
      BY <1>1
    <2>2. f[k] = Reading(f[k - 1], text[k]) /\ g[k] = Reading(g[k - 1], text[k])
      BY <2>1, <1>1, <1>4, <1>5
    <2> QED BY <2>1, <2>2, <1>7
  <1>8. \A k \in 1 .. n : k - 1 \in P => k \in P
    BY <1>7
  <1>9. \A k \in 0 .. n : k \in P
    <2> HIDE DEF P
    <2> QED BY <1>1, <1>6, <1>8, Induction
  <1>10. f[n] = g[n] /\ g[n + 1] = Reading(g[n], longer[n + 1])
    BY <1>1, <1>5, <1>9
  <1> QED BY <1>1, <1>4, <1>5, <1>10 DEF longer

\* The concatenation is the value that grows by each sequence in turn.
LEMMA FlattenValue ==
    ASSUME NEW S, NEW ss \in Seq(Seq(S)), Len(ss) > 0,
           NEW f \in [1 .. Len(ss) -> Seq(S)], f[1] = ss[1],
           \A i \in 2 .. Len(ss) : f[i] = f[i - 1] \o ss[i]
    PROVE  FlattenSeq(ss) = f[Len(ss)]
  <1> DEFINE n == Len(ss)
             flatten[i \in 1 .. Len(ss)] ==
                 IF i = 1 THEN ss[i] ELSE flatten[i - 1] \o ss[i]
  <1>0. n \in Nat /\ n > 0
    OBVIOUS
  <1>1. f = [i \in 1 .. n |-> IF i = 1 THEN ss[i] ELSE f[i - 1] \o ss[i]]
    <2>1. ASSUME NEW i \in 1 .. n
          PROVE  f[i] = IF i = 1 THEN ss[i] ELSE f[i - 1] \o ss[i]
      <3>1. CASE i = 1
        BY <3>1, Zenon
      <3>2. CASE i # 1
        <4>1. i \in 2 .. Len(ss)
          BY <1>0, <3>2
        <4> QED BY <4>1, <3>2, Zenon
      <3> QED BY <3>1, <3>2, Zenon
    <2> HIDE DEF n
    <2>2. f \in [1 .. n -> Seq(S)]
      BY Zenon DEF n
    <2> QED BY <2>1, <2>2, Zenon
  <1>2. flatten = [i \in 1 .. n |-> IF i = 1 THEN ss[i] ELSE flatten[i - 1] \o ss[i]]
    BY <1>1, Zenon DEF flatten
  <1>3. \A i \in 2 .. n : f[i] = f[i - 1] \o ss[i]
    OBVIOUS
  <1> HIDE DEF flatten, n
  <1> DEFINE P == {k \in 0 .. n - 1 : flatten[k + 1] = f[k + 1]}
  <1>4. 0 \in P
    BY <1>0, <1>2
  <1>5. ASSUME NEW k \in 1 .. n - 1, k - 1 \in P PROVE k \in P
    <2>1. k + 1 \in 2 .. n /\ k + 1 \in 1 .. n /\ k + 1 # 1
          /\ (k + 1) - 1 = k /\ (k - 1) + 1 = k
      BY <1>0
    <2>2. flatten[k] = f[k]
      BY <1>5, <2>1
    <2>3. flatten[k + 1] = flatten[k] \o ss[k + 1]
      BY <1>2, <2>1
    <2>4. f[k + 1] = f[k] \o ss[k + 1]
      BY <1>3, <2>1
    <2>5. k \in 0 .. n - 1
      BY <1>0
    <2>6. flatten[k + 1] = f[k + 1]
      BY <2>2, <2>3, <2>4, Zenon
    <2> QED BY <2>5, <2>6
  <1>6. \A k \in 1 .. n - 1 : k - 1 \in P => k \in P
    BY <1>5
  <1>7. n - 1 \in Nat
    BY <1>0
  <1>8. \A k \in 0 .. n - 1 : k \in P
    <2> HIDE DEF P
    <2> QED BY <1>4, <1>6, <1>7, Induction
  <1>9. flatten[n] = f[n]
    <2>1. n - 1 \in 0 .. n - 1 /\ (n - 1) + 1 = n
      BY <1>0
    <2>2. flatten[(n - 1) + 1] = f[(n - 1) + 1]
      BY <2>1, <1>8
    <2> QED BY <2>1, <2>2
  <1> QED BY <1>9, <1>0 DEF FlattenSeq, flatten, n

\* The concatenation grows by each sequence in turn.
Growth(S, ss, f) ==
    /\ f \in [0 .. Len(ss) -> Seq(S)] /\ f[0] = <<>>
    /\ \A k \in 1 .. Len(ss) : f[k] = f[k - 1] \o ss[k]
    /\ FlattenSeq(ss) = f[Len(ss)]

\* A concatenation is what adding the sequences in turn comes to.
LEMMA FlattenGrowth ==
    ASSUME NEW S, NEW ss \in Seq(Seq(S))
    PROVE  \E f : Growth(S, ss, f)
  <1> DEFINE n == Len(ss)
             T == Seq(S)
             Grown(k, x) == IF k \in 1 .. n THEN x \o ss[k] ELSE x
             g == [k \in Nat |-> [x \in T |-> Grown(k, x)]]
  <1>0. n \in Nat /\ <<>> \in T /\ (\A k \in 1 .. n : ss[k] \in T)
    OBVIOUS
  <1>1. \A x, y \in T : x \o y \in T
    OBVIOUS
  <1>2. \A x \in T : <<>> \o x = x
    OBVIOUS
  <1> HIDE DEF T, n
  <1>3. \A k \in Nat, x \in T : Grown(k, x) \in T
    BY <1>0, <1>1
  <1> HIDE DEF Grown
  <1>4. /\ g \in [Nat -> [T -> T]]
        /\ \A k \in Nat, x \in T : g[k][x] = Grown(k, x)
    BY <1>3
  <1> HIDE DEF g
  <1>5. PICK f : Iterates(T, <<>>, g, f)
    <2> DEFINE none == <<>>
    <2>1. none \in T /\ g \in [Nat -> [T -> T]]
      BY <1>0, <1>4
    <2> HIDE DEF none
    <2>2. \E f : Iterates(T, none, g, f)
      BY <2>1, Iteration
    <2> QED BY <2>2 DEF none
  <1>6. ASSUME NEW k \in 1 .. n PROVE f[k] = f[k - 1] \o ss[k]
    <2>1. k \in Nat \ {0} /\ k - 1 \in Nat
      BY <1>0
    <2>2. f[k] = Grown(k, f[k - 1])
      BY <2>1, <1>4, <1>5 DEF Iterates
    <2> QED BY <2>2 DEF Grown
  <1> DEFINE e == [k \in 0 .. n |-> f[k]]
             h == [k \in 1 .. n |-> f[k]]
  <1>7. /\ e \in [0 .. n -> T] /\ e[0] = <<>>
        /\ \A k \in 1 .. n : e[k] = e[k - 1] \o ss[k]
    <2>1. f \in [Nat -> T] /\ f[0] = <<>>
      BY <1>4, <1>5 DEF Iterates
    <2>2. e \in [0 .. n -> T] /\ e[0] = <<>>
      BY <2>1, <1>0
    <2>3. ASSUME NEW k \in 1 .. n PROVE e[k] = e[k - 1] \o ss[k]
      <3>1. k \in 0 .. n /\ k - 1 \in 0 .. n
        BY <1>0
      <3>2. e[k] = f[k] /\ e[k - 1] = f[k - 1]
        BY <3>1
      <3> QED BY <3>2, <1>6, Zenon
    <2> QED BY <2>2, <2>3
  <1>8. h \in [1 .. n -> T]
    BY <1>0, <1>5 DEF Iterates
  <1>9. FlattenSeq(ss) = f[n]
    <2>1. CASE n = 0
      <3>1. ss = <<>>
        BY <2>1 DEF n
      <3>2. f[0] = <<>>
        BY <1>5 DEF Iterates
      <3> QED BY <2>1, <3>1, <3>2 DEF FlattenSeq
    <2>2. CASE n # 0
      <3>1. h[1] = ss[1]
        <4>1. 1 \in 1 .. n /\ 1 - 1 = 0
          BY <1>0, <2>2
        <4>2. f[1] = <<>> \o ss[1]
          BY <4>1, <1>5, <1>6 DEF Iterates
        <4> QED BY <4>1, <4>2, <1>2, <1>0
      <3>2. ASSUME NEW i \in 2 .. n PROVE h[i] = h[i - 1] \o ss[i]
        <4>1. i \in 1 .. n /\ i - 1 \in 1 .. n
          BY <1>0
        <4> QED BY <4>1, <1>6
      <3>3. n > 0 /\ h[n] = f[n]
        BY <1>0, <2>2
      <3>4. FlattenSeq(ss) = h[n]
        <4> HIDE DEF h
        <4> QED BY <1>8, <3>1, <3>2, <3>3, FlattenValue DEF n, T
      <3> QED BY <3>3, <3>4
    <2> QED BY <2>1, <2>2
  <1>10. e[n] = f[n]
    BY <1>0
  <1> HIDE DEF e
  <1>11. Growth(S, ss, e)
    BY <1>7, <1>9, <1>10 DEF Growth, n, T
  <1> QED BY <1>11

\* Sequences over S concatenate to a sequence over S.
LEMMA FlattenType ==
    ASSUME NEW S, NEW ss \in Seq(Seq(S))
    PROVE  FlattenSeq(ss) \in Seq(S)
  <1>1. PICK f : Growth(S, ss, f)
    BY FlattenGrowth
  <1>2. Len(ss) \in 0 .. Len(ss)
    OBVIOUS
  <1> QED BY <1>1, <1>2 DEF Growth

\* One sequence more is added at the end of the concatenation.
LEMMA FlattenAppend ==
    ASSUME NEW S, NEW ss \in Seq(Seq(S)), NEW s \in Seq(S)
    PROVE  FlattenSeq(Append(ss, s)) = FlattenSeq(ss) \o s
  <1> DEFINE longer == Append(ss, s)
             n == Len(ss)
             T == Seq(S)
  <1>1. /\ longer \in Seq(T) /\ Len(longer) = n + 1 /\ n \in Nat
        /\ longer[n + 1] = s /\ \A k \in 1 .. n : longer[k] = ss[k]
    <2> HIDE DEF T
    <2> QED BY DEF T
  <1> HIDE DEF longer
  <1>2. PICK f : Growth(S, ss, f)
    BY FlattenGrowth
  <1>3. PICK g : Growth(S, longer, g)
    BY <1>1, FlattenGrowth
  <1>4. /\ f[0] = <<>> /\ \A k \in 1 .. n : f[k] = f[k - 1] \o ss[k]
        /\ FlattenSeq(ss) = f[n]
    BY <1>2 DEF Growth
  <1>5. /\ g[0] = <<>> /\ \A k \in 1 .. n + 1 : g[k] = g[k - 1] \o longer[k]
        /\ FlattenSeq(longer) = g[n + 1]
    BY <1>1, <1>3 DEF Growth
  <1> HIDE DEF n
  <1> DEFINE P == {k \in 0 .. n : f[k] = g[k]}
  <1>6. 0 \in P
    BY <1>1, <1>4, <1>5
  <1>7. ASSUME NEW k \in 1 .. n, k - 1 \in P PROVE k \in P
    <2>1. k \in 1 .. n + 1 /\ k \in 0 .. n
      BY <1>1
    <2>2. f[k] = f[k - 1] \o ss[k] /\ g[k] = g[k - 1] \o ss[k]
      BY <2>1, <1>1, <1>4, <1>5
    <2>3. f[k] = g[k]
      BY <2>2, <1>7, Zenon
    <2> QED BY <2>1, <2>3
  <1>8. \A k \in 1 .. n : k - 1 \in P => k \in P
    BY <1>7
  <1>9. \A k \in 0 .. n : k \in P
    <2> HIDE DEF P
    <2> QED BY <1>1, <1>6, <1>8, Induction
  <1>10. n + 1 \in 1 .. n + 1 /\ (n + 1) - 1 = n
    BY <1>1
  <1>11. f[n] = g[n] /\ g[n + 1] = g[n] \o longer[n + 1]
    <2>1. n \in P
      <3> HIDE DEF P
      <3> QED BY <1>1, <1>9
    <2>2. g[n + 1] = g[(n + 1) - 1] \o longer[n + 1]
      BY <1>5, <1>10, Zenon
    <2> QED BY <2>1, <2>2, <1>10, Zenon
  <1> QED BY <1>1, <1>4, <1>5, <1>11, Zenon DEF longer

\* No sequences have the empty concatenation.
LEMMA FlattenNone == FlattenSeq(<<>>) = <<>>
  BY DEF FlattenSeq

-----------------------------------------------------------------------------
(* The rows of a document.                                                 *)

LEMMA LesserType ==
    ASSUME NEW a \in Nat, NEW b \in Nat
    PROVE  /\ LesserOf(a, b) \in Nat /\ LesserOf(a, b) <= a /\ LesserOf(a, b) <= b
           /\ LesserOf(a, b) \in {a, b}
           /\ a > 0 /\ b > 0 => LesserOf(a, b) > 0
           /\ a <= b => LesserOf(a, b) = a
  BY DEF LesserOf

LEMMA TimesMonotone ==
    ASSUME NEW i \in Nat, NEW n \in Nat, i <= n, NEW c \in Nat
    PROVE  i * c \in Nat /\ n * c \in Nat /\ i * c <= n * c
  <1>1. n - i \in Nat
    OBVIOUS
  <1>2. (n - i) * c \in Nat /\ i * c \in Nat
    BY <1>1
  <1>3. n * c = i * c + (n - i) * c
    OBVIOUS
  <1> QED BY <1>2, <1>3

\* Two neighbouring parts of a sequence make one.
LEMMA SubSeqJoin ==
    ASSUME NEW S, NEW s \in Seq(S), NEW a \in Nat, NEW b \in Nat,
           a <= b, b <= Len(s)
    PROVE  SubSeq(s, 1, a) \o SubSeq(s, a + 1, b) = SubSeq(s, 1, b)
  OBVIOUS

\* Cutting a sequence into pieces of one length loses nothing of it.
LEMMA PiecesJoin ==
    ASSUME NEW S, NEW s \in Seq(S), NEW c \in Nat \ {0}, NEW n \in Nat \ {0},
           (n - 1) * c < Len(s), Len(s) <= n * c
    PROVE  FlattenSeq([i \in 1 .. n |->
                SubSeq(s, (i - 1) * c + 1, LesserOf(i * c, Len(s)))]) = s
  <1> DEFINE N == Len(s)
             Cut(i) == LesserOf(i * c, N)
             ss == [i \in 1 .. n |-> SubSeq(s, (i - 1) * c + 1, Cut(i))]
             f == [i \in 1 .. n |-> SubSeq(s, 1, Cut(i))]
  <1>0. N \in Nat
    OBVIOUS
  <1>1. ASSUME NEW i \in 1 .. n
        PROVE  /\ i \in Nat /\ i - 1 \in Nat /\ i * c \in Nat /\ (i - 1) * c \in Nat
               /\ (i - 1) * c < i * c /\ (i - 1) * c < N
    <2>1. i \in Nat /\ i - 1 \in Nat /\ n - 1 \in Nat /\ i - 1 <= n - 1
      OBVIOUS
    <2>2. i * c \in Nat /\ (i - 1) * c \in Nat /\ (i - 1) * c <= (n - 1) * c
      BY <2>1, TimesMonotone
    <2>3. i * c = (i - 1) * c + c
      BY <2>1
    <2> QED BY <2>1, <2>2, <2>3, <1>0
  <1>2. ASSUME NEW i \in 1 .. n
        PROVE  Cut(i) \in Nat /\ Cut(i) <= N /\ (i - 1) * c < Cut(i)
    BY <1>0, <1>1 DEF LesserOf
  <1>3. ASSUME NEW i \in 1 .. n, i < n
        PROVE  Cut(i) = i * c
    <2>1. i + 1 \in 1 .. n /\ (i + 1) - 1 = i
      BY <1>3
    <2>2. i * c < N /\ i * c \in Nat
      BY <2>1, <1>1
    <2> QED BY <2>2, <1>0 DEF LesserOf
  <1>4. Cut(n) = N
    <2>1. n * c \in Nat
      OBVIOUS
    <2> QED BY <2>1, <1>0 DEF LesserOf
  <1> HIDE DEF Cut, N
  <1>5. \A i \in 1 .. n : ss[i] \in Seq(S) /\ f[i] \in Seq(S)
    BY <1>0, <1>1, <1>2 DEF N
  <1>6. ss \in Seq(Seq(S)) /\ Len(ss) = n /\ f \in [1 .. n -> Seq(S)]
    BY <1>5
  <1>7. f[1] = ss[1]
    <2>1. (1 - 1) * c + 1 = 1
      OBVIOUS
    <2> QED BY <2>1
  <1>8. ASSUME NEW i \in 2 .. n
        PROVE  f[i] = f[i - 1] \o ss[i]
    <2>1. i \in 1 .. n /\ i - 1 \in 1 .. n /\ i - 1 < n
      OBVIOUS
    <2> DEFINE a == (i - 1) * c
               b == Cut(i)
    <2>2. Cut(i - 1) = a
      BY <2>1, <1>3
    <2>3. a \in Nat /\ b \in Nat /\ a <= b /\ b <= Len(s)
      BY <2>1, <1>1, <1>2 DEF N
    <2>4. f[i] = SubSeq(s, 1, b) /\ f[i - 1] = SubSeq(s, 1, a) /\ ss[i] = SubSeq(s, a + 1, b)
      BY <2>1, <2>2
    <2> HIDE DEF a, b
    <2>5. SubSeq(s, 1, a) \o SubSeq(s, a + 1, b) = SubSeq(s, 1, b)
      BY <2>3, SubSeqJoin
    <2> QED BY <2>4, <2>5, Zenon
  <1>9. f[n] = s
    BY <1>4 DEF N
  <1>10. FlattenSeq(ss) = f[n]
    <2>1. \A i \in 2 .. n : f[i] = f[i - 1] \o ss[i]
      BY <1>8
    <2> HIDE DEF f, ss
    <2>2. Len(ss) > 0
      BY <1>6
    <2> QED BY <1>6, <1>7, <2>1, <2>2, FlattenValue
  <1> QED BY <1>9, <1>10 DEF ss, Cut, N

LEMMA SpecialTokens == Bos \in Text /\ Eos \in Text
  <1>1. "bos" \in Characters /\ "eos" \in Characters
    BY TokenizeAssumption
  <1>2. <<"bos">> \in Seq(Characters) /\ <<"eos">> \in Seq(Characters)
    BY <1>1, Singleton, Zenon
  <1> QED BY <1>2, Zenon DEF Bos, Eos, Text

\* A document's tokens, closed by an EOS unless they end with one.
Document(text) ==
    LET all == <<Bos>> \o Tokens(text)
    IN  IF Last(all) = Eos THEN all ELSE Append(all, Eos)

LEMMA EncodedIsPrefix ==
    ASSUME NEW text \in Text, NEW cap \in Nat \ {0}
    PROVE  /\ Document(text) \in Seq(Text) /\ Encoded(text, cap) \in Seq(Text)
           /\ Encoded(text, cap) = SubSeq(Document(text), 1,
                                         LesserOf(cap * DocFactor, Len(Document(text))))
           /\ Len(Encoded(text, cap)) \in 1 .. cap * DocFactor
  <1> DEFINE all == <<Bos>> \o Tokens(text)
             N == Len(all)
             M == cap * DocFactor
             ids == SubSeq(all, 1, LesserOf(N, M))
  <1>1. Bos \in Text /\ Eos \in Text
    BY SpecialTokens
  <1>2. all \in Seq(Text) /\ N \in Nat /\ N > 0
    <2>1. Tokens(text) \in Seq(Text)
      BY TokensType DEF Text
    <2> HIDE DEF Text
    <2> QED BY <1>1, <2>1
  <1>3. M \in Nat /\ M > 0
    BY TokenizeAssumption
  <1> DEFINE e == Eos
  <1> HIDE DEF all, M, e
  <1>4. e \in Text /\ Append(all, e) \in Seq(Text) /\ Len(Append(all, e)) = N + 1
    BY <1>1, <1>2 DEF e
  <1>5. Document(text) = (IF Last(all) = e THEN all ELSE Append(all, e))
    BY DEF Document, all, e
  <1>6. Encoded(text, cap) =
            (IF Last(ids) # e /\ Len(ids) < M THEN Append(ids, e) ELSE ids)
    BY DEF Encoded, all, e, M
  <1>7. CASE N >= M
    <2>1. LesserOf(N, M) = M
      BY <1>2, <1>3, <1>7 DEF LesserOf
    <2>2. ids \in Seq(Text) /\ Len(ids) = M
      BY <1>2, <1>3, <1>7, <2>1
    <2>3. Encoded(text, cap) = SubSeq(all, 1, M)
      BY <1>3, <1>6, <2>1, <2>2
    <2>4. SubSeq(Append(all, e), 1, M) = SubSeq(all, 1, M)
      BY <1>2, <1>3, <1>4, <1>7
    <2>5. LesserOf(M, N) = M /\ LesserOf(M, N + 1) = M
      BY <1>2, <1>3, <1>7 DEF LesserOf
    <2>6. SubSeq(Document(text), 1, LesserOf(M, Len(Document(text)))) = SubSeq(all, 1, M)
      BY <1>4, <1>5, <2>4, <2>5
    <2>7. Document(text) \in Seq(Text)
      BY <1>2, <1>4, <1>5
    <2>8. Encoded(text, cap) = ids
      BY <2>1, <2>3
    <2> HIDE DEF ids, N
    <2>9. Len(Encoded(text, cap)) \in 1 .. M
      BY <1>3, <2>2, <2>8
    <2> QED BY <2>2, <2>3, <2>6, <2>7, <2>8, <2>9 DEF M
  <1>8. CASE N < M
    <2>1. LesserOf(N, M) = N
      BY <1>2, <1>3, <1>8 DEF LesserOf
    <2>2. ids = all
      BY <1>2, <2>1
    <2>3. Encoded(text, cap) = Document(text)
      <3>1. Last(ids) = Last(all) /\ Len(ids) < M
        BY <1>8, <2>2
      <3> HIDE DEF ids
      <3>2. CASE Last(all) = e
        BY <3>1, <3>2, <1>5, <1>6, <2>2, Zenon
      <3>3. CASE Last(all) # e
        BY <3>1, <3>3, <1>5, <1>6, <2>2, Zenon
      <3> QED BY <3>2, <3>3
    <2>4. Document(text) \in Seq(Text) /\ Len(Document(text)) \in {N, N + 1}
      BY <1>2, <1>4, <1>5
    <2> DEFINE d == Document(text)
    <2> HIDE DEF d, N
    <2>5. d \in Seq(Text) /\ Len(d) \in 1 .. M
      BY <1>2, <1>3, <1>8, <2>4 DEF d
    <2>6. LesserOf(M, Len(d)) = Len(d)
      BY <1>3, <2>5 DEF LesserOf
    <2>7. SubSeq(d, 1, Len(d)) = d
      BY <2>5
    <2> QED BY <2>3, <2>5, <2>6, <2>7 DEF M, d
  <1> QED BY <1>2, <1>3, <1>7, <1>8

\* What the rows of a document are, for every text and cap.
DocumentRows(text, cap, rows) ==
    LET closed == IF text = <<>> THEN <<>> ELSE Document(text)
    IN  /\ FlattenSeq([r \in DOMAIN rows |-> rows[r].ids]) =
                SubSeq(closed, 1, LesserOf(cap * DocFactor, Len(closed)))
        /\ Len(rows) <= DocFactor
        /\ \A r \in DOMAIN rows :
               /\ Len(rows[r].ids) <= cap
               /\ rows[r].labels = DOMAIN rows[r].ids
               /\ r < Len(rows) => Len(rows[r].ids) = cap

LEMMA CompletionWhole ==
    ASSUME NEW text \in Text, NEW cap \in Nat \ {0}
    PROVE  DocumentRows(text, cap, CompletionRows(text, cap))
  <1> DEFINE ids == Encoded(text, cap)
             N == Len(ids)
             chunks == IF text = <<>> THEN 0 ELSE (N + cap - 1) \div cap
             Chunk(i) == SubSeq(ids, (i - 1) * cap + 1, LesserOf(i * cap, N))
             rows == CompletionRows(text, cap)
             closed == IF text = <<>> THEN <<>> ELSE Document(text)
             parts == [r \in DOMAIN rows |-> rows[r].ids]
  <1>0. DocFactor \in Nat \ {0}
    BY TokenizeAssumption
  <1>1. rows = [i \in 1 .. chunks |-> [ids |-> Chunk(i), labels |-> DOMAIN Chunk(i)]]
    BY DEF CompletionRows
  <1>2. /\ ids \in Seq(Text) /\ N \in 1 .. cap * DocFactor
        /\ ids = SubSeq(Document(text), 1, LesserOf(cap * DocFactor, Len(Document(text))))
    BY EncodedIsPrefix
  <1> HIDE DEF ids, rows
  <1>3. CASE text = <<>>
    <2>1. chunks = 0 /\ closed = <<>>
      BY <1>3
    <2>2. rows = <<>>
      BY <1>1, <2>1
    <2>3. parts = <<>>
      BY <2>2
    <2>4. FlattenSeq(parts) = <<>>
      BY <2>3 DEF FlattenSeq
    <2>5. SubSeq(closed, 1, LesserOf(cap * DocFactor, Len(closed))) = <<>>
      <3>1. Len(closed) = 0 /\ cap * DocFactor \in Nat
        BY <2>1, <1>0
      <3>2. LesserOf(cap * DocFactor, Len(closed)) = 0
        BY <3>1 DEF LesserOf
      <3> QED BY <3>2, <2>1
    <2>6. Len(rows) = 0 /\ DOMAIN rows = {}
      BY <2>2
    <2> HIDE DEF closed, parts
    <2>7. FlattenSeq(parts) = SubSeq(closed, 1, LesserOf(cap * DocFactor, Len(closed)))
      BY <2>4, <2>5, Zenon
    <2>8. Len(rows) <= DocFactor
      BY <1>0, <2>6
    <2>9. \A r \in DOMAIN rows :
             /\ Len(rows[r].ids) <= cap
             /\ rows[r].labels = DOMAIN rows[r].ids
             /\ r < Len(rows) => Len(rows[r].ids) = cap
      BY <2>6
    <2> QED BY <2>7, <2>8, <2>9, Zenon DEF DocumentRows, rows, parts, closed
  <1>4. CASE text # <<>>
    <2> DEFINE n == (N + cap - 1) \div cap
    <2>1. chunks = n /\ closed = Document(text)
      BY <1>4
    <2> HIDE DEF N
    <2>2. N \in Nat \ {0} /\ N <= cap * DocFactor /\ cap * DocFactor \in Nat
      BY <1>0, <1>2
    <2>3. n \in Nat \ {0} /\ (n - 1) * cap < N /\ N <= n * cap
      BY <2>2
    <2> HIDE DEF n
    <2>4. n <= DocFactor
      <3>1. SUFFICES ASSUME n > DocFactor PROVE FALSE
        BY <1>0, <2>3
      <3>2. n - 1 \in Nat /\ DocFactor <= n - 1
        BY <1>0, <2>3, <3>1
      <3>3. DocFactor * cap <= (n - 1) * cap /\ DocFactor * cap \in Nat
            /\ (n - 1) * cap \in Nat
        BY <1>0, <3>2, TimesMonotone
      <3>4. DocFactor * cap = cap * DocFactor
        BY <1>0
      <3> QED BY <2>2, <2>3, <3>3, <3>4
    <2>5. /\ Len(rows) = n /\ DOMAIN rows = 1 .. n
          /\ \A r \in 1 .. n : /\ rows[r].ids = Chunk(r)
                               /\ rows[r].labels = DOMAIN Chunk(r)
      <3> HIDE DEF Chunk, chunks
      <3> QED BY <1>1, <2>1, <2>3
    <2>6. FlattenSeq(parts) = ids
      <3>1. parts = [i \in 1 .. n |-> Chunk(i)]
        <4> HIDE DEF Chunk
        <4> QED BY <2>5
      <3>2. FlattenSeq([i \in 1 .. n |-> Chunk(i)]) = ids
        <4>1. /\ ids \in Seq(Text) /\ cap \in Nat \ {0} /\ n \in Nat \ {0}
              /\ (n - 1) * cap < Len(ids) /\ Len(ids) <= n * cap
          BY <1>2, <2>3 DEF N
        <4> QED BY <4>1, PiecesJoin, Zenon DEF N
      <3> QED BY <3>1, <3>2
    <2>7. ASSUME NEW r \in 1 .. n
          PROVE  Len(Chunk(r)) <= cap /\ (r < n => Len(Chunk(r)) = cap)
      <3>1. r \in Nat /\ r - 1 \in Nat /\ n - 1 \in Nat /\ r - 1 <= n - 1 /\ r <= n
        BY <2>3
      <3>2. /\ r * cap \in Nat /\ (r - 1) * cap \in Nat
            /\ (n - 1) * cap \in Nat /\ (r - 1) * cap <= (n - 1) * cap
            /\ r < n => r * cap <= (n - 1) * cap
        <4>1. r < n => r <= n - 1
          BY <2>3, <3>1
        <4>2. cap \in Nat
          OBVIOUS
        <4> QED BY <3>1, <4>1, <4>2, TimesMonotone
      <3>3. r * cap = (r - 1) * cap + cap
        BY <3>1
      <3> DEFINE a == (r - 1) * cap
                 b == LesserOf(r * cap, N)
      <3>4. a \in Nat /\ b \in Nat /\ b <= N /\ a < b /\ b - a <= cap
            /\ (r < n => b - a = cap)
        BY <2>2, <2>3, <3>2, <3>3 DEF LesserOf
      <3>5. Chunk(r) = SubSeq(ids, a + 1, b)
        OBVIOUS
      <3> HIDE DEF a, b, Chunk
      <3>6. Len(SubSeq(ids, a + 1, b)) = b - a
        BY <1>2, <3>4 DEF N
      <3> QED BY <3>4, <3>5, <3>6
    <2> HIDE DEF Chunk, parts
    <2>8. FlattenSeq(parts) = SubSeq(closed, 1, LesserOf(cap * DocFactor, Len(closed)))
      BY <1>2, <2>1, <2>6
    <2>9. \A r \in DOMAIN rows :
             /\ Len(rows[r].ids) <= cap
             /\ rows[r].labels = DOMAIN rows[r].ids
             /\ r < Len(rows) => Len(rows[r].ids) = cap
      BY <2>5, <2>7
    <2> HIDE DEF closed
    <2>10. Len(rows) <= DocFactor
      BY <2>4, <2>5
    <2> QED BY <2>8, <2>9, <2>10, Zenon DEF DocumentRows, rows, parts, closed
  <1> QED BY <1>3, <1>4

-----------------------------------------------------------------------------
(* The rows of a conversation and of an example.                           *)

\* The content of a message is a text.
LEMMA ContentType ==
    ASSUME NEW messages \in Seq(Message), NEW i \in 1 .. Len(messages)
    PROVE  messages[i].content \in Text
  <1>1. messages[i] \in Message
    OBVIOUS
  <1> QED BY <1>1 DEF Message

\* A message is rendered as a part of its content, the last one as all of it.
LEMMA BodyType ==
    ASSUME NEW t \in Template, NEW messages \in Seq(Message),
           NEW i \in 1 .. Len(messages)
    PROVE  /\ Body(t, messages, i) \in Text
           /\ Len(Body(t, messages, i)) <= Len(messages[i].content)
           /\ i = Len(messages) => Body(t, messages, i) = messages[i].content
  <1> DEFINE content == messages[i].content
             from == Len(Thought) + 1
  <1>1. content \in Seq(Characters) /\ from \in Nat /\ from > 0
    BY ContentType DEF Text, Thought
  <1> HIDE DEF content, from
  <1>2. SubSeq(content, from, Len(content)) \in Seq(Characters)
        /\ Len(SubSeq(content, from, Len(content))) <= Len(content)
    BY <1>1
  <1>3. Len(content) <= Len(content)
    BY <1>1
  <1>4. i = Len(messages) => ~ \E j \in i + 1 .. Len(messages) : messages[j].role = "user"
    OBVIOUS
  <1> QED BY <1>1, <1>2, <1>3, <1>4 DEF Body, content, from, Text

LEMMA OpeningType ==
    ASSUME NEW t \in Template, NEW messages \in Seq(Message),
           NEW k \in 0 .. Len(messages)
    PROVE  Opening(t, messages, k) \in Text
  <1> DEFINE ss == [i \in 1 .. k |-> t.head \o Body(t, messages, i) \o t.foot]
  <1>1. ASSUME NEW i \in 1 .. k PROVE Body(t, messages, i) \in Text
    <2>1. i \in 1 .. Len(messages)
      OBVIOUS
    <2> QED BY <2>1, BodyType
  <1>2. t.head \in Seq(Characters) /\ t.foot \in Seq(Characters)
    BY DEF Template, Text
  <1>3. \A i \in 1 .. k : ss[i] \in Seq(Characters)
    BY <1>1, <1>2 DEF Text
  <1>4. ss \in Seq(Seq(Characters))
    <2>1. k \in Nat
      OBVIOUS
    <2>2. DOMAIN ss = 1 .. k /\ ss = [i \in 1 .. k |-> ss[i]]
      BY Zenon
    <2> HIDE DEF ss
    <2> QED BY <1>3, <2>1, <2>2
  <1> HIDE DEF ss
  <1>5. FlattenSeq(ss) \in Seq(Characters)
    BY <1>4, FlattenType
  <1> QED BY <1>5 DEF Opening, ss, Text

LEMMA RenderType ==
    ASSUME NEW t \in Template, NEW messages \in Seq(Message)
    PROVE  Render(t, messages) \in Text
  <1>1. Len(messages) \in 0 .. Len(messages)
    OBVIOUS
  <1>2. Opening(t, messages, Len(messages)) \in Seq(Characters)
    BY <1>1, OpeningType DEF Text
  <1>3. t.tail \in Seq(Characters)
    BY DEF Template, Text
  <1> QED BY <1>2, <1>3 DEF Render, Text

LEMMA ChatWhole ==
    ASSUME NEW t \in Template, NEW messages \in Seq(Message), NEW cap \in Nat
    PROVE  \A row \in Range(ChatRows(t, messages, cap)) :
              /\ row.ids = Tokens(Render(t, messages))
              /\ Len(row.ids) <= cap
  <1> DEFINE ids == Tokens(Render(t, messages))
             labels == UNION {TurnLabels(t, messages, k, ids) : k \in AnswerTurns(messages)}
             rows == IF Len(ids) > cap \/ labels = {} THEN <<>>
                     ELSE <<[ids |-> ids, labels |-> labels]>>
  <1>1. ids \in Seq(Seq(Characters))
    BY RenderType, TokensType DEF Text
  <1>2. Len(ids) \in Nat
    BY <1>1
  <1>3. ChatRows(t, messages, cap) = rows
    BY DEF ChatRows
  <1> HIDE DEF ids, labels
  <1>4. \A row \in Range(rows) : row.ids = ids /\ Len(row.ids) <= cap
    <2>1. CASE Len(ids) > cap \/ labels = {}
      BY <2>1 DEF Range
    <2>2. CASE ~ (Len(ids) > cap \/ labels = {})
      <3>1. rows = <<[ids |-> ids, labels |-> labels]>> /\ Len(ids) <= cap
        BY <2>2, <1>2
      <3> QED BY <3>1 DEF Range
    <2> QED BY <2>1, <2>2
  <1> QED BY <1>3, <1>4 DEF ids

LEMMA InstructWhole ==
    ASSUME NEW example \in [prompt : Text, completion : Text], NEW cap \in Nat
    PROVE  LET prompt == Tokens(example.prompt)
               completion == Tokens(example.completion)
               rows == InstructRows(example, cap)
           IN  /\ \A row \in Range(rows) :
                     /\ row.ids = <<Bos>> \o prompt \o completion \o <<Eos>>
                     /\ Len(row.ids) <= cap
                     /\ row.labels = Len(prompt) + 2 .. Len(row.ids)
               /\ Len(prompt \o completion) + 2 <= cap => rows # <<>>
  <1> DEFINE a == Tokens(example.prompt)
             b == Tokens(example.completion)
             bos == Bos
             eos == Eos
             prompt == <<bos>> \o a
             ids == <<bos>> \o a \o b \o <<eos>>
             rows == IF Len(ids) > cap THEN <<>>
                     ELSE <<[ids |-> ids, labels |-> Len(prompt) + 1 .. Len(ids)]>>
  <1>1. a \in Seq(Text) /\ b \in Seq(Text) /\ bos \in Text /\ eos \in Text
    <2>1. a \in Seq(Text) /\ b \in Seq(Text)
      BY TokensType DEF Text
    <2> QED BY <2>1, SpecialTokens
  <1>2. InstructRows(example, cap) = rows
    BY DEF InstructRows
  <1> HIDE DEF a, b, bos, eos
  <1>3. /\ ids \in Seq(Text) /\ Len(ids) = Len(a) + Len(b) + 2
        /\ Len(a) \in Nat /\ Len(b) \in Nat /\ Len(a \o b) = Len(a) + Len(b)
        /\ Len(prompt) = Len(a) + 1
    BY <1>1
  <1> HIDE DEF ids, prompt
  <1>4. CASE Len(ids) > cap
    <2>1. rows = <<>> /\ ~ (Len(a \o b) + 2 <= cap)
      BY <1>3, <1>4
    <2>2. Range(rows) = {}
      BY <2>1 DEF Range
    <2> HIDE DEF rows
    <2> QED BY <1>2, <2>1, <2>2 DEF a, b
  <1>5. CASE ~ (Len(ids) > cap)
    <2> DEFINE row == [ids |-> ids, labels |-> Len(prompt) + 1 .. Len(ids)]
    <2>1. rows = <<row>>
      BY <1>5
    <2>2. /\ row.ids = <<bos>> \o a \o b \o <<eos>>
          /\ Len(row.ids) <= cap
          /\ row.labels = Len(a) + 2 .. Len(row.ids)
      <3>1. row.ids = ids /\ row.labels = Len(prompt) + 1 .. Len(ids)
        OBVIOUS
      <3>2. Len(prompt) + 1 = Len(a) + 2 /\ Len(ids) <= cap
        BY <1>3, <1>5
      <3> HIDE DEF row
      <3> QED BY <3>1, <3>2 DEF ids
    <2> HIDE DEF row, rows
    <2>3. Range(rows) = {row} /\ rows # <<>>
      BY <2>1 DEF Range
    <2> QED BY <1>2, <2>2, <2>3, Zenon DEF a, b, bos, eos
  <1> QED BY <1>4, <1>5

-----------------------------------------------------------------------------
(* How far a sequence of tokens reaches.                                   *)

\* The characters in the first p sequences.
Upto(ss, p) == Len(FlattenSeq(SubSeq(ss, 1, p)))

\* Each sequence adds its length.
LEMMA UptoStep ==
    ASSUME NEW S, NEW ss \in Seq(Seq(S))
    PROVE  /\ Upto(ss, 0) = 0 /\ Upto(ss, Len(ss)) = Len(FlattenSeq(ss))
           /\ \A p \in 0 .. Len(ss) : Upto(ss, p) \in Nat
           /\ \A p \in 1 .. Len(ss) :
                 /\ Upto(ss, p) = Upto(ss, p - 1) + Len(ss[p])
                 /\ FlattenSeq(SubSeq(ss, 1, p)) =
                        FlattenSeq(SubSeq(ss, 1, p - 1)) \o ss[p]
  <1> DEFINE T == Seq(S)
  <1>1. SubSeq(ss, 1, 0) = <<>> /\ SubSeq(ss, 1, Len(ss)) = ss
    <2> HIDE DEF T
    <2> QED BY DEF T
  <1>2. Upto(ss, 0) = 0
    <2>1. Len(<<>>) = 0
      OBVIOUS
    <2> QED BY <1>1, <2>1, FlattenNone, Zenon DEF Upto
  <1>3. ASSUME NEW p \in 0 .. Len(ss)
        PROVE  SubSeq(ss, 1, p) \in Seq(T)
    <2> HIDE DEF T
    <2> QED BY DEF T
  <1>4. ASSUME NEW p \in 0 .. Len(ss)
        PROVE  Upto(ss, p) \in Nat
    <2>1. FlattenSeq(SubSeq(ss, 1, p)) \in Seq(S)
      BY <1>3, FlattenType
    <2> QED BY <2>1 DEF Upto
  <1>5. ASSUME NEW p \in 1 .. Len(ss)
        PROVE  /\ Upto(ss, p) = Upto(ss, p - 1) + Len(ss[p])
               /\ FlattenSeq(SubSeq(ss, 1, p)) =
                        FlattenSeq(SubSeq(ss, 1, p - 1)) \o ss[p]
    <2> DEFINE some == SubSeq(ss, 1, p - 1)
    <2>1. p - 1 \in 0 .. Len(ss) /\ Len(ss) \in Nat
      OBVIOUS
    <2>2. some \in Seq(T)
      BY <2>1, <1>3
    <2>3. SubSeq(ss, 1, p) = Append(some, ss[p]) /\ ss[p] \in T
      <3> HIDE DEF T
      <3> QED BY DEF T
    <2> HIDE DEF some
    <2>4. FlattenSeq(SubSeq(ss, 1, p)) = FlattenSeq(some) \o ss[p]
      BY <2>2, <2>3, FlattenAppend
    <2>5. FlattenSeq(some) \in Seq(S) /\ ss[p] \in Seq(S)
      BY <2>2, <2>3, FlattenType
    <2>6. Len(FlattenSeq(some) \o ss[p]) = Len(FlattenSeq(some)) + Len(ss[p])
      BY <2>5
    <2> QED BY <2>4, <2>6 DEF Upto, some
  <1> QED BY <1>1, <1>2, <1>4, <1>5 DEF Upto

\* More sequences have no fewer characters.
LEMMA UptoMonotone ==
    ASSUME NEW S, NEW ss \in Seq(Seq(S)), NEW q \in 0 .. Len(ss), NEW p \in 0 .. q
    PROVE  Upto(ss, p) <= Upto(ss, q)
  <1> DEFINE d == q - p
             P == {k \in 0 .. d : Upto(ss, p) <= Upto(ss, p + k)}
  <1>0. Len(ss) \in Nat /\ d \in Nat /\ p \in Nat /\ q \in Nat /\ p <= q
    OBVIOUS
  <1>1. /\ \A i \in 0 .. Len(ss) : Upto(ss, i) \in Nat
        /\ \A i \in 1 .. Len(ss) : Upto(ss, i) = Upto(ss, i - 1) + Len(ss[i])
        /\ \A i \in 1 .. Len(ss) : Len(ss[i]) \in Nat
    <2>1. \A i \in 1 .. Len(ss) : ss[i] \in Seq(S)
      OBVIOUS
    <2>2. \A s \in Seq(S) : Len(s) \in Nat
      OBVIOUS
    <2> QED BY <2>1, <2>2, UptoStep
  <1>2. 0 \in P
    <2>1. p + 0 = p /\ 0 \in 0 .. d
      BY <1>0
    <2>2. Upto(ss, p) <= Upto(ss, p)
      <3>1. p \in 0 .. Len(ss)
        BY <1>0
      <3>2. Upto(ss, p) \in Nat
        BY <3>1, <1>1
      <3> QED BY <3>2
    <2> QED BY <2>1, <2>2
  <1>3. ASSUME NEW k \in 1 .. d, k - 1 \in P PROVE k \in P
    <2>1. p + k \in 1 .. Len(ss) /\ (p + k) - 1 = p + (k - 1) /\ k \in 0 .. d
          /\ p + k \in 0 .. Len(ss) /\ p + (k - 1) \in 0 .. Len(ss) /\ p \in 0 .. Len(ss)
      BY <1>0
    <2>2. Upto(ss, p + k) = Upto(ss, p + (k - 1)) + Len(ss[p + k])
      BY <2>1, <1>1
    <2>3. /\ Upto(ss, p + k) \in Nat /\ Upto(ss, p + (k - 1)) \in Nat
          /\ Upto(ss, p) \in Nat /\ Len(ss[p + k]) \in Nat
      BY <2>1, <1>1
    <2>4. Upto(ss, p) <= Upto(ss, p + (k - 1))
      BY <1>3
    <2>5. Upto(ss, p) <= Upto(ss, p + k)
      BY <2>2, <2>3, <2>4
    <2> QED BY <2>1, <2>5
  <1>4. \A k \in 1 .. d : k - 1 \in P => k \in P
    BY <1>3
  <1>5. \A k \in 0 .. d : k \in P
    <2> HIDE DEF P
    <2> QED BY <1>0, <1>2, <1>4, Induction
  <1>6. d \in P /\ p + d = q
    <2> HIDE DEF P
    <2> QED BY <1>0, <1>5
  <1> QED BY <1>6

-----------------------------------------------------------------------------
(* What reading adds.                                                      *)

\* Reading a character extends the last token by it or adds a token of its own;
\* nothing else changes.
LEMMA ReadingShape ==
    ASSUME NEW C, NEW ts \in Seq(Seq(C)), NEW c \in C
    PROVE  LET r == Reading(ts, c)
               n == Len(ts)
           IN  /\ Len(FlattenSeq(r)) = Len(FlattenSeq(ts)) + 1
               /\ \/ /\ n > 0 /\ Append(ts[n], c) \in Merges /\ Len(r) = n
                     /\ \A i \in 1 .. n - 1 : r[i] = ts[i]
                     /\ r[n] = Append(ts[n], c)
                  \/ /\ n = 0 \/ Append(ts[n], c) \notin Merges
                     /\ Len(r) = n + 1 /\ r = Append(ts, <<c>>)
                     /\ \A i \in 1 .. n : r[i] = ts[i]
                     /\ r[n + 1] = <<c>>
  <1> DEFINE r == Reading(ts, c)
             n == Len(ts)
             T == Seq(C)
  <1>1. n \in Nat /\ ts \in Seq(T) /\ <<c>> \in T /\ FlattenSeq(ts) \in T
    BY FlattenType
  <1>2. ts # <<>> <=> n > 0
    OBVIOUS
  <1>3. CASE n > 0 /\ Append(ts[n], c) \in Merges
    <2> DEFINE front == SubSeq(ts, 1, n - 1)
               grown == Append(ts[n], c)
    <2>1. r = Append(front, grown)
      BY <1>2, <1>3 DEF Reading, Last, Front
    <2>2. ts[n] \in T /\ grown \in T
      BY <1>1, <1>3
    <2>3. front \in Seq(T) /\ Len(front) = n - 1 /\ \A i \in 1 .. n - 1 : front[i] = ts[i]
      <3> HIDE DEF T
      <3> QED BY <1>1, <1>3
    <2>4. FlattenSeq(ts) = FlattenSeq(front) \o ts[n]
      <3>1. n \in 1 .. Len(ts) /\ SubSeq(ts, 1, n) = ts
        <4> HIDE DEF T
        <4> QED BY <1>1, <1>3
      <3> QED BY <3>1, UptoStep
    <2> HIDE DEF front, grown
    <2>5. FlattenSeq(r) = FlattenSeq(front) \o grown
      BY <2>1, <2>2, <2>3, FlattenAppend
    <2>6. FlattenSeq(front) \in T
      BY <2>3, FlattenType
    <2>7. Len(grown) = Len(ts[n]) + 1
      BY <2>2 DEF grown
    <2>8. Len(FlattenSeq(r)) = Len(FlattenSeq(ts)) + 1
      <3>1. Len(FlattenSeq(front) \o grown) = Len(FlattenSeq(front)) + Len(grown)
        BY <2>2, <2>6
      <3>2. Len(FlattenSeq(front) \o ts[n]) = Len(FlattenSeq(front)) + Len(ts[n])
        BY <2>2, <2>6
      <3>3. Len(FlattenSeq(front)) \in Nat /\ Len(ts[n]) \in Nat
        BY <2>2, <2>6
      <3> QED BY <3>1, <3>2, <3>3, <2>4, <2>5, <2>7
    <2>9. /\ Len(r) = n /\ r[n] = grown
          /\ \A i \in 1 .. n - 1 : r[i] = ts[i]
      <3> HIDE DEF T, r
      <3> QED BY <1>1, <1>3, <2>1, <2>2, <2>3
    <2> QED BY <1>3, <2>8, <2>9 DEF grown
  <1>4. CASE ~ (n > 0 /\ Append(ts[n], c) \in Merges)
    <2>1. r = Append(ts, <<c>>)
      BY <1>2, <1>4 DEF Reading, Last
    <2>2. FlattenSeq(r) = FlattenSeq(ts) \o <<c>>
      BY <2>1, <1>1, FlattenAppend
    <2>3. Len(FlattenSeq(r)) = Len(FlattenSeq(ts)) + 1
      BY <2>2, <1>1
    <2>4. /\ Len(r) = n + 1 /\ r[n + 1] = <<c>>
          /\ \A i \in 1 .. n : r[i] = ts[i]
      <3> DEFINE one == <<c>>
      <3> HIDE DEF T, r, one
      <3>1. one \in T /\ r = Append(ts, one)
        BY <1>1, <2>1 DEF one
      <3>2. /\ Len(r) = n + 1 /\ r[n + 1] = one
            /\ \A i \in 1 .. n : r[i] = ts[i]
        BY <1>1, <3>1
      <3> QED BY <3>2 DEF one
    <2>5. n = 0 \/ Append(ts[n], c) \notin Merges
      BY <1>1, <1>4
    <2> QED BY <2>1, <2>3, <2>4, <2>5
  <1> QED BY <1>3, <1>4

\* Tokens that spell a text: none is empty, together they have its length, and
\* the last one ends with its last character.
Spells(C, s, ts) ==
    /\ ts \in Seq(Seq(C)) /\ \A i \in 1 .. Len(ts) : Len(ts[i]) > 0
    /\ Len(FlattenSeq(ts)) = Len(s)
    /\ Len(s) > 0 => Len(ts) > 0 /\ Last(ts[Len(ts)]) = s[Len(s)]

\* Reading a character keeps the tokens spelling the text.
LEMMA ReadingSpells ==
    ASSUME NEW C, NEW s \in Seq(C), NEW ts, Spells(C, s, ts), NEW c \in C
    PROVE  Spells(C, Append(s, c), Reading(ts, c))
  <1> DEFINE r == Reading(ts, c)
             n == Len(ts)
             T == Seq(C)
  <1>1. ts \in Seq(T) /\ n \in Nat /\ \A i \in 1 .. n : ts[i] \in T
    BY DEF Spells
  <1>2. r \in Seq(T)
    BY <1>1, ReadingType
  <1>3. /\ Len(FlattenSeq(r)) = Len(FlattenSeq(ts)) + 1
        /\ \/ /\ n > 0 /\ Len(r) = n
              /\ \A i \in 1 .. n - 1 : r[i] = ts[i]
              /\ r[n] = Append(ts[n], c)
           \/ /\ Len(r) = n + 1
              /\ \A i \in 1 .. n : r[i] = ts[i]
              /\ r[n + 1] = <<c>>
    BY <1>1, ReadingShape
  <1>4. Len(Append(s, c)) = Len(s) + 1 /\ Append(s, c)[Len(s) + 1] = c /\ Len(s) \in Nat
    OBVIOUS
  <1>5. \A t \in T : Len(Append(t, c)) = Len(t) + 1 /\ Len(t) \in Nat
                     /\ Append(t, c)[Len(t) + 1] = c
    OBVIOUS
  <1>6. \A t \in T : Len(Append(t, c)) > 0 /\ Last(Append(t, c)) = c
    BY <1>5 DEF Last
  <1>7. Len(<<c>>) > 0 /\ Last(<<c>>) = c
    BY DEF Last
  <1>8. \A i \in 1 .. n : Len(ts[i]) > 0
    BY DEF Spells
  <1> HIDE DEF r, T
  <1>9. /\ \A i \in 1 .. Len(r) : Len(r[i]) > 0
        /\ Len(r) > 0 /\ Last(r[Len(r)]) = c
    <2>1. CASE /\ n > 0 /\ Len(r) = n
               /\ \A i \in 1 .. n - 1 : r[i] = ts[i]
               /\ r[n] = Append(ts[n], c)
      <3>1. ts[n] \in T
        BY <1>1, <2>1
      <3>2. Len(r[n]) > 0 /\ Last(r[n]) = c
        <4>1. Len(Append(ts[n], c)) > 0 /\ Last(Append(ts[n], c)) = c
          BY <3>1, <1>6, Zenon
        <4> QED BY <4>1, <2>1, Zenon
      <3> QED BY <3>2, <2>1, <1>1, <1>8
    <2>2. CASE /\ Len(r) = n + 1
               /\ \A i \in 1 .. n : r[i] = ts[i]
               /\ r[n + 1] = <<c>>
      <3>1. Len(r[n + 1]) > 0 /\ Last(r[n + 1]) = c
        BY <2>2, <1>7, Zenon
      <3>2. ASSUME NEW i \in 1 .. Len(r) PROVE Len(r[i]) > 0
        <4>1. i \in 1 .. n \/ i = n + 1
          BY <2>2, <1>1
        <4>2. CASE i \in 1 .. n
          BY <4>2, <2>2, <1>8, Zenon
        <4>3. CASE i = n + 1
          BY <4>3, <3>1
        <4> QED BY <4>1, <4>2, <4>3
      <3>3. Len(r) > 0 /\ Len(r) = n + 1
        BY <2>2, <1>1
      <3> QED BY <3>1, <3>2, <3>3, Zenon
    <2> QED BY <2>1, <2>2, <1>3
  <1>10. Len(FlattenSeq(r)) = Len(Append(s, c))
    BY <1>3, <1>4 DEF Spells
  <1> QED BY <1>2, <1>4, <1>9, <1>10 DEF Spells, r, T

\* The tokens of a text spell it.
LEMMA TokensSpell ==
    ASSUME NEW C, NEW s \in Seq(C)
    PROVE  Spells(C, s, Tokens(s))
  <1> DEFINE n == Len(s)
             P == {k \in 0 .. n : Spells(C, SubSeq(s, 1, k), Tokens(SubSeq(s, 1, k)))}
  <1>0. n \in Nat
    OBVIOUS
  <1>1. 0 \in P
    <2>1. SubSeq(s, 1, 0) = <<>> /\ Len(<<>>) = 0 /\ <<>> \in Seq(Seq(C))
      OBVIOUS
    <2>2. 1 .. 0 = {} /\ ~ (0 > 0)
      OBVIOUS
    <2>3. Spells(C, <<>>, <<>>)
      BY <2>1, <2>2, FlattenNone, Zenon DEF Spells
    <2>4. 0 \in 0 .. n
      BY <1>0
    <2> QED BY <2>1, <2>3, <2>4, TokensOfNone
  <1>2. ASSUME NEW k \in 1 .. n, k - 1 \in P PROVE k \in P
    <2> DEFINE read == SubSeq(s, 1, k - 1)
    <2>1. read \in Seq(C) /\ s[k] \in C /\ SubSeq(s, 1, k) = Append(read, s[k])
      OBVIOUS
    <2>2. Spells(C, read, Tokens(read))
      BY <1>2
    <2> HIDE DEF read
    <2>3. Tokens(SubSeq(s, 1, k)) = Reading(Tokens(read), s[k])
      BY <2>1, TokensAppend
    <2>4. Spells(C, Append(read, s[k]), Reading(Tokens(read), s[k]))
      BY <2>1, <2>2, ReadingSpells
    <2>5. k \in 0 .. n
      BY <1>0
    <2> QED BY <2>1, <2>3, <2>4, <2>5
  <1>3. \A k \in 1 .. n : k - 1 \in P => k \in P
    BY <1>2
  <1>4. n \in P
    <2> HIDE DEF P
    <2>1. \A k \in 0 .. n : k \in P
      BY <1>0, <1>1, <1>3, Induction
    <2> QED BY <2>1, <1>0
  <1>5. SubSeq(s, 1, n) = s
    OBVIOUS
  <1> QED BY <1>4, <1>5

-----------------------------------------------------------------------------
(* Where two texts meet.                                                   *)

\* Some token of its own joins the characters c and d.
Joined(c, d) ==
    \E m \in Merges : Len(m) > 1 /\ m[Len(m) - 1] = c /\ m[Len(m)] = d

\* No token reaches across the border of two texts.
Seam(u, v) == u = <<>> \/ v = <<>> \/ ~ Joined(u[Len(u)], v[1])

\* The first n elements of a sequence.
LEMMA FrontOf ==
    ASSUME NEW S, NEW s \in Seq(S), NEW n \in Nat, n <= Len(s)
    PROVE  /\ SubSeq(s, 1, n) \in Seq(S) /\ Len(SubSeq(s, 1, n)) = n
           /\ \A i \in 1 .. n : SubSeq(s, 1, n)[i] = s[i]
  OBVIOUS

\* The front of a concatenation is the front of its second part.
LEMMA FrontConcat ==
    ASSUME NEW S, NEW s \in Seq(S), NEW u \in Seq(S), Len(u) > 0
    PROVE  SubSeq(s \o u, 1, Len(s) + Len(u) - 1) = s \o SubSeq(u, 1, Len(u) - 1)
  <1> DEFINE w == s \o u
             n == Len(s)
             m == Len(u)
             a == SubSeq(w, 1, n + m - 1)
             f == SubSeq(u, 1, Len(u) - 1)
             b == s \o f
  <1>0. /\ n \in Nat /\ m \in Nat /\ w \in Seq(S) /\ Len(w) = n + m
        /\ \A i \in 1 .. n + m : w[i] = IF i <= n THEN s[i] ELSE u[i - n]
    BY ConcatProperties
  <1>1. /\ f \in Seq(S) /\ Len(f) = Len(u) - 1
        /\ \A i \in 1 .. Len(u) - 1 : f[i] = u[i]
    <2>1. m - 1 \in Nat /\ m - 1 <= m
      BY <1>0
    <2> QED BY <2>1, FrontOf
  <1> HIDE DEF w
  <1>2. /\ a \in Seq(S) /\ Len(a) = n + m - 1
        /\ \A i \in 1 .. n + m - 1 : a[i] = w[i]
    <2>1. n + m - 1 \in Nat /\ n + m - 1 <= Len(w)
      BY <1>0
    <2> QED BY <2>1, <1>0, FrontOf
  <1>3. /\ b \in Seq(S) /\ Len(b) = n + Len(f)
        /\ \A i \in 1 .. n + Len(f) : b[i] = IF i <= n THEN s[i] ELSE f[i - n]
    <2> HIDE DEF f
    <2> QED BY <1>1, ConcatProperties
  <1> HIDE DEF f, a, b, n
  <1>4. ASSUME NEW i \in 1 .. Len(a) PROVE a[i] = b[i]
    <2>1. i \in 1 .. n + m - 1 /\ i \in 1 .. n + m /\ i \in 1 .. n + Len(f)
      BY <1>0, <1>1, <1>2
    <2>2. a[i] = IF i <= n THEN s[i] ELSE u[i - n]
      BY <2>1, <1>0, <1>2
    <2>3. b[i] = IF i <= n THEN s[i] ELSE f[i - n]
      BY <2>1, <1>3
    <2>4. i > n => i - n \in 1 .. m - 1
      BY <2>1, <1>0
    <2>5. i > n => f[i - n] = u[i - n]
      BY <2>4, <1>1
    <2>6. i <= n \/ i > n
      BY <2>1, <1>0
    <2> QED BY <2>2, <2>3, <2>5, <2>6
  <1>5. Len(a) = Len(b)
    BY <1>0, <1>1, <1>2, <1>3
  <1> QED BY <1>2, <1>3, <1>4, <1>5, SeqEqual DEF a, b, f, w, n

\* Tokens before the last one do not change what reading does.
LEMMA ReadingAfter ==
    ASSUME NEW C, NEW ts \in Seq(Seq(C)), NEW us \in Seq(Seq(C)), NEW c \in C,
           Len(us) > 0 \/ Len(ts) = 0 \/ Append(ts[Len(ts)], c) \notin Merges
    PROVE  Reading(ts \o us, c) = ts \o Reading(us, c)
  <1> DEFINE T == Seq(C)
             n == Len(ts)
             m == Len(us)
             both == ts \o us
  <1>1. /\ ts \in Seq(T) /\ us \in Seq(T) /\ n \in Nat /\ m \in Nat /\ <<c>> \in T
        /\ both \in Seq(T) /\ Len(both) = n + m
    <2>1. <<c>> \in T
      OBVIOUS
    <2> HIDE DEF T
    <2> QED BY <2>1 DEF T
  <1>2. ASSUME NEW vs \in Seq(T), NEW t \in T
        PROVE  Append(ts \o vs, t) = ts \o Append(vs, t)
    <2> DEFINE one == <<t>>
               longer == ts \o vs
    <2>1. longer \in Seq(T) /\ one \in Seq(T)
      BY ConcatProperties
    <2>2. Append(vs, t) = vs \o one /\ Append(longer, t) = longer \o one
      <3> HIDE DEF T, longer
      <3> QED BY <2>1, AppendIsConcat
    <2>3. longer \o one = ts \o (vs \o one)
      <3> HIDE DEF one
      <3> QED BY <2>1, ConcatAssociative, SMTT(30)
    <2> HIDE DEF one
    <2> QED BY <2>2, <2>3
  <1>3. CASE m > 0
    <2>1. us # <<>> /\ both # <<>>
      BY <1>1, <1>3
    <2>2. both[n + m] = us[m] /\ us[m] \in T
      <3> HIDE DEF T
      <3> QED BY <1>1, <1>3
    <2> DEFINE front == SubSeq(us, 1, m - 1)
    <2>3. front \in Seq(T) /\ SubSeq(both, 1, (n + m) - 1) = ts \o front
      <3>1. front \in Seq(T) /\ Len(front) = m - 1 /\ \A i \in 1 .. m - 1 : front[i] = us[i]
        <4> HIDE DEF T
        <4> QED BY <1>1, <1>3
      <3>2. <<c>> \in T /\ ts \in Seq(T) /\ us \in Seq(T)
        BY <1>1
      <3> HIDE DEF T
      <3>3. SubSeq(both, 1, Len(ts) + Len(us) - 1) = ts \o SubSeq(us, 1, Len(us) - 1)
        BY <3>2, <1>3, FrontConcat
      <3>4. (n + m) - 1 = Len(ts) + Len(us) - 1
        OBVIOUS
      <3> QED BY <3>1, <3>3, <3>4
    <2>4. Reading(both, c) = IF Append(us[m], c) \in Merges
                             THEN Append(ts \o front, Append(us[m], c))
                             ELSE Append(both, <<c>>)
      BY <1>1, <2>1, <2>2, <2>3 DEF Reading, Last, Front
    <2>5. Reading(us, c) = IF Append(us[m], c) \in Merges
                           THEN Append(front, Append(us[m], c))
                           ELSE Append(us, <<c>>)
      BY <2>1 DEF Reading, Last, Front
    <2>6. Append(us[m], c) \in T
      BY <2>2
    <2>7. Append(ts \o front, Append(us[m], c)) = ts \o Append(front, Append(us[m], c))
      <3> HIDE DEF T, front
      <3> QED BY <2>3, <2>6, <1>2
    <2>8. Append(both, <<c>>) = ts \o Append(us, <<c>>)
      BY <1>1, <1>2
    <2> QED BY <2>4, <2>5, <2>7, <2>8, Zenon
  <1>4. CASE ~ (m > 0)
    <2>1. us = <<>> /\ both = ts
      BY <1>1, <1>4
    <2>2. Reading(us, c) = Append(us, <<c>>)
      BY <2>1 DEF Reading
    <2>3. Reading(both, c) = Append(both, <<c>>)
      <3>1. n = 0 => ts = <<>>
        BY <1>1
      <3> QED BY <2>1, <1>4, <3>1 DEF Reading, Last
    <2>4. Append(both, <<c>>) = ts \o Append(us, <<c>>)
      BY <1>1, <1>2
    <2> QED BY <2>2, <2>3, <2>4
  <1> QED BY <1>3, <1>4

\* The tokens of two texts with a seam between them are those of the one and then
\* those of the other.
LEMMA SeamSplits ==
    ASSUME NEW C, NEW u \in Seq(C), NEW v \in Seq(C), Seam(u, v)
    PROVE  Tokens(u \o v) = Tokens(u) \o Tokens(v)
  <1> DEFINE n == Len(v)
             Part(k) == SubSeq(v, 1, k)
             P == {k \in 0 .. n : Tokens(u \o Part(k)) = Tokens(u) \o Tokens(Part(k))}
             ts == Tokens(u)
  <1>0. n \in Nat /\ ts \in Seq(Seq(C))
    BY TokensType
  <1>1. 0 \in P
    <2>1. Part(0) = <<>> /\ u \o <<>> = u /\ ts \o <<>> = ts
      <3>1. Part(0) = <<>> /\ u \o <<>> = u
        OBVIOUS
      <3> DEFINE T == Seq(C)
      <3> HIDE DEF T, ts
      <3>2. ts \o <<>> = ts
        BY <1>0 DEF T
      <3> QED BY <3>1, <3>2
    <2>2. 0 \in 0 .. n
      BY <1>0
    <2>3. Tokens(u \o Part(0)) = Tokens(u) \o Tokens(Part(0))
      BY <2>1, TokensOfNone, Zenon
    <2> QED BY <2>2, <2>3
  <1>2. ASSUME NEW k \in 1 .. n, k - 1 \in P PROVE k \in P
    <2> DEFINE w == Part(k - 1)
               c == v[k]
               us == Tokens(w)
    <2>1. /\ w \in Seq(C) /\ c \in C /\ Part(k) = Append(w, c) /\ u \o w \in Seq(C)
          /\ u \o Append(w, c) = Append(u \o w, c) /\ k \in 0 .. n /\ Len(w) = k - 1
      OBVIOUS
    <2>2. Tokens(u \o w) = ts \o us
      BY <1>2
    <2>3. us \in Seq(Seq(C)) /\ Spells(C, w, us) /\ Spells(C, u, ts)
      BY <2>1, TokensSpell, TokensType
    <2>4. Len(us) > 0 \/ Len(ts) = 0 \/ Append(ts[Len(ts)], c) \notin Merges
      <3>1. CASE k > 1
        <4>1. Len(w) > 0
          BY <2>1, <3>1
        <4> QED BY <4>1, <2>3 DEF Spells
      <3>2. CASE k = 1 /\ u = <<>>
        <4>1. ts = <<>> /\ Len(<<>>) = 0
          BY <3>2, TokensOfNone
        <4> QED BY <4>1
      <3>3. CASE k = 1 /\ u # <<>>
        <4>1. v # <<>> /\ ~ Joined(u[Len(u)], c) /\ Len(u) > 0
          BY <3>3 DEF Seam
        <4>2. Len(ts) > 0 /\ Last(ts[Len(ts)]) = u[Len(u)] /\ Len(ts[Len(ts)]) > 0
              /\ ts[Len(ts)] \in Seq(C)
          BY <4>1, <2>3, <1>0 DEF Spells
        <4> DEFINE t == ts[Len(ts)]
                   m == Append(t, c)
        <4>3. t \in Seq(C) /\ Len(t) > 0 /\ t[Len(t)] = u[Len(u)]
          BY <4>2 DEF Last
        <4> HIDE DEF t
        <4>4. Len(m) > 1 /\ m[Len(m) - 1] = u[Len(u)] /\ m[Len(m)] = c
          BY <4>3, <2>1
        <4>5. m \notin Merges
          BY <4>1, <4>4 DEF Joined
        <4> QED BY <4>5 DEF t
      <3> QED BY <3>1, <3>2, <3>3
    <2> HIDE DEF w, c, us, ts
    <2>5. Tokens(u \o Part(k)) = Reading(ts \o us, c)
      BY <2>1, <2>2, TokensAppend
    <2>6. Reading(ts \o us, c) = ts \o Reading(us, c)
      BY <1>0, <2>1, <2>3, <2>4, ReadingAfter
    <2>7. Tokens(Part(k)) = Reading(us, c)
      BY <2>1, TokensAppend DEF us
    <2>8. Tokens(u \o Part(k)) = ts \o Tokens(Part(k))
      BY <2>5, <2>6, <2>7, Zenon
    <2> QED BY <2>1, <2>8 DEF ts
  <1>3. \A k \in 1 .. n : k - 1 \in P => k \in P
    BY <1>2
  <1>4. n \in P
    <2> HIDE DEF P
    <2>1. \A k \in 0 .. n : k \in P
      BY <1>0, <1>1, <1>3, Induction
    <2> QED BY <2>1, <1>0
  <1>5. Part(n) = v
    OBVIOUS
  <1>6. Tokens(u \o Part(n)) = Tokens(u) \o Tokens(Part(n))
    BY <1>4
  <1> QED BY <1>5, <1>6, Zenon

\* What reading a text x makes of the tokens ts before it: nothing changes but
\* that the last of them may become longer, and either it does or a token that
\* begins like x comes after it.
Continues(x, ts, us) ==
    /\ Len(ts) <= Len(us)
    /\ \A i \in 1 .. Len(ts) - 1 : us[i] = ts[i]
    /\ Len(ts) > 0 => \/ us[Len(ts)] = ts[Len(ts)]
                      \/ Len(us[Len(ts)]) > Len(ts[Len(ts)])
    /\ x = <<>> => us = ts
    /\ x # <<>> => \/ Len(ts) > 0 /\ Len(us[Len(ts)]) > Len(ts[Len(ts)])
                   \/ Len(us) > Len(ts) /\ us[Len(ts) + 1][1] = x[1]

\* Reading a character goes on where the tokens continue others.
LEMMA ReadingContinues ==
    ASSUME NEW C, NEW x \in Seq(C), NEW ts \in Seq(Seq(C)), NEW us \in Seq(Seq(C)),
           NEW c \in C, Continues(x, ts, us), \A i \in 1 .. Len(us) : Len(us[i]) > 0
    PROVE  Continues(Append(x, c), ts, Reading(us, c))
  <1> DEFINE r == Reading(us, c)
             t == Len(ts)
             n == Len(us)
             y == Append(x, c)
             T == Seq(C)
  <1>1. /\ t \in Nat /\ n \in Nat /\ t <= n /\ y # <<>>
        /\ x = <<>> => y[1] = c
        /\ x # <<>> => y[1] = x[1]
        /\ us \in Seq(T) /\ ts \in Seq(T)
    <2>1. t <= n
      BY DEF Continues
    <2>2. /\ t \in Nat /\ n \in Nat /\ y # <<>>
          /\ x = <<>> => y[1] = c
          /\ x # <<>> => y[1] = x[1]
      <3>1. /\ y # <<>> /\ y[Len(x) + 1] = c /\ \A i \in 1 .. Len(x) : y[i] = x[i]
        BY AppendProperties
      <3>2. x = <<>> => Len(x) + 1 = 1
        OBVIOUS
      <3>3. x # <<>> => 1 \in 1 .. Len(x)
        OBVIOUS
      <3>4. t \in Nat /\ n \in Nat
        OBVIOUS
      <3> HIDE DEF y
      <3> QED BY <3>1, <3>2, <3>3, <3>4
    <2> QED BY <2>1, <2>2
  <1>S. SUFFICES Continues(y, ts, r)
    OBVIOUS
  <1>0. \A i \in 1 .. t - 1 : i \in 1 .. n /\ i \in 1 .. n - 1
    <2>1. t \in Nat /\ n \in Nat /\ t <= n
      BY <1>1
    <2> HIDE DEF t, n
    <2> QED BY <2>1
  <1>2. \/ /\ n > 0 /\ Len(r) = n
           /\ \A i \in 1 .. n - 1 : r[i] = us[i]
           /\ r[n] = Append(us[n], c)
        \/ /\ Len(r) = n + 1
           /\ \A i \in 1 .. n : r[i] = us[i]
           /\ r[n + 1] = <<c>>
    BY ReadingShape
  <1>3. /\ \A i \in 1 .. n : us[i] \in T /\ Len(us[i]) \in Nat
        /\ \A i \in 1 .. t : Len(ts[i]) \in Nat
        /\ \A s \in T : Len(Append(s, c)) = Len(s) + 1
        /\ \A s \in T : Len(s) > 0 => Append(s, c)[1] = s[1]
        /\ <<c>>[1] = c
    <2>1. \A s \in T : Len(s) \in Nat /\ Len(Append(s, c)) = Len(s) + 1
      OBVIOUS
    <2>2. \A s \in T : Len(s) > 0 => Append(s, c)[1] = s[1]
      OBVIOUS
    <2> HIDE DEF T
    <2> QED BY <2>1, <2>2, <1>1
  <1>4. /\ \A i \in 1 .. t - 1 : us[i] = ts[i]
        /\ t > 0 => us[t] = ts[t] \/ Len(us[t]) > Len(ts[t])
        /\ x = <<>> => us = ts
        /\ x # <<>> => \/ t > 0 /\ Len(us[t]) > Len(ts[t])
                       \/ n > t /\ us[t + 1][1] = x[1]
    BY DEF Continues
  <1> HIDE DEF r, T, y
  <1>5. CASE /\ n > 0 /\ Len(r) = n
             /\ \A i \in 1 .. n - 1 : r[i] = us[i]
             /\ r[n] = Append(us[n], c)
    <2>0. us[n] \in T /\ Len(us[n]) > 0 /\ Len(us[n]) \in Nat
      BY <1>1, <1>3, <1>5
    <2>1. Len(r[n]) = Len(us[n]) + 1 /\ r[n][1] = us[n][1]
      BY <1>3, <1>5, <2>0
    <2>2. \A i \in 1 .. t - 1 : r[i] = ts[i]
      BY <1>0, <1>4, <1>5, Zenon
    <2>3. t > 0 /\ t < n => r[t] = us[t]
      <3>1. t > 0 /\ t < n => t \in 1 .. n - 1
        BY <1>1
      <3> QED BY <3>1, <1>5, Zenon
    <2>4. t > 0 /\ t = n => Len(r[t]) > Len(ts[t])
      BY <1>1, <1>3, <1>4, <2>0, <2>1
    <2>5. t > 0 => r[t] = ts[t] \/ Len(r[t]) > Len(ts[t])
      BY <1>1, <1>4, <2>3, <2>4
    <2>6. CASE x = <<>>
      <3>1. t = n /\ t > 0
        BY <1>4, <1>5, <2>6
      <3> QED BY <3>1, <1>1, <1>5, <2>2, <2>4, <2>5 DEF Continues
    <2>7. CASE x # <<>>
      <3>1. CASE t > 0 /\ Len(us[t]) > Len(ts[t])
        <4>1. Len(r[t]) > Len(ts[t])
          BY <3>1, <1>1, <2>3, <2>4
        <4> QED BY <4>1, <3>1, <1>1, <1>5, <2>2, <2>5 DEF Continues
      <3>2. CASE n > t /\ us[t + 1][1] = x[1]
        <4>1. r[t + 1][1] = x[1]
          <5>1. CASE t + 1 = n
            BY <5>1, <3>2, <2>1
          <5>2. CASE t + 1 # n
            <6>1. t + 1 \in 1 .. n - 1
              BY <5>2, <3>2, <1>1
            <6> QED BY <6>1, <3>2, <1>5
          <5> QED BY <5>1, <5>2
        <4>2. Len(r) > t
          BY <3>2, <1>5
        <4> QED BY <4>1, <4>2, <3>2, <2>7, <1>1, <1>5, <2>2, <2>5 DEF Continues
      <3> QED BY <3>1, <3>2, <2>7, <1>4
    <2> QED BY <2>6, <2>7
  <1>6. CASE /\ Len(r) = n + 1
             /\ \A i \in 1 .. n : r[i] = us[i]
             /\ r[n + 1] = <<c>>
    <2>1. \A i \in 1 .. t - 1 : r[i] = ts[i]
      BY <1>0, <1>4, <1>6, Zenon
    <2>2. t > 0 => r[t] = us[t]
      BY <1>1, <1>6
    <2>3. t > 0 => r[t] = ts[t] \/ Len(r[t]) > Len(ts[t])
      BY <1>4, <2>2
    <2>4. Len(r) > t
      BY <1>1, <1>6
    <2>5. CASE x = <<>>
      <3>1. t = n
        BY <1>4, <2>5
      <3>2. r[t + 1][1] = c
        BY <3>1, <1>3, <1>6
      <3> QED BY <3>2, <2>5, <1>1, <2>1, <2>3, <2>4 DEF Continues
    <2>6. CASE x # <<>>
      <3>1. CASE t > 0 /\ Len(us[t]) > Len(ts[t])
        BY <3>1, <1>1, <2>1, <2>2, <2>3, <2>4 DEF Continues
      <3>2. CASE n > t /\ us[t + 1][1] = x[1]
        <4>1. t + 1 \in 1 .. n
          BY <3>2, <1>1
        <4>2. r[t + 1][1] = x[1]
          BY <4>1, <3>2, <1>6
        <4> QED BY <4>2, <2>6, <1>1, <2>1, <2>3, <2>4 DEF Continues
      <3> QED BY <3>1, <3>2, <2>6, <1>4
    <2> QED BY <2>5, <2>6
  <1> QED BY <1>2, <1>5, <1>6

\* The tokens of a text that goes on by x continue those of the text.
LEMMA TokensContinue ==
    ASSUME NEW C, NEW b \in Seq(C), NEW x \in Seq(C)
    PROVE  Continues(x, Tokens(b), Tokens(b \o x))
  <1> DEFINE n == Len(x)
             ts == Tokens(b)
             Part(k) == SubSeq(x, 1, k)
             P == {k \in 0 .. n : Continues(Part(k), ts, Tokens(b \o Part(k)))}
  <1>0. n \in Nat /\ ts \in Seq(Seq(C)) /\ Len(ts) \in Nat
    BY TokensType
  <1>1. 0 \in P
    <2>1. Part(0) = <<>> /\ b \o Part(0) = b
      OBVIOUS
    <2> HIDE DEF ts
    <2>2. Continues(<<>>, ts, ts)
      BY <1>0 DEF Continues
    <2>3. Continues(Part(0), ts, Tokens(b \o Part(0)))
      BY <2>1, <2>2 DEF ts
    <2> QED BY <1>0, <2>3
  <1>2. ASSUME NEW k \in 1 .. n, k - 1 \in P PROVE k \in P
    <2> DEFINE w == Part(k - 1)
               c == x[k]
               us == Tokens(b \o w)
    <2>1. /\ w \in Seq(C) /\ c \in C /\ Part(k) = Append(w, c) /\ b \o w \in Seq(C)
          /\ b \o Append(w, c) = Append(b \o w, c) /\ k \in 0 .. n
      OBVIOUS
    <2>2. Continues(w, ts, us)
      BY <1>2
    <2>3. us \in Seq(Seq(C)) /\ \A i \in 1 .. Len(us) : Len(us[i]) > 0
      BY <2>1, TokensSpell DEF Spells
    <2> HIDE DEF w, c, ts
    <2>4. Tokens(b \o Part(k)) = Reading(us, c)
      BY <2>1, TokensAppend
    <2> HIDE DEF us
    <2>5. Continues(Append(w, c), ts, Reading(us, c))
      BY <1>0, <2>1, <2>2, <2>3, ReadingContinues
    <2>6. Continues(Part(k), ts, Tokens(b \o Part(k)))
      BY <2>1, <2>4, <2>5
    <2> QED BY <2>1, <2>6
  <1>3. \A k \in 1 .. n : k - 1 \in P => k \in P
    BY <1>2
  <1>4. n \in P
    <2> HIDE DEF P
    <2>1. \A k \in 0 .. n : k \in P
      BY <1>0, <1>1, <1>3, Induction
    <2> QED BY <2>1, <1>0
  <1>5. Part(n) = x
    OBVIOUS
  <1>6. Continues(Part(n), ts, Tokens(b \o Part(n)))
    BY <1>4
  <1> QED BY <1>5, <1>6

\* The first token that reading on has changed or added.
FirstNew(ts, us) ==
    IF Len(ts) > 0 /\ us[Len(ts)] # ts[Len(ts)] THEN Len(ts) ELSE Len(ts) + 1

\* The tokens before the first new one are those of the shorter text.
LEMMA NewTokens ==
    ASSUME NEW C, NEW x \in Seq(C), NEW ts \in Seq(Seq(C)), NEW us \in Seq(Seq(C)),
           Continues(x, ts, us)
    PROVE  LET a == FirstNew(ts, us)
           IN  /\ a \in {Len(ts), Len(ts) + 1} /\ a > 0 /\ a <= Len(us) + 1
               /\ \A i \in 1 .. a - 1 : us[i] = ts[i] /\ i <= Len(ts) /\ i <= Len(us)
               /\ a = Len(ts) => us[a] # ts[a] /\ Len(us[a]) > Len(ts[a])
               /\ x # <<>> => a <= Len(us)
               /\ x # <<>> /\ a = Len(ts) + 1 => us[a][1] = x[1]
  <1> DEFINE a == FirstNew(ts, us)
             t == Len(ts)
             n == Len(us)
  <1>1. /\ t \in Nat /\ n \in Nat /\ t <= n
        /\ \A i \in 1 .. t - 1 : us[i] = ts[i]
        /\ t > 0 => us[t] = ts[t] \/ Len(us[t]) > Len(ts[t])
        /\ x # <<>> => \/ t > 0 /\ Len(us[t]) > Len(ts[t])
                       \/ n > t /\ us[t + 1][1] = x[1]
    BY DEF Continues
  <1>2. t > 0 => Len(us[t]) \in Nat /\ Len(ts[t]) \in Nat
    <2>1. t > 0 => t \in 1 .. t /\ t \in 1 .. n
      BY <1>1
    <2>2. \A s \in Seq(C) : Len(s) \in Nat
      OBVIOUS
    <2>3. t > 0 => us[t] \in Seq(C) /\ ts[t] \in Seq(C)
      BY <2>1
    <2> QED BY <2>2, <2>3
  <1>3. CASE t > 0 /\ us[t] # ts[t]
    <2>1. a = t
      BY <1>3 DEF FirstNew
    <2> HIDE DEF a, t, n
    <2>2. \A i \in 1 .. a - 1 : us[i] = ts[i] /\ i <= t /\ i <= n
      BY <2>1, <1>1, <1>3
    <2> QED BY <2>1, <2>2, <1>1, <1>3 DEF a, t, n
  <1>4. CASE ~ (t > 0 /\ us[t] # ts[t])
    <2>1. a = t + 1
      BY <1>4 DEF FirstNew
    <2>2. ~ (t > 0 /\ Len(us[t]) > Len(ts[t]))
      BY <1>2, <1>4
    <2> HIDE DEF a, t, n
    <2>3. \A i \in 1 .. a - 1 : us[i] = ts[i] /\ i <= t /\ i <= n
      <3>1. \A i \in 1 .. a - 1 : i \in 1 .. t - 1 \/ i = t
        BY <2>1, <1>1
      <3>2. \A i \in 1 .. a - 1 : i <= t /\ i <= n /\ t > 0
        BY <2>1, <1>1
      <3> QED BY <3>1, <3>2, <1>1, <1>4
    <2>4. a > 0 /\ a <= n + 1 /\ a # t
      BY <2>1, <1>1
    <2>5. x # <<>> => a <= n /\ us[a][1] = x[1]
      BY <2>1, <2>2, <1>1
    <2> QED BY <2>1, <2>3, <2>4, <2>5 DEF a, t, n
  <1> QED BY <1>3, <1>4

\* The characters of the first tokens depend on them only.
LEMMA UptoOfFront ==
    ASSUME NEW S, NEW ss \in Seq(Seq(S)), NEW vs \in Seq(Seq(S)), NEW p \in Nat,
           p <= Len(ss), p <= Len(vs), \A i \in 1 .. p : ss[i] = vs[i]
    PROVE  Upto(ss, p) = Upto(vs, p)
  <1> DEFINE T == Seq(S)
  <1>1. SubSeq(ss, 1, p) = SubSeq(vs, 1, p)
    <2> HIDE DEF T
    <2> QED BY DEF T
  <1> QED BY <1>1 DEF Upto

\* The tokens that hold a part of a text read between two others, if there is a
\* seam behind it: those that reading it changed or added.
LEMMA CoveringTokens ==
    ASSUME NEW C, NEW b \in Seq(C), NEW x \in Seq(C), NEW z \in Seq(C), Seam(b \o x, z)
    PROVE  LET ids == Tokens((b \o x) \o z)
               us == Tokens(b \o x)
           IN  /\ Len(us) <= Len(ids)
               /\ {p \in DOMAIN ids : Covers(ids, p, Len(b) + 1, Len(b) + Len(x))}
                      = FirstNew(Tokens(b), us) .. Len(us)
  <1> DEFINE ids == Tokens((b \o x) \o z)
             us == Tokens(b \o x)
             ts == Tokens(b)
             zs == Tokens(z)
             a == FirstNew(ts, us)
             n == Len(us)
             B == Len(b)
             X == Len(x)
             U(p) == Upto(ids, p)
  <1>1. b \o x \in Seq(C) /\ B \in Nat /\ X \in Nat /\ Len(b \o x) = B + X
    OBVIOUS
  <1>2. ids = us \o zs
    BY <1>1, SeamSplits
  <1>3. us \in Seq(Seq(C)) /\ ts \in Seq(Seq(C)) /\ zs \in Seq(Seq(C))
    BY <1>1, TokensType
  <1>4. /\ Len(FlattenSeq(ts)) = B /\ Len(FlattenSeq(us)) = B + X
        /\ \A i \in 1 .. n : Len(us[i]) > 0
    BY <1>1, TokensSpell DEF Spells
  <1>5. Continues(x, ts, us)
    BY TokensContinue
  <1> HIDE DEF us, ts, zs
  <1>6. /\ a \in {Len(ts), Len(ts) + 1} /\ a > 0 /\ a <= n + 1
        /\ \A i \in 1 .. a - 1 : us[i] = ts[i] /\ i <= Len(ts) /\ i <= Len(us)
        /\ a = Len(ts) => Len(us[a]) > Len(ts[a])
    BY <1>3, <1>5, NewTokens
  <1> HIDE DEF a, ids, B, X
  <1>7. ids \in Seq(Seq(C)) /\ n \in Nat /\ Len(ids) \in Nat /\ n <= Len(ids)
        /\ \A i \in 1 .. n : ids[i] = us[i]
    <2> DEFINE T == Seq(C)
    <2> HIDE DEF T
    <2> QED BY <1>2, <1>3, ConcatProperties DEF T
  <1>8. /\ \A p \in 0 .. Len(ids) : U(p) \in Nat
        /\ \A p \in 1 .. Len(ids) : U(p) = U(p - 1) + Len(ids[p])
    BY <1>7, UptoStep
  <1>9. \A q \in 0 .. Len(ids), p \in 0 .. Len(ids) : p <= q => U(p) <= U(q)
    BY <1>7, UptoMonotone
  <1>10. U(n) = B + X
    <2>1. Upto(us, n) = B + X
      BY <1>3, <1>4, UptoStep
    <2>2. Upto(ids, n) = Upto(us, n)
      <3>1. n = Len(us)
        OBVIOUS
      <3> HIDE DEF n
      <3>2. n <= Len(us)
        BY <3>1, <1>7
      <3> QED BY <3>2, <1>3, <1>7, UptoOfFront
    <2> QED BY <2>1, <2>2
  <1>11. Len(ts) \in Nat /\ Len(ts) <= n
    BY <1>3, <1>5 DEF Continues
  <1>12. U(a - 1) <= B
    <2>1. a - 1 \in 0 .. Len(ts) /\ a - 1 \in Nat /\ a - 1 <= Len(ids) /\ Len(ts) \in 0 .. Len(ts)
      BY <1>6, <1>7, <1>11
    <2>2. \A i \in 1 .. a - 1 : ids[i] = ts[i]
      BY <1>6, <1>7, <1>11
    <2>3. U(a - 1) = Upto(ts, a - 1)
      BY <1>3, <1>7, <2>1, <2>2, UptoOfFront
    <2>4. Upto(ts, a - 1) <= Upto(ts, Len(ts))
      BY <1>3, <2>1, UptoMonotone
    <2>5. Upto(ts, Len(ts)) = B
      BY <1>3, <1>4, UptoStep
    <2> QED BY <2>3, <2>4, <2>5
  <1>13. a <= n => U(a) > B
    <2> SUFFICES ASSUME a <= n PROVE U(a) > B
      OBVIOUS
    <2>1. a \in 1 .. Len(ids) /\ a - 1 \in 0 .. Len(ids) /\ a - 1 \in Nat /\ a - 1 <= Len(ts)
      BY <1>6, <1>7, <1>11
    <2>2. U(a) = U(a - 1) + Len(us[a])
      <3>1. a \in 1 .. n
        BY <1>6, <1>7, <2>1
      <3>2. ids[a] = us[a]
        BY <3>1, <1>7
      <3>3. U(a) = U(a - 1) + Len(ids[a])
        BY <2>1, <1>8
      <3> QED BY <3>2, <3>3
    <2>3. \A i \in 1 .. a - 1 : ids[i] = ts[i]
      BY <1>6, <1>7, <1>11
    <2>4. U(a - 1) = Upto(ts, a - 1)
      BY <1>3, <1>7, <2>1, <2>3, UptoOfFront
    <2>5. Len(us[a]) \in Nat /\ Len(us[a]) > 0
      <3>1. a \in 1 .. n
        BY <1>6, <1>7, <2>1
      <3>2. us[a] \in Seq(C)
        BY <3>1, <1>3
      <3>3. \A s \in Seq(C) : Len(s) \in Nat
        OBVIOUS
      <3> QED BY <3>1, <3>2, <3>3, <1>4
    <2>6. Upto(ts, Len(ts)) = B /\ U(a - 1) \in Nat
      BY <1>3, <1>4, <1>8, <2>1, UptoStep
    <2>7. CASE a = Len(ts) + 1
      <3>1. U(a - 1) = B
        BY <2>4, <2>6, <2>7, <1>11
      <3> QED BY <3>1, <2>2, <2>5, <2>6
    <2>8. CASE a = Len(ts)
      <3>1. a \in 1 .. Len(ts)
        BY <1>6, <1>11, <2>8
      <3>2. Upto(ts, a) = Upto(ts, a - 1) + Len(ts[a]) /\ Len(ts[a]) \in Nat
        <4>1. ts[a] \in Seq(C)
          BY <3>1, <1>3
        <4>2. \A s \in Seq(C) : Len(s) \in Nat
          OBVIOUS
        <4>3. Upto(ts, a) = Upto(ts, a - 1) + Len(ts[a])
          BY <3>1, <1>3, UptoStep
        <4> QED BY <4>1, <4>2, <4>3
      <3>3. B = U(a - 1) + Len(ts[a])
        BY <3>2, <2>4, <2>6, <2>8
      <3> QED BY <3>2, <3>3, <2>2, <2>5, <2>6, <2>8, <1>6
    <2> QED BY <2>7, <2>8, <1>6
  <1>14. ASSUME NEW p \in 1 .. Len(ids)
         PROVE  Covers(ids, p, B + 1, B + X) <=> p \in a .. n
    <2>1. Covers(ids, p, B + 1, B + X) <=> U(p - 1) + 1 <= B + X /\ U(p) >= B + 1
      <3>1. U(p) = U(p - 1) + Len(ids[p])
        BY <1>8
      <3> QED BY <3>1 DEF Covers, Upto
    <2>2. p - 1 \in 0 .. Len(ids) /\ p \in 0 .. Len(ids) /\ n \in 0 .. Len(ids)
          /\ a \in Nat /\ a - 1 \in 0 .. Len(ids) /\ p \in Int
      <3> DEFINE m == Len(ids)
                 t == Len(ts)
      <3>1. m \in Nat /\ n \in Nat /\ n <= m /\ p \in 1 .. m /\ a \in {t, t + 1}
            /\ a > 0 /\ a <= n + 1 /\ t \in Nat
        BY <1>6, <1>7, <1>11
      <3> HIDE DEF m, t, n
      <3> QED BY <3>1 DEF m
    <2>3. U(p - 1) \in Nat /\ U(p) \in Nat /\ U(a - 1) \in Nat
      BY <1>8, <2>2
    <2>4. B \in Nat /\ X \in Nat
      BY <1>1 DEF B, X
    <2> HIDE DEF U
    <2>5. CASE p < a
      <3>1. U(p) <= U(a - 1)
        BY <1>9, <2>2, <2>5
      <3> QED BY <3>1, <2>1, <2>2, <2>3, <2>4, <2>5, <1>12
    <2>6. CASE p >= a /\ p <= n
      <3>1. a \in 0 .. Len(ids) /\ a <= n
        BY <1>6, <1>7, <2>2, <2>6
      <3>2. U(a) <= U(p) /\ U(p) <= B + X /\ U(a) \in Nat
        BY <1>8, <1>9, <1>10, <3>1, <2>2, <2>6
      <3>3. U(p) = U(p - 1) + Len(us[p]) /\ Len(us[p]) > 0 /\ Len(us[p]) \in Nat
        <4>1. p \in 1 .. n
          BY <2>2, <2>6, <1>7
        <4>2. us[p] \in Seq(C)
          BY <4>1, <1>3
        <4>3. \A s \in Seq(C) : Len(s) \in Nat
          OBVIOUS
        <4> QED BY <4>1, <4>2, <4>3, <1>4, <1>7, <1>8
      <3>4. U(a) > B
        BY <3>1, <1>13
      <3>5. U(p - 1) + 1 <= B + X
        <4> DEFINE l == Len(us[p])
                   u == U(p)
                   v == U(p - 1)
        <4>1. u = v + l /\ l > 0 /\ l \in Nat /\ v \in Nat /\ u <= B + X
          BY <3>2, <3>3, <2>3
        <4> HIDE DEF l, u, v
        <4>2. v + 1 <= B + X
          BY <4>1, <2>4
        <4> QED BY <4>2 DEF v
      <3>6. U(p) >= B + 1
        BY <3>2, <3>4, <2>3, <2>4
      <3>7. p \in a .. n
        BY <2>2, <2>6, <1>7
      <3> QED BY <3>5, <3>6, <3>7, <2>1
    <2>7. CASE p > n
      <3>1. U(n) <= U(p - 1)
        <4>1. n <= p - 1
          BY <2>2, <2>7, <1>7
        <4> HIDE DEF n
        <4> QED BY <4>1, <1>9, <2>2
      <3> QED BY <3>1, <2>1, <2>2, <2>3, <2>4, <2>7, <1>7, <1>10
    <2> QED BY <2>2, <2>5, <2>6, <2>7, <1>7
  <1>15. a .. n \subseteq 1 .. Len(ids) /\ DOMAIN ids = 1 .. Len(ids)
    BY <1>6, <1>7, <1>11
  <1>16. {p \in DOMAIN ids : Covers(ids, p, B + 1, B + X)} = a .. n
    BY <1>14, <1>15
  <1> QED BY <1>7, <1>16 DEF a, ids, us, ts, B, X

\* A span begins where two sequences first differ and ends where they last do.
LEMMA SpanBounds ==
    ASSUME NEW D, NEW dum \in Seq(D), NEW full \in Seq(D), NEW a \in Nat, NEW n \in Nat,
           n <= Len(full),
           \A i \in 1 .. LesserOf(Len(dum), Len(full)) : i < a => dum[i] = full[i],
           \A k \in 0 .. LesserOf(Len(dum), Len(full)) - 1 :
               k < Len(full) - n => dum[Len(dum) - k] = full[Len(full) - k]
    PROVE  /\ DiffSpan(dum, full) \subseteq a .. n
           /\ LET v == Len(full) - n
                  common == LesserOf(Len(dum), Len(full))
              IN  /\ a \in 1 .. common /\ dum[a] # full[a]
                  /\ v < common /\ dum[Len(dum) - v] # full[n]
                  => DiffSpan(dum, full) = a .. n
  <1> DEFINE common == LesserOf(Len(dum), Len(full))
             M == Len(dum)
             N == Len(full)
             v == N - n
             front == {i \in 1 .. common : dum[i] # full[i]}
             back == {k \in 0 .. common - 1 : dum[M - k] # full[N - k]}
  <1>1. M \in Nat /\ N \in Nat /\ v \in Nat /\ common \in Nat /\ N - v = n
    BY LesserType
  <1>2. DiffSpan(dum, full) =
            IF front = {} \/ back = {} THEN {} ELSE Min(front) .. N - Min(back)
    BY DEF DiffSpan
  <1>3. front \subseteq Nat /\ back \subseteq Nat
    BY <1>1
  <1>4. \A i \in front : a <= i
    BY <1>1, <1>3
  <1>5. \A k \in back : v <= k
    BY <1>1, <1>3
  <1>6. front # {} => Min(front) \in front /\ \A i \in front : Min(front) <= i
    <2> HIDE DEF front
    <2> QED BY <1>3, MinOfNaturals
  <1>7. back # {} => Min(back) \in back /\ \A i \in back : Min(back) <= i
    <2> HIDE DEF back
    <2> QED BY <1>3, MinOfNaturals
  <1>8. DiffSpan(dum, full) \subseteq a .. n
    <2> HIDE DEF front, back, M, N, v
    <2>1. CASE front = {} \/ back = {}
      BY <2>1, <1>2
    <2>2. CASE front # {} /\ back # {}
      <3> DEFINE p == Min(front)
                 q == Min(back)
      <3>1. p \in Nat /\ a <= p /\ q \in Nat /\ v <= q
        BY <2>2, <1>3, <1>4, <1>5, <1>6, <1>7
      <3>2. DiffSpan(dum, full) = p .. N - q
        BY <2>2, <1>2
      <3> HIDE DEF p, q
      <3>3. N - q <= n
        BY <3>1, <1>1
      <3> QED BY <3>1, <3>2, <3>3, <1>1
    <2> QED BY <2>1, <2>2
  <1>9. ASSUME a \in 1 .. common, dum[a] # full[a], v < common, dum[M - v] # full[n]
        PROVE  DiffSpan(dum, full) = a .. n
    <2>1. a \in front /\ v \in back
      BY <1>1, <1>9
    <2> HIDE DEF front, back, M, N, v
    <2> DEFINE p == Min(front)
               q == Min(back)
    <2>2. p \in Nat /\ q \in Nat /\ p <= a /\ a <= p /\ q <= v /\ v <= q
      BY <2>1, <1>3, <1>4, <1>5, <1>6, <1>7
    <2>3. DiffSpan(dum, full) = p .. N - q
      BY <2>1, <1>2
    <2> HIDE DEF p, q
    <2>4. p = a /\ q = v
      BY <2>2, <1>1
    <2> QED BY <2>3, <2>4, <1>1
  <1> QED BY <1>8, <1>9

\* Comparing the renderings of an answer and of the dummy d finds the tokens that
\* reading the answer changed or added: no others, and all of them if the answer
\* neither begins nor ends like the dummy.
LEMMA DiffFindsAnswer ==
    ASSUME NEW C, NEW b \in Seq(C), NEW x \in Seq(C), NEW d \in Seq(C), NEW y \in Seq(C),
           d # <<>>, Seam(b, d), Seam(b \o d, y), Seam(b \o x, y)
    PROVE  LET us == Tokens(b \o x)
               answer == FirstNew(Tokens(b), us) .. Len(us)
               span == DiffSpan(Tokens((b \o d) \o y), Tokens((b \o x) \o y))
           IN  /\ span \subseteq answer
               /\ x # <<>> /\ x[1] # d[1] /\ x[Len(x)] # d[Len(d)] => span = answer
  <1> DEFINE T == Seq(C)
             us == Tokens(b \o x)
             ts == Tokens(b)
             ms == Tokens(d)
             ys == Tokens(y)
             bs == Tokens(b \o d)
             dum == Tokens((b \o d) \o y)
             full == Tokens((b \o x) \o y)
             a == FirstNew(ts, us)
             t == Len(ts)
             m == Len(ms)
             n == Len(us)
             v == Len(ys)
  <1>1. b \o x \in Seq(C) /\ b \o d \in Seq(C)
    OBVIOUS
  <1>2. bs = ts \o ms /\ dum = bs \o ys /\ full = us \o ys
    BY <1>1, SeamSplits
  <1>3. us \in Seq(T) /\ ts \in Seq(T) /\ ms \in Seq(T) /\ ys \in Seq(T) /\ bs \in Seq(T)
    BY <1>1, TokensType
  <1>4. Continues(x, ts, us)
    BY TokensContinue
  <1>5. m > 0 /\ ms[1][1] = d[1] /\ Last(ms[m]) = d[Len(d)]
    <2>1. <<>> \in Seq(C) /\ <<>> \o d = d /\ Len(d) > 0
      OBVIOUS
    <2>2. Continues(d, <<>>, ms)
      <3> DEFINE none == <<>>
      <3>1. none \in Seq(C) /\ none \o d = d
        BY <2>1
      <3> HIDE DEF none
      <3>2. Continues(d, Tokens(none), Tokens(none \o d))
        BY <3>1, TokensContinue
      <3>3. Tokens(none) = <<>>
        BY TokensOfNone DEF none
      <3> QED BY <3>1, <3>2, <3>3, Zenon
    <2>3. Len(<<>>) = 0
      OBVIOUS
    <2>4. Spells(C, d, ms)
      BY TokensSpell
    <2>5. m > 0 /\ Last(ms[m]) = d[Len(d)]
      BY <2>1, <2>4 DEF Spells
    <2>6. ms[1][1] = d[1]
      BY <2>2, <2>3 DEF Continues
    <2> QED BY <2>5, <2>6
  <1>6. x # <<>> => n > 0 /\ Last(us[n]) = x[Len(x)]
    <2>1. Spells(C, b \o x, us)
      BY <1>1, TokensSpell
    <2>2. x # <<>> => Len(b \o x) > 0 /\ (b \o x)[Len(b \o x)] = x[Len(x)]
      <3>1. x # <<>> => Len(x) > 0 /\ Len(x) \in Nat /\ Len(b) \in Nat
        OBVIOUS
      <3>2. Len(b \o x) = Len(b) + Len(x)
        OBVIOUS
      <3>3. \A i \in 1 .. Len(b) + Len(x) :
                (b \o x)[i] = IF i <= Len(b) THEN b[i] ELSE x[i - Len(b)]
        BY ConcatProperties
      <3> DEFINE w == b \o x
      <3> HIDE DEF w
      <3>4. \A i \in 1 .. Len(b) + Len(x) : w[i] = IF i <= Len(b) THEN b[i] ELSE x[i - Len(b)]
        BY <3>3 DEF w
      <3>5. Len(w) = Len(b) + Len(x)
        BY <3>2 DEF w
      <3>6. x # <<>> => Len(w) > 0 /\ w[Len(w)] = x[Len(x)]
        BY <3>1, <3>4, <3>5
      <3> QED BY <3>6 DEF w
    <2> HIDE DEF us
    <2> QED BY <2>1, <2>2 DEF Spells
  <1> HIDE DEF us, ts, ms, ys, bs, dum, full, T
  <1>7. /\ t \in Nat /\ m \in Nat /\ n \in Nat /\ v \in Nat
        /\ dum \in Seq(T) /\ full \in Seq(T)
        /\ Len(bs) = t + m /\ Len(dum) = (t + m) + v /\ Len(full) = n + v
    BY <1>2, <1>3, ConcatProperties
  <1>8. /\ \A i \in 1 .. t + m : bs[i] = IF i <= t THEN ts[i] ELSE ms[i - t]
        /\ \A i \in 1 .. (t + m) + v : dum[i] = IF i <= t + m THEN bs[i] ELSE ys[i - (t + m)]
        /\ \A i \in 1 .. n + v : full[i] = IF i <= n THEN us[i] ELSE ys[i - n]
    BY <1>2, <1>3, <1>7, ConcatProperties
  <1>9. /\ a \in {t, t + 1} /\ a > 0 /\ a <= n + 1
        /\ \A i \in 1 .. a - 1 : us[i] = ts[i] /\ i <= t /\ i <= n
        /\ a = t => us[a] # ts[a]
        /\ x # <<>> => a <= n
        /\ x # <<>> /\ a = t + 1 => us[a][1] = x[1]
    BY <1>3, <1>4, NewTokens DEF T
  <1> DEFINE common == LesserOf(Len(dum), Len(full))
  <1>10. common \in Nat /\ common <= (t + m) + v /\ common <= n + v
         /\ common \in {(t + m) + v, n + v}
    BY <1>7, LesserType
  <1> HIDE DEF a, t, m, n, v, common
  <1>11. ASSUME NEW i \in 1 .. common, i < a
         PROVE  dum[i] = full[i]
    <2>1. i \in 1 .. a - 1 /\ i \in 1 .. (t + m) + v /\ i \in 1 .. n + v
      BY <1>7, <1>9, <1>10, <1>11
    <2>2. us[i] = ts[i] /\ i <= t /\ i <= n
      BY <2>1, <1>9
    <2>3. i <= t + m /\ i \in 1 .. t + m
      BY <2>1, <2>2, <1>7
    <2> QED BY <2>1, <2>2, <2>3, <1>8
  <1>12. ASSUME NEW k \in 0 .. common - 1, k < v
         PROVE  dum[Len(dum) - k] = full[Len(full) - k]
    <2> DEFINE i == (t + m) + v - k
               j == n + v - k
    <2>1. i \in 1 .. (t + m) + v /\ j \in 1 .. n + v /\ ~ (i <= t + m) /\ ~ (j <= n)
          /\ i - (t + m) = v - k /\ j - n = v - k
      BY <1>7, <1>10, <1>12
    <2>2. Len(dum) - k = i /\ Len(full) - k = j
      BY <1>7
    <2> HIDE DEF i, j
    <2>3. dum[i] = ys[v - k] /\ full[j] = ys[v - k]
      BY <2>1, <1>8
    <2> QED BY <2>2, <2>3
  <1>13. a \in Nat /\ n <= Len(full) /\ Len(full) - n = v
    BY <1>7, <1>9
  <1>14. DiffSpan(dum, full) \subseteq a .. n
    BY <1>7, <1>11, <1>12, <1>13, SpanBounds DEF common
  <1>15. ASSUME x # <<>>, x[1] # d[1], x[Len(x)] # d[Len(d)]
         PROVE  DiffSpan(dum, full) = a .. n
    <2>1. a <= n /\ a <= t + 1 /\ n > 0
      <3>1. a <= n /\ a > 0 /\ a \in {t, t + 1}
        BY <1>9, <1>15
      <3>2. t \in Nat /\ n \in Nat
        BY <1>7
      <3> QED BY <3>1, <3>2
    <2>2. a \in 1 .. common /\ v < common
      BY <2>1, <1>5, <1>7, <1>9, <1>10 DEF m
    <2>3. dum[a] # full[a]
      <3>1. a \in 1 .. (t + m) + v /\ a \in 1 .. n + v /\ a \in 1 .. t + m /\ a <= t + m
            /\ a <= n /\ (a = t + 1 => a - t = 1 /\ ~ (a <= t))
        BY <2>1, <2>2, <1>5, <1>7, <1>9, <1>10 DEF m
      <3>2. full[a] = us[a] /\ dum[a] = bs[a]
        BY <3>1, <1>8
      <3>3. CASE a = t
        <4>1. a <= t
          BY <3>3, <1>7
        <4>2. bs[a] = ts[a]
          BY <4>1, <3>1, <1>8
        <4> QED BY <4>2, <3>2, <3>3, <1>9
      <3>4. CASE a = t + 1
        <4>1. bs[a] = ms[1]
          BY <3>1, <3>4, <1>8
        <4>2. us[a][1] # ms[1][1]
          BY <3>4, <1>5, <1>9, <1>15
        <4> QED BY <4>1, <4>2, <3>2
      <3> QED BY <3>3, <3>4, <1>9
    <2>4. dum[Len(dum) - v] # full[n]
      <3>1. Len(dum) - v = t + m /\ t + m \in 1 .. (t + m) + v /\ t + m \in 1 .. t + m
            /\ t + m <= t + m /\ ~ (t + m <= t) /\ (t + m) - t = m
            /\ n \in 1 .. n + v /\ n <= n
        BY <2>1, <1>5, <1>7 DEF m
      <3> DEFINE e == t + m
      <3>2. dum[e] = bs[e] /\ bs[e] = ms[m]
        BY <3>1, <1>8
      <3>3. full[n] = us[n]
        BY <3>1, <1>8
      <3>4. us[n] # ms[m]
        BY <1>5, <1>6, <1>15 DEF n, m
      <3> QED BY <3>1, <3>2, <3>3, <3>4
    <2> QED BY <2>2, <2>3, <2>4, <1>7, <1>11, <1>12, <1>13, SpanBounds DEF common
  <1> QED BY <1>14, <1>15 DEF a, n, us, ts, dum, full

-----------------------------------------------------------------------------
(* What a conversation renders to.                                         *)

\* The conversation up to a turn.
LEMMA TurnType ==
    ASSUME NEW messages \in Seq(Message), NEW k \in 1 .. Len(messages)
    PROVE  /\ SubSeq(messages, 1, k) \in Seq(Message)
           /\ Len(SubSeq(messages, 1, k)) = k
           /\ \A i \in 1 .. k : SubSeq(messages, 1, k)[i] = messages[i]
  <1>1. k \in Nat /\ k <= Len(messages)
    OBVIOUS
  <1> HIDE DEF Message
  <1> QED BY <1>1, FrontOf

\* A conversation that has gone further strips more, if anything.
LEMMA BodyShrinks ==
    ASSUME NEW t \in Template, NEW messages \in Seq(Message),
           NEW k \in 1 .. Len(messages), NEW i \in 1 .. k
    PROVE  Len(Body(t, messages, i)) <= Len(Body(t, SubSeq(messages, 1, k), i))
  <1> DEFINE turn == SubSeq(messages, 1, k)
             content == messages[i].content
             Followed(s) == \E j \in i + 1 .. Len(s) : s[j].role = "user"
  <1> SUFFICES Len(Body(t, messages, i)) <= Len(Body(t, turn, i))
    OBVIOUS
  <1>1. /\ turn \in Seq(Message) /\ Len(turn) = k /\ \A j \in 1 .. k : turn[j] = messages[j]
    BY TurnType
  <1>2. i \in 1 .. Len(messages) /\ turn[i] = messages[i]
    BY <1>1
  <1>3. Followed(turn) => Followed(messages)
    BY <1>1
  <1>4. /\ Body(t, messages, i) \in Text
        /\ Len(Body(t, messages, i)) <= Len(content)
    BY <1>2, BodyType
  <1>5. Len(Body(t, messages, i)) \in Nat
    BY <1>4 DEF Text
  <1> HIDE DEF turn
  <1>6. CASE t.strips /\ Followed(turn) /\ IsPrefix(Thought, content)
    <2>1. Body(t, messages, i) = Body(t, turn, i)
      BY <1>2, <1>3, <1>6 DEF Body
    <2> QED BY <2>1, <1>5
  <1>7. CASE ~ (t.strips /\ Followed(turn) /\ IsPrefix(Thought, content))
    <2>1. Body(t, turn, i) = content
      BY <1>2, <1>7 DEF Body
    <2> QED BY <2>1, <1>4
  <1> QED BY <1>6, <1>7

\* The rendering of one message more.
LEMMA OpeningStep ==
    ASSUME NEW C, NEW t, t.head \in Seq(C), t.foot \in Seq(C), NEW messages, NEW k \in Nat \ {0},
           \A i \in 1 .. k : Body(t, messages, i) \in Seq(C)
    PROVE  /\ Opening(t, messages, k - 1) \in Seq(C)
           /\ Opening(t, messages, k) =
                  Opening(t, messages, k - 1) \o (t.head \o Body(t, messages, k) \o t.foot)
  <1> DEFINE part == [i \in 1 .. k |-> t.head \o Body(t, messages, i) \o t.foot]
             ss == [i \in 1 .. k - 1 |-> t.head \o Body(t, messages, i) \o t.foot]
             T == Seq(C)
             B(i) == Body(t, messages, i)
  <1>0. k \in 1 .. k /\ k - 1 \in Nat
    OBVIOUS
  <1>1. ASSUME NEW i \in 1 .. k PROVE part[i] \in T
    <2>1. part[i] = t.head \o B(i) \o t.foot
      OBVIOUS
    <2>2. B(i) \in Seq(C)
      OBVIOUS
    <2>3. t.head \o B(i) \o t.foot \in Seq(C)
      <3> HIDE DEF B
      <3> QED BY <2>2
    <2> QED BY <2>1, <2>3
  <1>2. ss = [i \in 1 .. k - 1 |-> part[i]]
    <2> DEFINE E(i) == t.head \o B(i) \o t.foot
    <2>1. \A i \in 1 .. k - 1 : i \in 1 .. k
      OBVIOUS
    <2>2. ss = [i \in 1 .. k - 1 |-> E(i)] /\ part = [i \in 1 .. k |-> E(i)]
      OBVIOUS
    <2> HIDE DEF E, ss, part
    <2> QED BY <2>1, <2>2
  <1>3. part = [i \in 1 .. k |-> part[i]]
    OBVIOUS
  <1>4. part[k] = t.head \o Body(t, messages, k) \o t.foot
    BY <1>0
  <1> HIDE DEF part, ss, T
  <1>6. part[k] \in T
    BY <1>0, <1>1
  <1>9. ss \in Seq(T) /\ Len(ss) = k - 1
    BY <1>0, <1>1, <1>2
  <1>10. part \in Seq(T) /\ Len(part) = k
    BY <1>0, <1>1, <1>3
  <1>11. part = Append(ss, part[k])
    BY <1>0, <1>1, <1>2, <1>3, <1>6, <1>9, <1>10
  <1>5. ss \in Seq(T) /\ part = Append(ss, part[k])
    BY <1>9, <1>11
  <1>7. FlattenSeq(part) = FlattenSeq(ss) \o part[k]
    BY <1>5, <1>6, FlattenAppend DEF T
  <1>8. FlattenSeq(ss) \in Seq(C)
    BY <1>5, FlattenType DEF T
  <1> QED BY <1>4, <1>7, <1>8 DEF Opening, part, ss

\* No messages render to nothing.
LEMMA OpeningOfNone == \A t, messages : Opening(t, messages, 0) = <<>>
  <1>1. ASSUME NEW t, NEW messages PROVE Opening(t, messages, 0) = <<>>
    <2>1. [i \in 1 .. 0 |-> t.head \o Body(t, messages, i) \o t.foot] = <<>>
      OBVIOUS
    <2> QED BY <2>1, FlattenNone DEF Opening
  <1> QED BY <1>1

\* The characters of a text and of the dummy.
Alphabet == Characters \cup {"[[", "dummy", "]]"}

\* The dummy, its ends, and the texts are sequences over the alphabet.
LEMMA DummyFacts ==
    /\ Dummy \in Seq(Alphabet) /\ Dummy # <<>> /\ Dummy[1] = "[[" /\ Dummy[Len(Dummy)] = "]]"
    /\ Head(Dummy) = Dummy[1] /\ Last(Dummy) = Dummy[Len(Dummy)]
    /\ \A s \in Text : s \in Seq(Alphabet)
  <1>1. "[[" \in Alphabet /\ "dummy" \in Alphabet /\ "]]" \in Alphabet
    BY DEF Alphabet
  <1>2. Dummy \in Seq(Alphabet) /\ Len(Dummy) = 3 /\ Dummy[1] = "[[" /\ Dummy[3] = "]]"
    BY <1>1 DEF Dummy
  <1>3. Dummy # <<>> /\ Head(Dummy) = Dummy[1]
    BY DEF Dummy
  <1>4. \A s \in Text : s \in Seq(Alphabet)
    BY SeqMonotonic DEF Text, Alphabet
  <1> QED BY <1>2, <1>3, <1>4 DEF Last

\* Concatenation is associative.
LEMMA ConcatRegroups ==
    ASSUME NEW C
    PROVE  \A u, v, w \in Seq(C) : (u \o v) \o w = u \o (v \o w)
  BY ConcatAssociative

\* Concatenation of members of T regroups.
Regroups(T) == \A o, h, x, f, w \in T :
    (o \o (h \o x \o f)) \o w = ((o \o h) \o x) \o (f \o w)

\* Sequences over C regroup, whatever they are.
LEMMA Regroup ==
    ASSUME NEW C PROVE Regroups(Seq(C))
  <1> DEFINE T == Seq(C)
             Cat(u, v) == u \o v
  <1>1. \A u, v \in T : Cat(u, v) \in T
    OBVIOUS
  <1>2. \A u, v, s \in T : Cat(Cat(u, v), s) = Cat(u, Cat(v, s))
    BY ConcatRegroups
  <1> SUFFICES \A o, h, x, f, w \in T :
          Cat(Cat(o, Cat(Cat(h, x), f)), w) = Cat(Cat(Cat(o, h), x), Cat(f, w))
    BY DEF Regroups
  <1> HIDE DEF T, Cat
  <1>3. TAKE o, h, x, f, w \in T
  <1>4. Cat(o, Cat(Cat(h, x), f)) = Cat(Cat(Cat(o, h), x), f)
    BY <1>1, <1>2
  <1>5. Cat(Cat(o, h), x) \in T
    BY <1>1
  <1> QED BY <1>2, <1>4, <1>5

\* A message adds its head, its body and its foot to those before it.
LEMMA OpeningParts ==
    ASSUME NEW t \in Template, NEW messages \in Seq(Message), NEW k \in 1 .. Len(messages)
    PROVE  /\ Opening(t, messages, k - 1) \in Text /\ Body(t, messages, k) \in Text
           /\ Opening(t, messages, k) =
                  Opening(t, messages, k - 1) \o (t.head \o Body(t, messages, k) \o t.foot)
           /\ t.head \in Text /\ t.foot \in Text /\ t.tail \in Text
  <1>1. t.head \in Text /\ t.foot \in Text /\ t.tail \in Text
    BY DEF Template
  <1>2. k \in Nat \ {0} /\ \A i \in 1 .. k : i \in 1 .. Len(messages)
    OBVIOUS
  <1>3. \A i \in 1 .. k : Body(t, messages, i) \in Text
    BY <1>2, BodyType
  <1>4. k \in 1 .. k
    BY <1>2
  <1> QED BY <1>1, <1>2, <1>3, <1>4, OpeningStep DEF Text

-----------------------------------------------------------------------------
(* The answer at a turn, rendered up to it and in the whole conversation.  *)

\* The conversation up to turn k, and the text that comes before its answer.
Turn(messages, k) == SubSeq(messages, 1, k)
BeforeAnswer(t, messages, k) == Opening(t, Turn(messages, k), k - 1) \o t.head

\* The same in numbers of characters.
LEMMA OpeningLength ==
    ASSUME NEW t \in Template, NEW messages \in Seq(Message), NEW k \in 1 .. Len(messages)
    PROVE  /\ Len(Opening(t, messages, k - 1)) \in Nat /\ Len(Body(t, messages, k)) \in Nat
           /\ Len(t.head) \in Nat /\ Len(t.foot) \in Nat
           /\ Len(Opening(t, messages, k)) =
                  Len(Opening(t, messages, k - 1))
                      + (Len(t.head) + Len(Body(t, messages, k)) + Len(t.foot))
  <1> DEFINE T == Seq(Characters)
             o == Opening(t, messages, k - 1)
             B == Body(t, messages, k)
             h == t.head
             f == t.foot
  <1>1. o \in T /\ B \in T /\ h \in T /\ f \in T /\ Opening(t, messages, k) = o \o (h \o B \o f)
    BY OpeningParts DEF Text
  <1> HIDE DEF o, B, h, f
  <1>2. h \o B \in T /\ Len(h \o B) = Len(h) + Len(B)
    BY <1>1
  <1>3. h \o B \o f \in T /\ Len(h \o B \o f) = Len(h) + Len(B) + Len(f)
    <2> DEFINE hb == h \o B
    <2> HIDE DEF hb
    <2>1. hb \in T /\ Len(hb) = Len(h) + Len(B)
      BY <1>2 DEF hb
    <2>2. hb \o f \in T /\ Len(hb \o f) = Len(hb) + Len(f)
      <3>1. f \in T
        BY <1>1
      <3> QED BY ONLY <2>1, <3>1
    <2> QED BY <2>1, <2>2 DEF hb
  <1>4. Len(o \o (h \o B \o f)) = Len(o) + Len(h \o B \o f)
    BY <1>1, <1>3
  <1>5. Len(o) \in Nat /\ Len(B) \in Nat /\ Len(h) \in Nat /\ Len(f) \in Nat
    BY <1>1
  <1> QED BY <1>1, <1>3, <1>4, <1>5 DEF o, B, h, f

\* The dummy changes the rendering of the answer it stands for and no other.
LEMMA DummyTurn ==
    ASSUME NEW t \in Template, NEW turn \in Seq(Message), Len(turn) > 0
    PROVE  LET k == Len(turn)
               dummy == [turn EXCEPT ![k].content = Dummy]
           IN  /\ Len(dummy) = k /\ Body(t, dummy, k) = Dummy
               /\ \A i \in 1 .. k - 1 : Body(t, dummy, i) = Body(t, turn, i)
  <1> DEFINE k == Len(turn)
             dummy == [turn EXCEPT ![k].content = Dummy]
             Followed(s, i) == \E j \in i + 1 .. Len(s) : s[j].role = "user"
  <1> SUFFICES /\ Len(dummy) = k /\ Body(t, dummy, k) = Dummy
               /\ \A i \in 1 .. k - 1 : Body(t, dummy, i) = Body(t, turn, i)
    OBVIOUS
  <1>1. k \in Nat /\ k > 0 /\ k \in 1 .. k /\ k \in DOMAIN turn
    OBVIOUS
  <1>2. turn[k] \in Message
    BY <1>1
  <1>3. DOMAIN dummy = 1 .. k /\ Len(dummy) = k
    BY <1>1
  <1>4. dummy[k].content = Dummy /\ dummy[k].role = turn[k].role
    BY <1>1, <1>2 DEF Message
  <1>5. \A i \in 1 .. k - 1 : dummy[i] = turn[i]
    BY <1>1
  <1> HIDE DEF dummy
  <1>6. \A j \in 1 .. k : dummy[j].role = turn[j].role
    <2>1. \A j \in 1 .. k : j = k \/ j \in 1 .. k - 1
      BY <1>1
    <2> QED BY <2>1, <1>4, <1>5
  <1>7. ~ Followed(dummy, k)
    BY <1>1, <1>3
  <1>8. Body(t, dummy, k) = Dummy
    BY <1>4, <1>7 DEF Body
  <1>9. ASSUME NEW i \in 1 .. k - 1 PROVE Body(t, dummy, i) = Body(t, turn, i)
    <2>1. Followed(dummy, i) <=> Followed(turn, i)
      <3>1. \A j \in i + 1 .. k : j \in 1 .. k
        BY <1>1
      <3> QED BY <3>1, <1>3, <1>6
    <2>2. dummy[i].content = turn[i].content
      BY <1>5
    <2> HIDE DEF Followed, k
    <2>3. Body(t, dummy, i) =
             IF t.strips /\ Followed(dummy, i) /\ IsPrefix(Thought, dummy[i].content)
             THEN SubSeq(dummy[i].content, Len(Thought) + 1, Len(dummy[i].content))
             ELSE dummy[i].content
      BY DEF Body, Followed
    <2>4. Body(t, turn, i) =
             IF t.strips /\ Followed(turn, i) /\ IsPrefix(Thought, turn[i].content)
             THEN SubSeq(turn[i].content, Len(Thought) + 1, Len(turn[i].content))
             ELSE turn[i].content
      BY DEF Body, Followed
    <2> QED BY <2>1, <2>2, <2>3, <2>4
  <1> QED BY <1>3, <1>8, <1>9

\* A conversation up to an answer reads alike with the answer and with the dummy
\* before and after them.
LEMMA TurnRendering ==
    ASSUME NEW t \in Template, NEW messages \in Seq(Message), NEW k \in 1 .. Len(messages)
    PROVE  LET turn == Turn(messages, k)
               before == BeforeAnswer(t, messages, k)
               after == t.foot \o t.tail
           IN  /\ before \in Text /\ after \in Text /\ messages[k].content \in Text
               /\ Render(t, turn) = (before \o messages[k].content) \o after
               /\ Render(t, [turn EXCEPT ![k].content = Dummy]) = (before \o Dummy) \o after
  <1> DEFINE turn == Turn(messages, k)
             dummy == [turn EXCEPT ![k].content = Dummy]
             x == messages[k].content
             o == Opening(t, turn, k - 1)
             h == t.head
             f == t.foot
             w == t.tail
             T == Seq(Alphabet)
  <1> SUFFICES /\ o \o h \in Text /\ f \o w \in Text /\ x \in Text
               /\ Render(t, turn) = ((o \o h) \o x) \o (f \o w)
               /\ Render(t, dummy) = ((o \o h) \o Dummy) \o (f \o w)
    BY DEF BeforeAnswer
  <1>1. /\ turn \in Seq(Message) /\ Len(turn) = k /\ turn[k] = messages[k]
        /\ k \in Nat /\ k > 0 /\ k \in 1 .. Len(turn)
    <2>1. k \in Nat /\ k > 0 /\ k \in 1 .. k
      OBVIOUS
    <2> QED BY <2>1, TurnType DEF Turn
  <1> HIDE DEF turn
  <1>2. x \in Text /\ Body(t, turn, k) = x
    BY <1>1, ContentType, BodyType
  <1>3. /\ o \in Text /\ h \in Text /\ f \in Text /\ w \in Text
        /\ Opening(t, turn, k) = o \o (h \o x \o f)
    BY <1>1, <1>2, OpeningParts
  <1>4. o \in T /\ h \in T /\ f \in T /\ w \in T /\ x \in T /\ Dummy \in T
    BY <1>2, <1>3, DummyFacts
  <1>5. /\ Len(dummy) = k /\ Body(t, dummy, k) = Dummy
        /\ \A i \in 1 .. k - 1 : Body(t, dummy, i) = Body(t, turn, i)
    BY <1>1, DummyTurn
  <1> HIDE DEF dummy, x
  <1>6. Opening(t, dummy, k - 1) = o
    <2>1. [i \in 1 .. k - 1 |-> t.head \o Body(t, dummy, i) \o t.foot]
             = [i \in 1 .. k - 1 |-> t.head \o Body(t, turn, i) \o t.foot]
      BY <1>5
    <2> QED BY <2>1 DEF Opening
  <1>7. \A i \in 1 .. k : Body(t, dummy, i) \in T
    <2>1. \A i \in 1 .. k - 1 : Body(t, turn, i) \in T
      <3>1. \A i \in 1 .. k - 1 : i \in 1 .. Len(turn)
        BY <1>1
      <3> QED BY <3>1, <1>1, BodyType, DummyFacts
    <2>2. \A i \in 1 .. k : i = k \/ i \in 1 .. k - 1
      BY <1>1
    <2> QED BY <2>1, <2>2, <1>4, <1>5
  <1>8. Opening(t, dummy, k) = o \o (h \o Dummy \o f)
    <2>1. /\ t.head \in Seq(Alphabet) /\ t.foot \in Seq(Alphabet) /\ k \in Nat \ {0}
          /\ \A i \in 1 .. k : Body(t, dummy, i) \in Seq(Alphabet)
      BY <1>1, <1>4, <1>7
    <2>2. Opening(t, dummy, k) =
             Opening(t, dummy, k - 1) \o (t.head \o Body(t, dummy, k) \o t.foot)
      <3> HIDE DEF o, h, f, w, T
      <3> QED BY <2>1, OpeningStep
    <2> QED BY <2>2, <1>5, <1>6
  <1>9. Render(t, turn) = (o \o (h \o x \o f)) \o w
    BY <1>1, <1>3 DEF Render
  <1>10. Render(t, dummy) = (o \o (h \o Dummy \o f)) \o w
    BY <1>5, <1>8 DEF Render
  <1>11. o \o h \in Text /\ f \o w \in Text
    BY <1>3 DEF Text
  <1> HIDE DEF o, h, f, w
  <1> DEFINE Cat(u, v) == u \o v
  <1>12. Regroups(T)
    BY Regroup
  <1> HIDE DEF T
  <1>13. \A d \in T : Cat(Cat(o, Cat(Cat(h, d), f)), w) = Cat(Cat(Cat(o, h), d), Cat(f, w))
    <2>1. \A o1, h1, x1, f1, w1 \in T :
              Cat(Cat(o1, Cat(Cat(h1, x1), f1)), w1) = Cat(Cat(Cat(o1, h1), x1), Cat(f1, w1))
      BY <1>12 DEF Regroups
    <2> HIDE DEF Cat
    <2> QED BY <2>1, <1>4
  <1>14. /\ Render(t, turn) = Cat(Cat(o, Cat(Cat(h, x), f)), w)
         /\ Render(t, dummy) = Cat(Cat(o, Cat(Cat(h, Dummy), f)), w)
    BY <1>9, <1>10
  <1> HIDE DEF Cat
  <1>15. /\ Render(t, turn) = Cat(Cat(Cat(o, h), x), Cat(f, w))
         /\ Render(t, dummy) = Cat(Cat(Cat(o, h), Dummy), Cat(f, w))
    BY <1>4, <1>13, <1>14
  <1> QED BY <1>2, <1>11, <1>15 DEF Cat

\* No token of its own ends with the character c.
Parts(c) == \A m \in Merges : Len(m) > 1 => m[Len(m)] # c

\* The template's special tokens keep the texts apart: no token reaches from the
\* head of a message into the dummy, or from an answer into what follows it.
Delimited(t) ==
    /\ t.head # <<>> /\ ~ Joined(t.head[Len(t.head)], Dummy[1])
    /\ \A z \in {t.foot \o t.head, t.foot \o t.tail} : z # <<>> => Parts(z[1])

\* What follows the first k messages begins with another message or is the tail.
Follows(t, w) == w = t.tail \/ (w # <<>> /\ w[1] = t.head[1])

HasRest(t, messages, k) ==
    \E w \in Text : /\ Render(t, messages) = Opening(t, messages, k) \o w
                    /\ Follows(t, w)

\* A message and what follows it are what follows one message less.
LEMMA RestStep ==
    ASSUME NEW t \in Template, NEW messages \in Seq(Message),
           NEW k \in 1 .. Len(messages), t.head # <<>>, HasRest(t, messages, k)
    PROVE  HasRest(t, messages, k - 1)
  <1> DEFINE o == Opening(t, messages, k - 1)
             e == t.head \o Body(t, messages, k) \o t.foot
  <1>1. PICK w \in Text : Render(t, messages) = Opening(t, messages, k) \o w
    BY DEF HasRest
  <1>2. /\ o \in Text /\ Body(t, messages, k) \in Text /\ t.head \in Text /\ t.foot \in Text
        /\ Opening(t, messages, k) = o \o e
    BY OpeningParts
  <1>3. e \in Text /\ Len(e) > 0 /\ e[1] = t.head[1]
    <2> DEFINE B == Body(t, messages, k)
               hb == t.head \o B
    <2>1. t.head \in Seq(Characters) /\ B \in Seq(Characters) /\ t.foot \in Seq(Characters)
          /\ Len(t.head) > 0
      BY <1>2 DEF Text
    <2> HIDE DEF B
    <2>2. hb \in Seq(Characters) /\ Len(hb) > 0 /\ hb[1] = t.head[1]
      BY <2>1
    <2>3. e = hb \o t.foot
      BY DEF B
    <2> HIDE DEF hb, e
    <2>4. e \in Seq(Characters) /\ Len(e) > 0 /\ e[1] = hb[1]
      BY <2>1, <2>2, <2>3
    <2> QED BY <2>2, <2>4 DEF Text
  <1> DEFINE v == e \o w
  <1> HIDE DEF e, o
  <1>4. v \in Text /\ v # <<>> /\ v[1] = t.head[1]
    BY <1>3 DEF Text
  <1>5. (o \o e) \o w = o \o v
    <2>1. o \in Seq(Characters) /\ e \in Seq(Characters) /\ w \in Seq(Characters)
      BY <1>2, <1>3 DEF Text
    <2> QED BY ONLY <2>1, ConcatRegroups
  <1> HIDE DEF v
  <1> QED BY <1>1, <1>2, <1>4, <1>5 DEF HasRest, Follows, o

\* The rendering of a conversation goes on after each of its messages.
LEMMA AllHaveRest ==
    ASSUME NEW t \in Template, NEW messages \in Seq(Message), t.head # <<>>
    PROVE  \A k \in 0 .. Len(messages) : HasRest(t, messages, k)
  <1> DEFINE n == Len(messages)
             P == {j \in 0 .. n : HasRest(t, messages, n - j)}
  <1>0. n \in Nat
    OBVIOUS
  <1>1. 0 \in P
    <2>1. t.tail \in Text
      BY DEF Template
    <2>2. HasRest(t, messages, n)
      <3>1. Render(t, messages) = Opening(t, messages, n) \o t.tail
        BY DEF Render
      <3>2. Follows(t, t.tail)
        BY DEF Follows
      <3> QED BY ONLY <2>1, <3>1, <3>2 DEF HasRest
    <2> QED BY <2>2, <1>0
  <1>2. \A j \in 0 .. n - 1 : j \in P => j + 1 \in P
    <2>1. ASSUME NEW j \in 0 .. n - 1, j \in P PROVE j + 1 \in P
      <3>1. n - j \in 1 .. n /\ HasRest(t, messages, n - j) /\ n - (j + 1) = (n - j) - 1
            /\ j + 1 \in 0 .. n
        BY <2>1, <1>0
      <3>2. HasRest(t, messages, (n - j) - 1)
        BY <3>1, RestStep
      <3> QED BY <3>1, <3>2
    <2> QED BY <2>1
  <1>3. \A j \in 0 .. n : j \in P
    <2> HIDE DEF P
    <2> QED BY <1>0, <1>1, <1>2, Induction
  <1>4. ASSUME NEW k \in 0 .. n PROVE HasRest(t, messages, k)
    <2>1. n - k \in 0 .. n /\ n - (n - k) = k
      BY <1>0
    <2> QED BY <2>1, <1>3
  <1> QED BY <1>4

\* The first messages are no longer in the whole conversation than up to turn k.
LEMMA OpeningShrinks ==
    ASSUME NEW t \in Template, NEW messages \in Seq(Message),
           NEW k \in 1 .. Len(messages)
    PROVE  \A i \in 0 .. k :
               Len(Opening(t, messages, i)) <= Len(Opening(t, Turn(messages, k), i))
  <1> DEFINE turn == Turn(messages, k)
             L(i) == Len(Opening(t, messages, i))
             R(i) == Len(Opening(t, turn, i))
             P == {i \in 0 .. k : L(i) <= R(i)}
  <1>0. k \in Nat /\ turn \in Seq(Message) /\ Len(turn) = k
    BY TurnType DEF Turn
  <1>1. 0 \in P
    BY <1>0, OpeningOfNone
  <1>2. ASSUME NEW i \in 0 .. k - 1, i \in P PROVE i + 1 \in P
    <2> DEFINE B == Len(Body(t, messages, i + 1))
               X == Len(Body(t, turn, i + 1))
               H == Len(t.head)
               F == Len(t.foot)
    <2>1. /\ i + 1 \in 1 .. Len(messages) /\ i + 1 \in 1 .. k /\ i + 1 \in 1 .. Len(turn)
          /\ (i + 1) - 1 = i /\ i + 1 \in 0 .. k
      BY <1>0
    <2>2. L(i) \in Nat /\ B \in Nat /\ H \in Nat /\ F \in Nat /\ L(i + 1) = L(i) + (H + B + F)
      BY <2>1, OpeningParts, OpeningLength
    <2>3. R(i) \in Nat /\ X \in Nat /\ R(i + 1) = R(i) + (H + X + F)
      BY <2>1, <1>0, OpeningParts, OpeningLength
    <2>4. B <= X
      BY <2>1, BodyShrinks DEF Turn
    <2>5. L(i) <= R(i)
      BY <1>2
    <2>6. L(i + 1) <= R(i + 1)
      <3> HIDE DEF L, R, B, X, H, F
      <3> QED BY <2>2, <2>3, <2>4, <2>5
    <2> QED BY <2>1, <2>6
  <1>3. \A i \in 0 .. k - 1 : i \in P => i + 1 \in P
    BY <1>2
  <1>4. \A i \in 0 .. k : i \in P
    <2> HIDE DEF P
    <2> QED BY <1>0, <1>1, <1>3, Induction
  <1> QED BY <1>4

\* Rendered alike up to its answer, a conversation has the answer as it is given,
\* at the same place.
LEMMA AlikePlaces ==
    ASSUME NEW t \in Template, NEW messages \in Seq(Message),
           NEW k \in 1 .. Len(messages), RendersAlike(t, messages, k)
    PROVE  /\ Len(Opening(t, messages, k - 1)) = Len(Opening(t, Turn(messages, k), k - 1))
           /\ Len(Body(t, messages, k)) = Len(messages[k].content)
  <1> DEFINE turn == Turn(messages, k)
             L == Len(Opening(t, messages, k - 1))
             R == Len(Opening(t, turn, k - 1))
             B == Len(Body(t, messages, k))
             X == Len(Body(t, turn, k))
             H == Len(t.head)
             F == Len(t.foot)
  <1>0. /\ k \in Nat /\ turn \in Seq(Message) /\ Len(turn) = k /\ k \in 1 .. Len(turn)
        /\ turn[k] = messages[k] /\ k - 1 \in 0 .. k
    <2>1. k \in Nat /\ k \in 1 .. k /\ k - 1 \in 0 .. k
      OBVIOUS
    <2> QED BY <2>1, TurnType DEF Turn
  <1>1. L \in Nat /\ B \in Nat /\ H \in Nat /\ F \in Nat
        /\ Len(Opening(t, messages, k)) = L + (H + B + F)
    BY OpeningParts, OpeningLength
  <1>2. R \in Nat /\ X \in Nat /\ Len(Opening(t, turn, k)) = R + (H + X + F)
    <2> HIDE DEF turn
    <2> QED BY <1>0, OpeningParts, OpeningLength
  <1>3. L <= R
    BY <1>0, OpeningShrinks
  <1>4. B <= X
    BY <1>0, BodyShrinks DEF Turn
  <1>5. Opening(t, messages, k) = Opening(t, turn, k)
    BY DEF RendersAlike, Turn
  <1>6. X = Len(messages[k].content)
    <2> HIDE DEF turn
    <2> QED BY <1>0, BodyType
  <1>7. L = R /\ B = X
    <2>1. L + (H + B + F) = R + (H + X + F)
      BY <1>1, <1>2, <1>5
    <2> HIDE DEF L, R, B, X, H, F
    <2> QED BY <1>1, <1>2, <1>3, <1>4, <2>1
  <1> QED BY <1>6, <1>7

\* The text goes on after its beginning u without a token across the border.
GoesOn(text, u) == \E z \in Text : text = u \o z /\ Seam(u, z)

\* A text ends where a character begins that no token joins to another.
LEMMA PartsSeam ==
    ASSUME NEW u, NEW z, z # <<>> => Parts(z[1])
    PROVE  Seam(u, z)
  BY DEF Seam, Parts, Joined

\* Texts that begin alike do so after any text.
LEMMA FirstOfConcat ==
    ASSUME NEW C, NEW f \in Seq(C), NEW w \in Seq(C), NEW h \in Seq(C),
           w = h \/ (w # <<>> /\ h # <<>> /\ w[1] = h[1]), f \o w # <<>>
    PROVE  f \o h # <<>> /\ (f \o w)[1] = (f \o h)[1]
  <1>1. CASE w = h
    BY <1>1
  <1>2. CASE w # <<>> /\ h # <<>> /\ w[1] = h[1]
    <2>1. Len(w) \in Nat /\ Len(w) > 0 /\ Len(h) \in Nat /\ Len(h) > 0 /\ Len(f) \in Nat
      BY <1>2
    <2>2. Len(f \o h) > 0
      BY <2>1
    <2>3. CASE Len(f) > 0
      BY <2>1, <2>2, <2>3
    <2>4. CASE Len(f) = 0
      <3>1. (f \o w)[1] = w[1] /\ (f \o h)[1] = h[1]
        BY <2>1, <2>4
      <3> QED BY <1>2, <2>2, <3>1
    <2> QED BY <2>1, <2>3, <2>4
  <1> QED BY <1>1, <1>2

\* The whole conversation has the answer as it is rendered up to it.
LEMMA WholeRendering ==
    ASSUME NEW t \in Template, NEW messages \in Seq(Message),
           NEW k \in 1 .. Len(messages), Delimited(t), RendersAlike(t, messages, k)
    PROVE  GoesOn(Render(t, messages), BeforeAnswer(t, messages, k) \o messages[k].content)
  <1> DEFINE turn == Turn(messages, k)
             x == messages[k].content
             o == Opening(t, turn, k - 1)
             h == t.head
             f == t.foot
             u == BeforeAnswer(t, messages, k) \o x
             T == Seq(Characters)
  <1>1. /\ turn \in Seq(Message) /\ Len(turn) = k /\ turn[k] = messages[k]
        /\ k \in 1 .. Len(turn) /\ k \in 0 .. Len(messages)
    <2>1. k \in Nat /\ k > 0 /\ k \in 1 .. k /\ k \in 0 .. Len(messages)
      OBVIOUS
    <2> QED BY <2>1, TurnType DEF Turn
  <1>2. /\ o \in Text /\ x \in Text /\ h \in Text /\ f \in Text /\ t.tail \in Text
        /\ Opening(t, turn, k) = o \o (h \o x \o f)
    <2> HIDE DEF turn
    <2>1. Body(t, turn, k) = x /\ x \in Text
      BY <1>1, ContentType, BodyType
    <2> QED BY <1>1, <2>1, OpeningParts
  <1>3. Opening(t, messages, k) = Opening(t, turn, k)
    BY DEF RendersAlike, Turn
  <1>4. PICK w \in Text : Render(t, messages) = Opening(t, messages, k) \o w /\ Follows(t, w)
    <2>1. HasRest(t, messages, k)
      BY <1>1, AllHaveRest DEF Delimited
    <2> QED BY <2>1 DEF HasRest
  <1> DEFINE z == f \o w
  <1>5. z \in Text
    BY <1>2 DEF Text
  <1>6. z # <<>> => Parts(z[1])
    <2>1. ASSUME z # <<>>, NEW s \in {t.head, t.tail}, s \in Text,
                 w = s \/ (w # <<>> /\ s # <<>> /\ w[1] = s[1])
          PROVE  Parts(z[1])
      <3>1. f \o s # <<>> /\ z[1] = (f \o s)[1]
        <4>1. f \in Seq(Characters) /\ w \in Seq(Characters) /\ s \in Seq(Characters)
              /\ f \o w # <<>>
          BY <1>2, <2>1 DEF Text
        <4> HIDE DEF f
        <4> QED BY <2>1, <4>1, FirstOfConcat
      <3>2. f \o s \in {t.foot \o t.head, t.foot \o t.tail}
        BY <2>1
      <3> HIDE DEF z, f
      <3> QED BY <3>1, <3>2 DEF Delimited
    <2>2. w = t.tail \/ (w # <<>> /\ t.head # <<>> /\ w[1] = t.head[1])
      BY <1>4 DEF Follows, Delimited
    <2> QED BY <1>2, <2>1, <2>2
  <1>7. Render(t, messages) = u \o z
    <2> DEFINE Cat(v1, v2) == v1 \o v2
    <2>1. Regroups(Text)
      BY Regroup DEF Text
    <2>2. \A o1, h1, x1, f1, w1 \in Text :
              Cat(Cat(o1, Cat(Cat(h1, x1), f1)), w1) = Cat(Cat(Cat(o1, h1), x1), Cat(f1, w1))
      BY <2>1 DEF Regroups
    <2>3. Render(t, messages) = Cat(Cat(o, Cat(Cat(h, x), f)), w)
      BY <1>2, <1>3, <1>4
    <2> HIDE DEF Cat, o, h, x, f
    <2>4. Render(t, messages) = Cat(Cat(Cat(o, h), x), Cat(f, w))
      BY <1>2, <2>2, <2>3
    <2> QED BY <2>4 DEF Cat, o, h, x, f, BeforeAnswer
  <1>8. Seam(u, z)
    <2> HIDE DEF u, z
    <2> QED BY <1>6, PartsSeam
  <1> HIDE DEF u, z
  <1> QED BY <1>5, <1>7, <1>8 DEF GoesOn, u

-----------------------------------------------------------------------------
(* The tokens of an answer, and its labels.                                *)

\* The tokens that the answer at turn k changes or adds.
NewAt(t, messages, k) ==
    LET before == BeforeAnswer(t, messages, k)
        read == Tokens(before \o messages[k].content)
    IN  FirstNew(Tokens(before), read) .. Len(read)

\* They are the tokens of the whole conversation that hold a part of the answer.
LEMMA AnswerPlace ==
    ASSUME NEW t \in Template, NEW messages \in Seq(Message),
           NEW k \in 1 .. Len(messages), Delimited(t), RendersAlike(t, messages, k)
    PROVE  LET ids == Tokens(Render(t, messages))
           IN  /\ AnswerTokens(t, messages, k, ids) = NewAt(t, messages, k)
               /\ NewAt(t, messages, k) \subseteq 1 .. Len(ids)
  <1> DEFINE b == BeforeAnswer(t, messages, k)
             x == messages[k].content
             us == Tokens(b \o x)
             ts == Tokens(b)
             ids == Tokens(Render(t, messages))
             from == Len(Opening(t, messages, k - 1)) + Len(t.head)
             B == Len(Body(t, messages, k))
  <1>1. b \in Seq(Characters) /\ x \in Seq(Characters)
    BY TurnRendering DEF Text
  <1>2. PICK z \in Text : Render(t, messages) = (b \o x) \o z /\ Seam(b \o x, z)
    <2>1. GoesOn(Render(t, messages), b \o x)
      BY WholeRendering
    <2> QED BY <2>1 DEF GoesOn
  <1>3. from = Len(b) /\ B = Len(x)
    <2>1. Len(Opening(t, messages, k - 1)) = Len(Opening(t, Turn(messages, k), k - 1))
          /\ B = Len(x)
      BY AlikePlaces
    <2>2. Opening(t, Turn(messages, k), k - 1) \in Text /\ t.head \in Text
      <3>1. Turn(messages, k) \in Seq(Message) /\ k \in 1 .. Len(Turn(messages, k))
        BY TurnType DEF Turn
      <3> QED BY <3>1, OpeningParts
    <2>3. Len(b) = Len(Opening(t, Turn(messages, k), k - 1)) + Len(t.head)
      BY <2>2 DEF BeforeAnswer, Text
    <2> QED BY <2>1, <2>3
  <1>4. z \in Seq(Characters)
    BY DEF Text
  <1>5. /\ Len(us) <= Len(ids)
        /\ {p \in DOMAIN ids : Covers(ids, p, Len(b) + 1, Len(b) + Len(x))}
               = FirstNew(ts, us) .. Len(us)
    <2> HIDE DEF b, x
    <2> QED BY <1>1, <1>2, <1>4, CoveringTokens
  <1>6. AnswerTokens(t, messages, k, ids) = FirstNew(ts, us) .. Len(us)
    <2>1. AnswerTokens(t, messages, k, ids)
             = {p \in DOMAIN ids : Covers(ids, p, from + 1, from + B)}
      BY DEF AnswerTokens
    <2> HIDE DEF from, B, b, x, us, ts, ids
    <2> QED BY <2>1, <1>3, <1>5
  <1>7. us \in Seq(Seq(Characters)) /\ ts \in Seq(Seq(Characters)) /\ Continues(x, ts, us)
    <2> HIDE DEF b, x
    <2>1. b \o x \in Seq(Characters)
      BY <1>1
    <2> QED BY <2>1, <1>1, TokensType, TokensContinue
  <1>8. FirstNew(ts, us) \in Nat /\ FirstNew(ts, us) > 0
    <2> HIDE DEF us, ts, x
    <2>1. Len(ts) \in Nat
      BY <1>7
    <2> QED BY <2>1 DEF FirstNew
  <1>9. FirstNew(ts, us) .. Len(us) \subseteq 1 .. Len(ids)
    <2>1. ids \in Seq(Seq(Characters))
      <3>1. Render(t, messages) \in Seq(Characters)
        BY RenderType DEF Text
      <3> QED BY <3>1, TokensType
    <2> HIDE DEF us, ts, ids
    <2>2. Len(us) \in Nat /\ Len(ids) \in Nat
      BY <1>7, <2>1
    <2> QED BY <2>2, <1>5, <1>8
  <1> QED BY <1>6, <1>9 DEF NewAt

\* What the diff finds for the answer at turn k.
SpanAt(t, messages, k) ==
    DiffSpan(Tokens(Render(t, [Turn(messages, k) EXCEPT ![k].content = Dummy])),
             Tokens(Render(t, Turn(messages, k))))

\* The diff finds some of them, and all if the answer is unlike the dummy.
LEMMA SpanPlace ==
    ASSUME NEW t \in Template, NEW messages \in Seq(Message),
           NEW k \in 1 .. Len(messages), Delimited(t)
    PROVE  /\ SpanAt(t, messages, k) \subseteq NewAt(t, messages, k)
           /\ messages[k].content # <<>> /\ ~ LikeDummy(messages[k].content)
              => SpanAt(t, messages, k) = NewAt(t, messages, k)
  <1> DEFINE b == BeforeAnswer(t, messages, k)
             x == messages[k].content
             y == t.foot \o t.tail
             T == Seq(Alphabet)
  <1>1. /\ b \in Text /\ y \in Text /\ x \in Text
        /\ Render(t, Turn(messages, k)) = (b \o x) \o y
        /\ Render(t, [Turn(messages, k) EXCEPT ![k].content = Dummy]) = (b \o Dummy) \o y
    BY TurnRendering
  <1>2. b \in T /\ y \in T /\ x \in T /\ Dummy \in T /\ Dummy # <<>>
    BY <1>1, DummyFacts
  <1>3. y # <<>> => Parts(y[1])
    BY DEF Delimited
  <1>4. Seam(b \o Dummy, y) /\ Seam(b \o x, y)
    <2> HIDE DEF b, x, y
    <2> QED BY <1>3, PartsSeam
  <1>5. Seam(b, Dummy)
    <2> DEFINE o == Opening(t, Turn(messages, k), k - 1)
               h == t.head
    <2>1. o \in Seq(Characters) /\ h \in Seq(Characters)
      <3>1. Turn(messages, k) \in Seq(Message) /\ k \in 1 .. Len(Turn(messages, k))
        BY TurnType DEF Turn
      <3> QED BY <3>1, OpeningParts DEF Text
    <2>2. h # <<>> /\ ~ Joined(h[Len(h)], Dummy[1])
      BY DEF Delimited
    <2>3. b = o \o h
      BY DEF BeforeAnswer
    <2> HIDE DEF o, h, b
    <2>4. b[Len(b)] = h[Len(h)]
      BY <2>1, <2>2, <2>3
    <2> QED BY <2>2, <2>4 DEF Seam
  <1> DEFINE us == Tokens(b \o x)
             answer == FirstNew(Tokens(b), us) .. Len(us)
             span == DiffSpan(Tokens((b \o Dummy) \o y), Tokens((b \o x) \o y))
  <1>6. /\ span \subseteq answer
        /\ x # <<>> /\ x[1] # Dummy[1] /\ x[Len(x)] # Dummy[Len(Dummy)] => span = answer
    <2> HIDE DEF b, x, y
    <2> QED BY <1>2, <1>4, <1>5, DiffFindsAnswer
  <1>7. x # <<>> /\ ~ LikeDummy(x) => x[1] # Dummy[1] /\ x[Len(x)] # Dummy[Len(Dummy)]
    <2> HIDE DEF x
    <2>1. x # <<>> => Head(x) = x[1] /\ Last(x) = x[Len(x)]
      BY <1>1 DEF Last, Text
    <2> QED BY <2>1, DummyFacts DEF LikeDummy
  <1>8. span = SpanAt(t, messages, k) /\ answer = NewAt(t, messages, k)
    <2>1. span = SpanAt(t, messages, k)
      BY <1>1 DEF SpanAt
    <2>2. answer = NewAt(t, messages, k)
      BY DEF NewAt
    <2> QED BY <2>1, <2>2
  <1> HIDE DEF span, answer, x
  <1> QED BY <1>6, <1>7, <1>8 DEF x

\* An answer with text changes or adds a token.
LEMMA NewIsThere ==
    ASSUME NEW t \in Template, NEW messages \in Seq(Message),
           NEW k \in 1 .. Len(messages), messages[k].content # <<>>
    PROVE  NewAt(t, messages, k) # {}
  <1> DEFINE b == BeforeAnswer(t, messages, k)
             x == messages[k].content
             us == Tokens(b \o x)
             ts == Tokens(b)
  <1>1. b \in Seq(Characters) /\ x \in Seq(Characters)
    BY TurnRendering DEF Text
  <1>2. us \in Seq(Seq(Characters)) /\ ts \in Seq(Seq(Characters)) /\ Continues(x, ts, us)
    <2> HIDE DEF b, x
    <2>1. b \o x \in Seq(Characters)
      BY <1>1
    <2> QED BY <2>1, <1>1, TokensType, TokensContinue
  <1>3. FirstNew(ts, us) \in {Len(ts), Len(ts) + 1} /\ FirstNew(ts, us) <= Len(us)
    <2> HIDE DEF us, ts, x
    <2>1. x # <<>>
      BY DEF x
    <2> QED BY <2>1, <1>1, <1>2, NewTokens
  <1>4. Len(us) \in FirstNew(ts, us) .. Len(us)
    <2> HIDE DEF us, ts
    <2>1. Len(us) \in Nat /\ Len(ts) \in Nat
      BY <1>2
    <2> QED BY <2>1, <1>3
  <1> QED BY <1>4 DEF NewAt

\* The stop of an answer that ends at position end.
LEMMA StopNearby ==
    ASSUME NEW n \in Nat, NEW ids, Len(ids) = n, DOMAIN ids = 1 .. n, NEW end \in 1 .. n
    PROVE  /\ NearbyEos(ids, end) \subseteq
                  {p \in DOMAIN ids : ids[p] = Eos /\ p - end \in 1 .. 4}
           /\ end + 1 \in DOMAIN ids /\ ids[end + 1] = Eos
              => end + 1 \in NearbyEos(ids, end)
  <1> DEFINE last == LesserOf(end + 4, Len(ids))
             found == {p \in end + 1 .. last : ids[p] = Eos}
  <1>1. last \in Nat /\ last <= n /\ last <= end + 4
        /\ (end + 1 <= n => end + 1 <= last)
    BY DEF LesserOf
  <1>2. NearbyEos(ids, end) = IF found = {} THEN {} ELSE {Min(found)}
    BY DEF NearbyEos
  <1> HIDE DEF last
  <1>3. found \subseteq Nat
        /\ \A p \in found : p \in 1 .. n /\ ids[p] = Eos /\ p - end \in 1 .. 4 /\ p >= end + 1
    BY <1>1
  <1>4. end + 1 \in 1 .. n /\ ids[end + 1] = Eos => end + 1 \in found
    BY <1>1
  <1> HIDE DEF found
  <1>5. CASE found = {}
    BY <1>2, <1>4, <1>5
  <1>6. CASE found # {}
    <2>1. Min(found) \in found /\ \A y \in found : Min(found) =< y
      BY <1>3, <1>6, MinOfNaturals
    <2>2. NearbyEos(ids, end) = {Min(found)}
      BY <1>2, <1>6
    <2>3. end + 1 \in found => Min(found) = end + 1
      <3> DEFINE m == Min(found)
      <3>1. m \in Nat /\ m >= end + 1
        BY <2>1, <1>3
      <3>2. end + 1 \in found => m =< end + 1
        BY <2>1
      <3> HIDE DEF m
      <3>3. end + 1 \in found => m = end + 1
        BY <3>1, <3>2
      <3> QED BY <3>3 DEF m
    <2> QED BY <1>3, <1>4, <2>1, <2>2, <2>3
  <1> QED BY <1>5, <1>6

\* The labels of a turn are in the answer or a stop after it, and cover both if
\* the diff finds the whole answer.
LEMMA TurnLabelsBound ==
    ASSUME NEW t, NEW messages, NEW k, NEW n \in Nat, NEW ids, Len(ids) = n,
           DOMAIN ids = 1 .. n, NEW answer, SpanAt(t, messages, k) \subseteq answer
    PROVE  /\ TurnLabels(t, messages, k, ids)
                  \subseteq answer \cup {p \in DOMAIN ids :
                                ids[p] = Eos /\ \E q \in answer : p - q \in 1 .. 4}
           /\ answer = SpanAt(t, messages, k) /\ answer # {} /\ answer \subseteq 1 .. n
              => /\ answer \subseteq TurnLabels(t, messages, k, ids)
                 /\ \A p \in DOMAIN ids :
                        ids[p] = Eos /\ p = Max(answer) + 1
                            => p \in TurnLabels(t, messages, k, ids)
  <1> DEFINE span == SpanAt(t, messages, k) \cap DOMAIN ids
             labels == TurnLabels(t, messages, k, ids)
  <1>1. labels = IF span = {} THEN {} ELSE span \cup NearbyEos(ids, Max(span))
    BY DEF TurnLabels, SpanAt, Turn
  <1>2. span \subseteq 1 .. n /\ span \subseteq answer
        /\ (answer = SpanAt(t, messages, k) /\ answer \subseteq 1 .. n => span = answer)
    OBVIOUS
  <1> HIDE DEF labels, span
  <1>3. CASE span = {}
    BY <1>1, <1>2, <1>3 DEF labels
  <1>4. CASE span # {}
    <2>1. Max(span) \in span
      BY <1>2, <1>4, MaxOfNumbers
    <2>2. Max(span) \in 1 .. n /\ Max(span) \in answer
      BY <1>2, <2>1
    <2>3. /\ NearbyEos(ids, Max(span)) \subseteq
                 {p \in DOMAIN ids : ids[p] = Eos /\ p - Max(span) \in 1 .. 4}
          /\ Max(span) + 1 \in DOMAIN ids /\ ids[Max(span) + 1] = Eos
             => Max(span) + 1 \in NearbyEos(ids, Max(span))
      BY <2>2, StopNearby
    <2>4. labels = span \cup NearbyEos(ids, Max(span))
      BY <1>1, <1>4
    <2> QED BY <1>2, <2>2, <2>3, <2>4 DEF labels
  <1> QED BY <1>3, <1>4

\* The labels of a conversation, whose every turn is labelled on its own.
Labelled(t, messages) ==
    LET ids == Tokens(Render(t, messages))
    IN  UNION {TurnLabels(t, messages, k, ids) : k \in AnswerTurns(messages)}

\* What a row of a conversation may label, and what it must.
LEMMA ChatLabels ==
    ASSUME NEW t \in Template, NEW messages \in Seq(Message), Delimited(t),
           Steady(t, messages)
    PROVE  LET ids == Tokens(Render(t, messages))
               answers == UNION {AnswerTokens(t, messages, k, ids) :
                                     k \in AnswerTurns(messages)}
           IN  /\ Labelled(t, messages) \subseteq answers \cup
                      {p \in DOMAIN ids : ids[p] = Eos /\ \E q \in answers : p - q \in 1 .. 4}
               /\ \A k \in AnswerTurns(messages) :
                      LET answer == AnswerTokens(t, messages, k, ids) IN
                      messages[k].content # <<>> /\ ~ LikeDummy(messages[k].content)
                      => /\ answer # {} /\ answer \subseteq Labelled(t, messages)
                         /\ \A p \in DOMAIN ids :
                                ids[p] = Eos /\ p = Max(answer) + 1
                                    => p \in Labelled(t, messages)
  <1> DEFINE ids == Tokens(Render(t, messages))
             answer(k) == AnswerTokens(t, messages, k, ids)
             answers == UNION {answer(k) : k \in AnswerTurns(messages)}
             labels(k) == TurnLabels(t, messages, k, ids)
  <1>1. ids \in Seq(Seq(Characters)) /\ Len(ids) \in Nat /\ DOMAIN ids = 1 .. Len(ids)
    <2>1. Render(t, messages) \in Seq(Characters)
      BY RenderType DEF Text
    <2>2. ids \in Seq(Seq(Characters))
      BY <2>1, TokensType
    <2> HIDE DEF ids
    <2> QED BY <2>2
  <1>2. ASSUME NEW k \in AnswerTurns(messages)
        PROVE  /\ labels(k) \subseteq answer(k) \cup {p \in DOMAIN ids :
                       ids[p] = Eos /\ \E q \in answer(k) : p - q \in 1 .. 4}
               /\ messages[k].content # <<>> /\ ~ LikeDummy(messages[k].content)
                  => /\ answer(k) # {} /\ answer(k) \subseteq labels(k)
                     /\ \A p \in DOMAIN ids :
                            ids[p] = Eos /\ p = Max(answer(k)) + 1 => p \in labels(k)
    <2>1. k \in 1 .. Len(messages) /\ RendersAlike(t, messages, k)
      <3>1. DOMAIN messages = 1 .. Len(messages)
        OBVIOUS
      <3> QED BY <3>1 DEF AnswerTurns, Steady
    <2>2. answer(k) = NewAt(t, messages, k) /\ answer(k) \subseteq 1 .. Len(ids)
      BY <2>1, AnswerPlace
    <2>3. /\ SpanAt(t, messages, k) \subseteq answer(k)
          /\ messages[k].content # <<>> /\ ~ LikeDummy(messages[k].content)
             => SpanAt(t, messages, k) = answer(k)
      BY <2>1, <2>2, SpanPlace
    <2>4. messages[k].content # <<>> => answer(k) # {}
      BY <2>1, <2>2, NewIsThere
    <2>5. /\ labels(k) \subseteq answer(k) \cup {p \in DOMAIN ids :
                 ids[p] = Eos /\ \E q \in answer(k) : p - q \in 1 .. 4}
          /\ answer(k) = SpanAt(t, messages, k) /\ answer(k) # {}
             /\ answer(k) \subseteq 1 .. Len(ids)
             => /\ answer(k) \subseteq labels(k)
                /\ \A p \in DOMAIN ids :
                       ids[p] = Eos /\ p = Max(answer(k)) + 1 => p \in labels(k)
      <3> HIDE DEF ids, answer
      <3> QED BY <1>1, <2>3, TurnLabelsBound
    <2> HIDE DEF ids, answer, labels
    <2> QED BY <2>2, <2>3, <2>4, <2>5
  <1>3. Labelled(t, messages) = UNION {labels(k) : k \in AnswerTurns(messages)}
    BY DEF Labelled
  <1> SUFFICES /\ Labelled(t, messages) \subseteq answers \cup
                      {p \in DOMAIN ids : ids[p] = Eos /\ \E q \in answers : p - q \in 1 .. 4}
               /\ \A k \in AnswerTurns(messages) :
                      messages[k].content # <<>> /\ ~ LikeDummy(messages[k].content)
                      => /\ answer(k) # {} /\ answer(k) \subseteq Labelled(t, messages)
                         /\ \A p \in DOMAIN ids :
                                ids[p] = Eos /\ p = Max(answer(k)) + 1
                                    => p \in Labelled(t, messages)
    OBVIOUS
  <1> HIDE DEF ids, answer, labels
  <1>4. ASSUME NEW p \in Labelled(t, messages)
        PROVE  p \in answers \cup
                   {r \in DOMAIN ids : ids[r] = Eos /\ \E q \in answers : r - q \in 1 .. 4}
    <2>1. PICK k \in AnswerTurns(messages) : p \in labels(k)
      BY <1>3
    <2>2. answer(k) \subseteq answers
      OBVIOUS
    <2> HIDE DEF answers
    <2> QED BY <2>1, <2>2, <1>2
  <1>5. ASSUME NEW k \in AnswerTurns(messages) PROVE labels(k) \subseteq Labelled(t, messages)
    BY <1>3
  <1> QED BY <1>2, <1>4, <1>5

\* Instruct: only the completion and its EOS are labelled, and all of them are.
LEMMA InstructLabels ==
    ASSUME NEW example \in [prompt : Text, completion : Text], NEW cap \in Nat
    PROVE  LET prompt == Tokens(example.prompt)
               completion == Tokens(example.completion)
               rows == InstructRows(example, cap)
           IN  /\ \A row \in Range(rows) : \A p \in row.labels : p > 1 + Len(prompt)
               /\ Len(prompt \o completion) + 2 <= cap
                  => /\ rows # <<>>
                     /\ Cardinality(rows[1].labels) = Len(completion) + 1
  <1> DEFINE a == Tokens(example.prompt)
             b == Tokens(example.completion)
             bos == Bos
             eos == Eos
             rows == InstructRows(example, cap)
             ids == <<bos>> \o a \o b \o <<eos>>
  <1>1. a \in Seq(Text) /\ b \in Seq(Text) /\ bos \in Text /\ eos \in Text
    <2>1. a \in Seq(Text) /\ b \in Seq(Text)
      BY TokensType DEF Text
    <2> QED BY <2>1, SpecialTokens
  <1>2. /\ \A row \in Range(rows) : row.ids = ids /\ row.labels = Len(a) + 2 .. Len(row.ids)
        /\ Len(a \o b) + 2 <= cap => rows # <<>>
    BY InstructWhole
  <1>3. rows # <<>> => rows[1] \in Range(rows)
    <2>1. ASSUME NEW row PROVE <<row>>[1] \in Range(<<row>>)
      <3> DEFINE s == <<row>>
      <3>1. 1 \in DOMAIN s
        OBVIOUS
      <3> HIDE DEF s
      <3>2. s[1] \in Range(s)
        BY <3>1 DEF Range
      <3> QED BY <3>2 DEF s
    <2> DEFINE row == [ids |-> ids, labels |-> Len(<<bos>> \o a) + 1 .. Len(ids)]
    <2>2. rows = IF Len(ids) > cap THEN <<>> ELSE <<row>>
      BY DEF InstructRows
    <2>3. <<row>>[1] \in Range(<<row>>)
      BY <2>1
    <2> HIDE DEF row, rows, ids
    <2> QED BY <2>2, <2>3
  <1> SUFFICES /\ \A row \in Range(rows) : \A p \in row.labels : p > 1 + Len(a)
               /\ Len(a \o b) + 2 <= cap
                  => /\ rows # <<>>
                     /\ Cardinality(rows[1].labels) = Len(b) + 1
    OBVIOUS
  <1> HIDE DEF rows, a, b, bos, eos
  <1>4. Len(ids) = Len(a) + Len(b) + 2 /\ Len(a) \in Nat /\ Len(b) \in Nat
    BY <1>1
  <1> HIDE DEF ids
  <1>5. \A row \in Range(rows) : \A p \in row.labels : p > 1 + Len(a)
    <2>1. \A p \in Len(a) + 2 .. Len(ids) : p > 1 + Len(a)
      BY <1>4
    <2> QED BY <2>1, <1>2
  <1>6. Cardinality(Len(a) + 2 .. Len(ids)) = Len(b) + 1
    <2>1. Len(a) + 2 \in Int /\ Len(ids) \in Int /\ ~ (Len(a) + 2 > Len(ids))
          /\ Len(ids) - (Len(a) + 2) + 1 = Len(b) + 1
      BY <1>4
    <2> QED BY <2>1, FS_Interval
  <1> QED BY <1>2, <1>3, <1>5, <1>6

\* The row of a conversation has its labels, and is there if it fits and has any.
LEMMA ChatRowLabels ==
    ASSUME NEW t \in Template, NEW messages \in Seq(Message), NEW cap \in Nat
    PROVE  LET ids == Tokens(Render(t, messages))
               rows == ChatRows(t, messages, cap)
           IN  /\ \A row \in Range(rows) : row.ids = ids /\ row.labels = Labelled(t, messages)
               /\ Len(ids) <= cap /\ Labelled(t, messages) # {}
                  => rows # <<>> /\ rows[1].labels = Labelled(t, messages)
  <1> DEFINE ids == Tokens(Render(t, messages))
             labels == Labelled(t, messages)
             row == [ids |-> ids, labels |-> labels]
             rows == ChatRows(t, messages, cap)
  <1>1. rows = IF Len(ids) > cap \/ labels = {} THEN <<>> ELSE <<row>>
    BY DEF ChatRows, Labelled
  <1>2. Len(ids) \in Nat
    <2>1. Render(t, messages) \in Seq(Characters)
      BY RenderType DEF Text
    <2>2. ids \in Seq(Seq(Characters))
      BY <2>1, TokensType
    <2> HIDE DEF ids
    <2> QED BY <2>2
  <1>3. row.ids = ids /\ row.labels = labels
    OBVIOUS
  <1> SUFFICES /\ \A r \in Range(rows) : r.ids = ids /\ r.labels = labels
               /\ Len(ids) <= cap /\ labels # {}
                  => rows # <<>> /\ rows[1].labels = labels
    OBVIOUS
  <1> HIDE DEF ids, labels, row, rows
  <1>4. CASE Len(ids) > cap \/ labels = {}
    BY <1>1, <1>2, <1>4 DEF Range
  <1>5. CASE ~ (Len(ids) > cap \/ labels = {})
    <2>1. rows = <<row>>
      BY <1>1, <1>5
    <2>2. Range(rows) = {row} /\ rows # <<>> /\ rows[1] = row
      BY <2>1 DEF Range
    <2> QED BY <2>2, <1>3
  <1> QED BY <1>4, <1>5

-----------------------------------------------------------------------------
(* The caps the evaluator tries.                                           *)

\* The caps are positive, within the limit, and end with it.
LEMMA CandidatesReachLimit ==
    ASSUME NEW start \in Nat \ {0}, NEW cap \in Nat \ {0}
    PROVE  LET caps == Candidates(start, cap)
           IN  /\ caps \in Seq(1 .. cap) /\ Len(caps) \in Nat \ {0}
               /\ caps[Len(caps)] = cap
  <1> DEFINE first == LesserOf(start, cap)
             T == 1 .. cap
             Double(x) == LesserOf(2 * x, cap)
             g == [k \in Nat |-> [x \in T |-> Double(x)]]
             current[k \in Nat] ==
                 IF k = 0 THEN first ELSE LesserOf(2 * current[k - 1], cap)
             reached == {k \in 0 .. cap : current[k] >= cap}
             last == Min(reached)
             caps == Candidates(start, cap)
  <1>1. first \in T
    BY DEF LesserOf
  <1>2. \A x \in T : /\ Double(x) \in T
                     /\ Double(x) = cap \/ Double(x) >= x + 1
                     /\ x = cap => Double(x) = cap
    BY DEF LesserOf
  <1> HIDE DEF Double, first
  <1>3. g \in [Nat -> [T -> T]] /\ \A k \in Nat, x \in T : g[k][x] = Double(x)
    BY <1>2
  <1> HIDE DEF g, T
  <1>4. PICK f : Iterates(T, first, g, f)
    BY <1>1, <1>3, Iteration
  <1>5. /\ f \in [Nat -> T] /\ f[0] = first
        /\ \A k \in Nat \ {0} : f[k] = Double(f[k - 1])
    BY <1>3, <1>4 DEF Iterates
  <1>6. f = [k \in Nat |-> IF k = 0 THEN first ELSE LesserOf(2 * f[k - 1], cap)]
    BY <1>5 DEF Double
  <1>7. current = [k \in Nat |-> IF k = 0 THEN first ELSE LesserOf(2 * current[k - 1], cap)]
    BY <1>6 DEF current
  <1> HIDE DEF current
  <1>8. ASSUME NEW n \in Nat PROVE current[n] = f[n]
    <2> DEFINE P == {k \in 0 .. n : current[k] = f[k]}
    <2>1. 0 \in P
      BY <1>5, <1>7
    <2>2. ASSUME NEW k \in 1 .. n, k - 1 \in P PROVE k \in P
      <3>1. k \in Nat /\ k # 0 /\ k \in 0 .. n
        OBVIOUS
      <3>2. current[k] = LesserOf(2 * current[k - 1], cap)
        BY <1>7, <3>1
      <3>3. f[k] = LesserOf(2 * f[k - 1], cap)
        BY <1>6, <3>1
      <3> QED BY <2>2, <3>1, <3>2, <3>3
    <2>3. \A k \in 1 .. n : k - 1 \in P => k \in P
      BY <2>2
    <2>4. \A k \in 0 .. n : k \in P
      <3> HIDE DEF P
      <3> QED BY <2>1, <2>3, Induction
    <2> QED BY <2>4
  <1>9. f[cap] >= cap
    <2> DEFINE P == {k \in 0 .. cap : f[k] = cap \/ f[k] >= k + 1}
    <2>1. 0 \in P
      BY <1>1, <1>5 DEF T
    <2>2. ASSUME NEW k \in 1 .. cap, k - 1 \in P PROVE k \in P
      <3>1. k \in Nat \ {0} /\ k - 1 \in Nat /\ k \in 0 .. cap
        OBVIOUS
      <3>2. f[k - 1] \in T /\ f[k] = Double(f[k - 1])
        BY <1>5, <3>1
      <3>3. f[k - 1] = cap \/ f[k - 1] >= k
        BY <2>2
      <3>4. f[k] = cap \/ f[k] >= f[k - 1] + 1
        BY <1>2, <3>2
      <3>5. f[k - 1] = cap => f[k] = cap
        BY <1>2, <3>2
      <3>6. f[k - 1] \in Nat /\ f[k] \in Nat
        BY <3>1, <1>5 DEF T
      <3>7. f[k] = cap \/ f[k] >= k + 1
        BY <3>3, <3>4, <3>5, <3>6
      <3> QED BY <3>1, <3>7
    <2>3. \A k \in 1 .. cap : k - 1 \in P => k \in P
      BY <2>2
    <2>4. \A k \in 0 .. cap : k \in P
      <3> HIDE DEF P
      <3> QED BY <2>1, <2>3, Induction
    <2>5. cap \in P
      BY <2>4
    <2>6. f[cap] \in Nat
      BY <1>5 DEF T
    <2> QED BY <2>5, <2>6
  <1>10. last \in 0 .. cap /\ current[last] >= cap
    <2>1. current[cap] >= cap
      BY <1>8, <1>9
    <2>2. reached # {} /\ reached \subseteq Nat
      BY <2>1
    <2>3. last \in reached
      <3> HIDE DEF reached
      <3> QED BY <2>2, MinOfNaturals
    <2> HIDE DEF last
    <2> QED BY <2>3
  <1>11. caps = [k \in 1 .. last + 1 |-> current[k - 1]]
    BY DEF Candidates, current, first
  <1> HIDE DEF caps, last
  <1>12. last \in Nat
    BY <1>10
  <1>13. \A k \in 1 .. last + 1 : current[k - 1] \in T
    BY <1>5, <1>8, <1>12
  <1>14. caps \in Seq(T) /\ Len(caps) = last + 1
    BY <1>11, <1>12, <1>13
  <1>15. caps[last + 1] = current[last]
    BY <1>11, <1>12
  <1>16. current[last] = cap
    <2>1. current[last] \in T
      BY <1>5, <1>8, <1>12
    <2> QED BY <2>1, <1>10 DEF T
  <1> QED BY <1>12, <1>14, <1>15, <1>16 DEF caps, T

\* The ladder of a run: the caps it tries.
LEMMA LadderReachesLimit ==
    ASSUME limit \in Limits
    PROVE  /\ Ladder \in Seq(Nat \ {0}) /\ Len(Ladder) \in Nat \ {0}
           /\ Ladder[Len(Ladder)] = LesserOf(limit.positions, limit.tokenizer)
  <1> DEFINE start == EffectiveStart(limit.positions, Requested)
             cap == LesserOf(limit.positions, limit.tokenizer)
             caps == Candidates(start, cap)
  <1>1. limit.positions \in Nat \ {0} /\ limit.tokenizer \in Nat \ {0}
    BY DataViewAssumption
  <1>2. start \in Nat \ {0}
    <2> DEFINE p == limit.positions
    <2>1. (p + 1) \div 2 \in Nat \ {0}
      BY <1>1
    <2> HIDE DEF p
    <2>2. LesserOf(Requested, IF p < 2 * EvaluatorCap THEN (p + 1) \div 2 ELSE EvaluatorCap)
              \in Nat \ {0}
      BY <2>1, DataViewAssumption, TokenizeAssumption DEF LesserOf
    <2> QED BY <2>2 DEF EffectiveStart, p
  <1>3. cap \in Nat \ {0}
    BY <1>1 DEF LesserOf
  <1>4. Ladder = caps
    BY DEF Ladder
  <1> HIDE DEF start, cap
  <1>5. caps \in Seq(1 .. cap) /\ Len(caps) \in Nat \ {0} /\ caps[Len(caps)] = cap
    BY <1>2, <1>3, CandidatesReachLimit
  <1> HIDE DEF caps
  <1>6. caps \in Seq(Nat \ {0})
    BY <1>3, <1>5
  <1> QED BY <1>4, <1>5, <1>6 DEF cap

-----------------------------------------------------------------------------
(* The views of a run.                                                     *)

\* A view is made of the items of the task, at a positive cap; no candidate up
\* to the one in hand had rows before one is taken.
Inv ==
    /\ task \in Tasks /\ limit \in Limits /\ tried \in 0 .. Len(Ladder)
    /\ view = NoView \/ \E cap \in Nat \ {0} : view = MakeView(cap)
    /\ status \in {"searching", "in use", "raised"}
    /\ status \in {"searching", "raised"} =>
          \A k \in 1 .. tried : ~ HasRows(MakeView(Ladder[k]))
    /\ status = "raised" => tried = Len(Ladder)

LEMMA InvInit == Init => Inv
  <1> SUFFICES ASSUME Init PROVE Inv
    OBVIOUS
  <1>1. limit \in Limits /\ tried = 0 /\ status = "searching" /\ task \in Tasks
        /\ view = NoView
    BY DEF Init
  <1>2. Len(Ladder) \in Nat
    BY <1>1, LadderReachesLimit
  <1>3. tried \in 0 .. Len(Ladder) /\ 1 .. tried = {}
    BY <1>1, <1>2
  <1> QED BY <1>1, <1>3 DEF Inv

\* A step makes no other views and tries no other caps than the task and the
\* limits give.
LEMMA SameTask ==
    ASSUME UNCHANGED <<task, limit>>
    PROVE  /\ \A cap : MakeView(cap)' = MakeView(cap)
           /\ \A v : HasRows(v)' = HasRows(v)
           /\ Ladder' = Ladder
  <1>1. task' = task /\ limit' = limit
    OBVIOUS
  <1>2. \A item, cap : RowsOf(item, cap)' = RowsOf(item, cap)
    BY <1>1, Zenon DEF RowsOf
  <1>3. \A cap : MakeView(cap)' = MakeView(cap)
    BY <1>1, <1>2, Zenon DEF MakeView
  <1>4. Ladder' = Ladder
    BY <1>1, Zenon DEF Ladder
  <1> QED BY <1>3, <1>4

LEMMA InvStep == Inv /\ [Next]_vars => Inv'
  <1> SUFFICES ASSUME Inv, [Next]_vars PROVE Inv'
    OBVIOUS
  <1>0. limit \in Limits /\ Len(Ladder) \in Nat /\ Ladder \in Seq(Nat \ {0})
        /\ tried \in 0 .. Len(Ladder)
    BY LadderReachesLimit DEF Inv
  <1>1. CASE SkipCandidate
    <2>1. UNCHANGED <<task, limit>> /\ tried' = tried + 1 /\ tried < Len(Ladder)
          /\ view' = view /\ status' = status /\ status = "searching"
          /\ ~ HasRows(MakeView(Ladder[tried + 1]))
      BY <1>1 DEF SkipCandidate
    <2>2. /\ \A cap : MakeView(cap)' = MakeView(cap)
          /\ Ladder' = Ladder
      BY <2>1, SameTask
    <2>3. tried' \in 0 .. Len(Ladder)
      BY <1>0, <2>1
    <2>4. ASSUME NEW k \in 1 .. tried' PROVE ~ HasRows(MakeView(Ladder[k]))
      <3>1. k \in 1 .. tried \/ k = tried + 1
        BY <1>0, <2>1
      <3> QED BY <3>1, <2>1 DEF Inv
    <2> QED BY <2>1, <2>2, <2>3, <2>4 DEF Inv, NoView, HasRows
  <1>2. CASE TakeCandidate
    <2>1. UNCHANGED <<task, limit>> /\ tried' = tried + 1 /\ tried < Len(Ladder)
          /\ view' = MakeView(Ladder[tried + 1]) /\ status' = "in use"
      BY <1>2 DEF TakeCandidate
    <2>2. /\ \A cap : MakeView(cap)' = MakeView(cap)
          /\ Ladder' = Ladder
      BY <2>1, SameTask
    <2>3. tried' \in 0 .. Len(Ladder) /\ tried + 1 \in 1 .. Len(Ladder)
      <3> DEFINE n == Len(Ladder)
      <3>1. n \in Nat /\ tried \in 0 .. n /\ tried < n /\ tried' = tried + 1
        BY <1>0, <2>1
      <3> HIDE DEF n
      <3>2. tried' \in 0 .. n /\ tried + 1 \in 1 .. n
        BY <3>1
      <3> QED BY <3>2 DEF n
    <2>4. Ladder[tried + 1] \in Nat \ {0}
      <3> DEFINE caps == Ladder
      <3> HIDE DEF caps
      <3>1. caps \in Seq(Nat \ {0}) /\ tried + 1 \in 1 .. Len(caps)
        BY <1>0, <2>3 DEF caps
      <3>2. caps[tried + 1] \in Nat \ {0}
        BY <3>1
      <3> QED BY <3>2 DEF caps
    <2> QED BY <2>1, <2>2, <2>3, <2>4 DEF Inv, NoView, HasRows
  <1>3. CASE NoTrainable
    <2>1. UNCHANGED <<task, limit, tried, view>> /\ status' = "raised"
          /\ status = "searching" /\ tried = Len(Ladder)
      BY <1>3 DEF NoTrainable
    <2>2. /\ \A cap : MakeView(cap)' = MakeView(cap)
          /\ Ladder' = Ladder
      BY <2>1, SameTask
    <2> QED BY <2>1, <2>2 DEF Inv, NoView, HasRows
  <1>4. ASSUME NEW cap \in ReducedCaps, Reduce(cap) PROVE Inv'
    <2>1. UNCHANGED <<task, limit, tried, status>> /\ view' = MakeView(cap)
          /\ status = "in use"
      BY <1>4 DEF Reduce
    <2>2. cap \in Nat \ {0}
      BY DataViewAssumption
    <2>3. /\ \A c : MakeView(c)' = MakeView(c)
          /\ Ladder' = Ladder
      BY <2>1, SameTask
    <2> QED BY <2>1, <2>2, <2>3 DEF Inv, NoView, HasRows
  <1>5. CASE Settled \/ UNCHANGED vars
    <2>1. UNCHANGED <<task, limit, tried, view, status>>
      BY <1>5 DEF Settled, vars
    <2>2. /\ \A cap : MakeView(cap)' = MakeView(cap)
          /\ Ladder' = Ladder
      BY <2>1, SameTask
    <2> QED BY <2>1, <2>2 DEF Inv, NoView, HasRows
  <1> QED BY <1>1, <1>2, <1>3, <1>4, <1>5 DEF Next

LEMMA InvHolds == Spec => []Inv
  BY InvInit, InvStep, PTL DEF Spec

\* What the rows of a view are, item by item.
LEMMA ViewIsWhole ==
    ASSUME task \in Tasks, NEW cap \in Nat \ {0}, view = MakeView(cap)
    PROVE  RowsAreWhole
  <1>1. /\ view.cap = cap /\ DOMAIN view.rows = DOMAIN task.items
        /\ \A i \in DOMAIN task.items : view.rows[i] = RowsOf(task.items[i], cap)
    BY DEF MakeView
  <1>2. CASE /\ task.kind = "chat" /\ task.template \in Template
             /\ task.items \in Seq(Seq(Message))
    <2>1. ASSUME NEW i \in DOMAIN task.items
          PROVE  \A row \in Range(view.rows[i]) :
                    /\ row.ids = Tokens(Render(task.template, task.items[i]))
                    /\ Len(row.ids) <= cap
      <3>1. task.items[i] \in Seq(Message) /\ cap \in Nat
        BY <1>2
      <3>2. view.rows[i] = ChatRows(task.template, task.items[i], cap)
        BY <1>1, <1>2 DEF RowsOf
      <3> QED BY <3>1, <3>2, <1>2, ChatWhole
    <2> QED BY <1>1, <1>2, <2>1 DEF RowsAreWhole
  <1>3. CASE /\ task.kind = "instruct"
             /\ task.items \in Seq([prompt : Text, completion : Text])
    <2>1. ASSUME NEW i \in DOMAIN task.items
          PROVE  \A row \in Range(view.rows[i]) :
                    /\ row.ids = <<Bos>> \o Tokens(task.items[i].prompt)
                                      \o Tokens(task.items[i].completion) \o <<Eos>>
                    /\ Len(row.ids) <= cap
      <3>1. task.items[i] \in [prompt : Text, completion : Text] /\ cap \in Nat
        <4> DEFINE Example == [prompt : Text, completion : Text]
        <4> HIDE DEF Example
        <4>1. task.items \in Seq(Example)
          BY <1>3 DEF Example
        <4>2. task.items[i] \in Example
          BY <4>1
        <4> QED BY <4>2 DEF Example
      <3>2. view.rows[i] = InstructRows(task.items[i], cap)
        BY <1>1, <1>3 DEF RowsOf
      <3> QED BY <3>1, <3>2, InstructWhole
    <2> QED BY <1>1, <1>3, <2>1 DEF RowsAreWhole
  <1>4. CASE task.kind = "completion" /\ task.items \in Seq(Text)
    <2>1. ASSUME NEW i \in DOMAIN task.items
          PROVE  DocumentRows(task.items[i], cap, view.rows[i])
      <3>1. task.items[i] \in Text
        BY <1>4
      <3>2. view.rows[i] = CompletionRows(task.items[i], cap)
        BY <1>1, <1>4 DEF RowsOf
      <3>3. DocumentRows(task.items[i], cap, CompletionRows(task.items[i], cap))
        BY <3>1, CompletionWhole
      <3> QED BY <3>2, <3>3, Zenon
    <2>2. ASSUME NEW i \in DOMAIN task.items
          PROVE  LET item == task.items[i]
                     rows == view.rows[i]
                     joined == FlattenSeq([r \in DOMAIN rows |-> rows[r].ids])
                     text == <<Bos>> \o Tokens(item)
                     closed == IF item = <<>> THEN <<>>
                               ELSE IF Last(text) = Eos THEN text
                               ELSE Append(text, Eos)
                 IN  /\ \A row \in Range(rows) : Len(row.ids) <= view.cap
                     /\ joined = SubSeq(closed, 1, LesserOf(view.cap * DocFactor,
                                                           Len(closed)))
                     /\ Len(rows) <= DocFactor
                     /\ \A r \in DOMAIN rows :
                            /\ rows[r].labels = DOMAIN rows[r].ids
                            /\ r < Len(rows) => Len(rows[r].ids) = view.cap
      <3> DEFINE item == task.items[i]
                 rows == view.rows[i]
                 document == Document(item)
      <3>1. DocumentRows(item, cap, rows)
        BY <2>1
      <3>2. \A row \in Range(rows) : Len(row.ids) <= view.cap
        BY <1>1, <3>1 DEF DocumentRows, Range
      <3>3. \A r \in DOMAIN rows :
               /\ rows[r].labels = DOMAIN rows[r].ids
               /\ r < Len(rows) => Len(rows[r].ids) = cap
        BY <3>1, Zenon DEF DocumentRows
      <3>4. Len(rows) <= DocFactor
        BY <3>1, Zenon DEF DocumentRows
      <3>5. /\ item = <<>> =>
                  FlattenSeq([r \in DOMAIN rows |-> rows[r].ids]) =
                      SubSeq(<<>>, 1, LesserOf(cap * DocFactor, Len(<<>>)))
            /\ item # <<>> =>
                  FlattenSeq([r \in DOMAIN rows |-> rows[r].ids]) =
                      SubSeq(document, 1, LesserOf(cap * DocFactor, Len(document)))
        BY <3>1, Zenon DEF DocumentRows
      <3> HIDE DEF rows, item, document
      <3>6. CASE item = <<>>
        BY <1>1, <3>2, <3>3, <3>4, <3>5, <3>6, Zenon DEF rows, item
      <3>7. CASE item # <<>>
        BY <1>1, <3>2, <3>3, <3>4, <3>5, <3>7, Zenon DEF rows, item, document, Document
      <3> QED BY <3>6, <3>7
    <2> QED BY <1>1, <1>4, <2>2 DEF RowsAreWhole
  <1> QED BY <1>2, <1>3, <1>4, DataViewAssumption

\* No row exceeds the cap, no conversation or example is cut, and the rows of a
\* document are its tokens up to its limit, whichever cap the view was made for.
THEOREM WholeRows == Spec => []RowsAreWhole
  <1>1. Inv => RowsAreWhole
    <2> SUFFICES ASSUME Inv PROVE RowsAreWhole
      OBVIOUS
    <2>1. CASE view = NoView
      <3>1. DOMAIN view.rows = {}
        BY <2>1 DEF NoView
      <3> QED BY <3>1 DEF RowsAreWhole
    <2>2. CASE \E cap \in Nat \ {0} : view = MakeView(cap)
      BY <2>2, ViewIsWhole DEF Inv
    <2> QED BY <2>1, <2>2 DEF Inv
  <1> QED BY <1>1, InvHolds, PTL

\* The handler raises for want of rows only if the largest cap that model and
\* tokenizer accept gives none.
THEOREM EarnedFailure == Spec => []FailureIsEarned
  <1>1. Inv => FailureIsEarned
    <2> SUFFICES ASSUME Inv, status = "raised"
                 PROVE  ~ HasRows(MakeView(LesserOf(limit.positions, limit.tokenizer)))
      BY DEF FailureIsEarned
    <2>1. tried = Len(Ladder) /\ limit \in Limits
      BY DEF Inv
    <2>2. /\ Len(Ladder) \in Nat \ {0}
          /\ Ladder[Len(Ladder)] = LesserOf(limit.positions, limit.tokenizer)
      BY <2>1, LadderReachesLimit
    <2>3. Len(Ladder) \in 1 .. tried
      BY <2>1, <2>2
    <2>4. ~ HasRows(MakeView(Ladder[Len(Ladder)]))
      BY <2>3 DEF Inv
    <2> QED BY <2>2, <2>4
  <1> QED BY <1>1, InvHolds, PTL

-----------------------------------------------------------------------------
(* The labels of a view.                                                   *)

\* If the task is one of conversations, its template keeps the texts apart.
DelimitedTask == task.kind = "chat" => Delimited(task.template)

\* The task is of one of the three kinds, and its items are of that kind.
ChatTask == /\ task.kind = "chat" /\ task.template \in Template
            /\ task.items \in Seq(Seq(Message))
InstructTask == /\ task.kind = "instruct"
                /\ task.items \in Seq([prompt : Text, completion : Text])

\* The task is of one of the three kinds.
LEMMA TaskKinds ==
    ASSUME task \in Tasks
    PROVE  ChatTask \/ InstructTask \/ task.kind = "completion"
  BY DataViewAssumption, Zenon DEF ChatTask, InstructTask

\* What the rows of a view are made from.
LEMMA ViewItems ==
    ASSUME task \in Tasks, NEW cap \in Nat \ {0}, view = MakeView(cap),
           NEW i \in DOMAIN view.rows
    PROVE  /\ view.cap = cap /\ view.rows[i] = RowsOf(task.items[i], cap)
           /\ ChatTask => /\ task.items[i] \in Seq(Message)
                          /\ view.rows[i] = ChatRows(task.template, task.items[i], cap)
           /\ InstructTask =>
                  /\ task.items[i] \in [prompt : Text, completion : Text]
                  /\ view.rows[i] = InstructRows(task.items[i], cap)
  <1>1. /\ view.cap = cap /\ DOMAIN view.rows = DOMAIN task.items
        /\ \A j \in DOMAIN task.items : view.rows[j] = RowsOf(task.items[j], cap)
    BY DEF MakeView
  <1>2. ASSUME ChatTask PROVE task.items[i] \in Seq(Message)
    <2> DEFINE T == Seq(Message)
    <2>1. task.items \in Seq(T) /\ i \in DOMAIN task.items
      BY <1>1, <1>2 DEF ChatTask
    <2> HIDE DEF T
    <2>2. task.items[i] \in T
      BY <2>1
    <2> QED BY <2>2 DEF T
  <1>3. ASSUME InstructTask PROVE task.items[i] \in [prompt : Text, completion : Text]
    <2> DEFINE T == [prompt : Text, completion : Text]
    <2>1. task.items \in Seq(T) /\ i \in DOMAIN task.items
      BY <1>1, <1>3 DEF InstructTask
    <2> HIDE DEF T
    <2>2. task.items[i] \in T
      BY <2>1
    <2> QED BY <2>2 DEF T
  <1>4. /\ ChatTask => RowsOf(task.items[i], cap)
                           = ChatRows(task.template, task.items[i], cap)
        /\ InstructTask => RowsOf(task.items[i], cap) = InstructRows(task.items[i], cap)
    BY DEF RowsOf, ChatTask, InstructTask
  <1> QED BY <1>1, <1>2, <1>3, <1>4

\* Only answers carry loss in a view, at whichever cap it was made.
LEMMA ViewCarriesLoss ==
    ASSUME task \in Tasks, NEW cap \in Nat \ {0}, view = MakeView(cap), DelimitedTask
    PROVE  OnlyAnswersCarryLoss
  <1> SUFFICES ASSUME NEW i \in DOMAIN view.rows, NEW row \in Range(view.rows[i])
               PROVE  CASE task.kind = "chat" ->
                             LET item == task.items[i]
                                 answers == UNION {AnswerTokens(task.template, item, k, row.ids) :
                                                       k \in AnswerTurns(item)}
                                 stops == {p \in DOMAIN row.ids :
                                              row.ids[p] = Eos /\ \E q \in answers : p - q \in 1 .. 4}
                             IN  Steady(task.template, item)
                                     => row.labels \subseteq answers \cup stops
                       [] task.kind = "instruct" ->
                             \A p \in row.labels : p > 1 + Len(Tokens(task.items[i].prompt))
                       [] OTHER -> TRUE
    BY DEF OnlyAnswersCarryLoss
  <1>1. CASE ChatTask
    <2> DEFINE t == task.template
               item == task.items[i]
    <2>1. /\ t \in Template /\ item \in Seq(Message) /\ Delimited(t) /\ cap \in Nat
          /\ view.rows[i] = ChatRows(t, item, cap)
      BY <1>1, ViewItems DEF ChatTask, DelimitedTask
    <2>2. row.ids = Tokens(Render(t, item)) /\ row.labels = Labelled(t, item)
      <3> HIDE DEF t, item
      <3> QED BY <2>1, ChatRowLabels
    <2> DEFINE answers == UNION {AnswerTokens(t, item, k, row.ids) : k \in AnswerTurns(item)}
    <2>3. Steady(t, item) => row.labels \subseteq answers \cup
             {p \in DOMAIN row.ids : row.ids[p] = Eos /\ \E q \in answers : p - q \in 1 .. 4}
      <3> HIDE DEF t, item
      <3> QED BY <2>1, <2>2, ChatLabels
    <2> QED BY <1>1, <2>3 DEF ChatTask
  <1>2. CASE InstructTask
    <2> DEFINE item == task.items[i]
    <2>1. /\ item \in [prompt : Text, completion : Text] /\ cap \in Nat
          /\ row \in Range(InstructRows(item, cap))
      BY <1>2, ViewItems
    <2>2. \A p \in row.labels : p > 1 + Len(Tokens(item.prompt))
      <3> HIDE DEF item
      <3> QED BY <2>1, InstructLabels
    <2> QED BY <1>2, <2>2 DEF InstructTask
  <1>3. CASE task.kind = "completion"
    BY <1>3
  <1> QED BY <1>1, <1>2, <1>3, TaskKinds

\* Every answer of a view that fits is supervised.
LEMMA ViewSupervises ==
    ASSUME task \in Tasks, NEW cap \in Nat \ {0}, view = MakeView(cap), DelimitedTask
    PROVE  AnswersAreSupervised
  <1> DEFINE item(i) == task.items[i]
             ids(i) == Tokens(Render(task.template, item(i)))
             answer(i, k) == AnswerTokens(task.template, item(i), k, ids(i))
  <1>1. ASSUME ChatTask, NEW i \in DOMAIN view.rows, NEW k \in AnswerTurns(item(i)),
               Len(ids(i)) <= view.cap, Steady(task.template, item(i)),
               item(i)[k].content # <<>>, ~ LikeDummy(item(i)[k].content)
        PROVE  /\ view.rows[i] # <<>>
               /\ answer(i, k) \subseteq view.rows[i][1].labels
               /\ \A p \in DOMAIN ids(i) :
                      ids(i)[p] = Eos /\ p = Max(answer(i, k)) + 1
                          => p \in view.rows[i][1].labels
    <2> DEFINE t == task.template
               m == task.items[i]
    <2>1. /\ t \in Template /\ m \in Seq(Message) /\ Delimited(t) /\ cap \in Nat
          /\ view.rows[i] = ChatRows(t, m, cap) /\ view.cap = cap
      BY <1>1, ViewItems DEF ChatTask, DelimitedTask
    <2> DEFINE tokens == Tokens(Render(t, m))
               a == AnswerTokens(t, m, k, tokens)
    <2>2. /\ k \in AnswerTurns(m) /\ Len(tokens) <= cap /\ Steady(t, m)
          /\ m[k].content # <<>> /\ ~ LikeDummy(m[k].content)
      BY <1>1, <2>1
    <2>3. a # {} /\ a \subseteq Labelled(t, m)
          /\ \A p \in DOMAIN tokens :
                 tokens[p] = Eos /\ p = Max(a) + 1 => p \in Labelled(t, m)
      <3> HIDE DEF t, m
      <3> QED BY <2>1, <2>2, ChatLabels
    <2>4. view.rows[i] # <<>> /\ view.rows[i][1].labels = Labelled(t, m)
      <3>1. Labelled(t, m) # {}
        BY <2>3
      <3> HIDE DEF t, m
      <3> QED BY <2>1, <2>2, <3>1, ChatRowLabels
    <2> QED BY <2>3, <2>4
  <1>2. ASSUME InstructTask, NEW i \in DOMAIN view.rows,
               Len(Tokens(item(i).prompt) \o Tokens(item(i).completion)) + 2 <= view.cap
        PROVE  /\ view.rows[i] # <<>>
               /\ Cardinality(view.rows[i][1].labels) = Len(Tokens(item(i).completion)) + 1
    <2> DEFINE m == task.items[i]
    <2>1. /\ m \in [prompt : Text, completion : Text] /\ cap \in Nat
          /\ view.rows[i] = InstructRows(m, cap) /\ view.cap = cap
      BY <1>2, ViewItems
    <2>2. Len(Tokens(m.prompt) \o Tokens(m.completion)) + 2 <= cap
      BY <1>2, <2>1
    <2>3. /\ InstructRows(m, cap) # <<>>
          /\ Cardinality(InstructRows(m, cap)[1].labels) = Len(Tokens(m.completion)) + 1
      <3> HIDE DEF m
      <3> QED BY <2>1, <2>2, InstructLabels
    <2> QED BY <2>1, <2>3
  <1>3. CASE ChatTask
    <2>1. task.kind = "chat"
      BY <1>3 DEF ChatTask
    <2> QED BY <1>1, <1>3, <2>1, Zenon DEF AnswersAreSupervised
  <1>4. CASE InstructTask
    <2>1. task.kind = "instruct" /\ task.kind # "chat"
      BY <1>4 DEF InstructTask
    <2> QED BY <1>2, <1>4, <2>1, Zenon DEF AnswersAreSupervised
  <1>5. CASE task.kind = "completion"
    BY <1>5 DEF AnswersAreSupervised
  <1> QED BY <1>3, <1>4, <1>5, TaskKinds

\* Only completion tokens carry loss, whichever texts and caps a run is given and
\* however a tokenizer joins their characters, if the template of a chat task
\* keeps the texts apart by special tokens.
THEOREM DelimitedCarryLoss == Spec => [](DelimitedTask => OnlyAnswersCarryLoss)
  <1>1. Inv => (DelimitedTask => OnlyAnswersCarryLoss)
    <2> SUFFICES ASSUME Inv, DelimitedTask PROVE OnlyAnswersCarryLoss
      OBVIOUS
    <2>1. CASE view = NoView
      <3>1. DOMAIN view.rows = {}
        BY <2>1 DEF NoView
      <3> QED BY <3>1 DEF OnlyAnswersCarryLoss
    <2>2. CASE \E cap \in Nat \ {0} : view = MakeView(cap)
      BY <2>2, ViewCarriesLoss DEF Inv
    <2> QED BY <2>1, <2>2 DEF Inv
  <1> QED BY <1>1, InvHolds, PTL

\* Under the same condition every answer of a conversation that fits is labelled
\* throughout with the EOS that closes it, and so is the completion of an example.
THEOREM DelimitedSupervise == Spec => [](DelimitedTask => AnswersAreSupervised)
  <1>1. Inv => (DelimitedTask => AnswersAreSupervised)
    <2> SUFFICES ASSUME Inv, DelimitedTask PROVE AnswersAreSupervised
      OBVIOUS
    <2>1. CASE view = NoView
      <3>1. DOMAIN view.rows = {}
        BY <2>1 DEF NoView
      <3> QED BY <3>1 DEF AnswersAreSupervised
    <2>2. CASE \E cap \in Nat \ {0} : view = MakeView(cap)
      BY <2>2, ViewSupervises DEF Inv
    <2> QED BY <2>1, <2>2 DEF Inv
  <1> QED BY <1>1, InvHolds, PTL
=============================================================================
