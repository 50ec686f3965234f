--------------------------- MODULE OomRetryProofs ---------------------------
(***************************************************************************)
(* Proofs about OomRetry, for every batch, every number of devices and     *)
(* every number of optimizer steps.                                        *)
(***************************************************************************)
EXTENDS OomRetry, TLAPS

\* What a step of the call may rely on: nothing of an attempt exists before it
\* starts, and the only way into the second one is through the reset.
Leftovers ==
    /\ pc \in {"idle", "starting"} =>
           /\ optimizer = 0 /\ scheduler = 0 /\ stop = 0
           /\ handle = 0 /\ hooks = 0 /\ grads = {}
    /\ pc = "idle" => attempt = 0
    /\ pc \in {"starting", "training", "caught"} => attempt # 0
    /\ pc = "caught" => attempt = 1
    /\ pc = "caught" /\ optimizer = 0 => grads = {}
    /\ pc \in {"training", "caught"} => hooks = handle

\* The retry starts from a clean trainer: whatever a running attempt works with
\* is its own.
AttemptIsFresh ==
    pc = "training" =>
        /\ optimizer = attempt /\ scheduler = attempt
        /\ stop \in {0, attempt}
        /\ grads \subseteq {attempt}
        /\ hooks = IF setup.noise THEN 1 ELSE 0

\* Progress and the updates of the weights belong to the running attempt.
Progress ==
    /\ updates # {} => step # 0
    /\ \A u \in updates :
           /\ u.attempt = attempt
           /\ u.optimizer = u.attempt /\ u.scheduler = u.attempt
           /\ u.grads = {u.attempt}
           /\ u.hooks = IF setup.noise THEN 1 ELSE 0

\* The cached batch follows the arguments, and the loaders follow both.
Geometry ==
    /\ cache \in {0, batch * setup.replicas}
    /\ attempt = 1 => loader[1] = batch * setup.replicas
    /\ attempt # 2 => loader[2] = 0

IInv == TypeOK /\ Leftovers /\ Progress /\ Geometry
            /\ AttemptIsFresh /\ RetryIsSmaller

-----------------------------------------------------------------------------
\* A halved batch is a natural number, not below min_batch.
LEMMA ReducedType ==
    ASSUME NEW b \in Nat, NEW m \in Nat
    PROVE  Reduced(b, m) \in Nat /\ Reduced(b, m) >= m
<1>1. b \div 2 \in Nat
    OBVIOUS
<1>2. QED
    BY <1>1 DEF Reduced, Larger

\* Multiplication by the number of devices keeps the order of batches.
LEMMA ScaledOrder ==
    ASSUME NEW a \in Nat, NEW b \in Nat, NEW r \in Nat \ {0}
    PROVE  /\ a * r \in Nat
           /\ a < b => a * r < b * r
           /\ a <= b => a * r <= b * r
<1>1. a * r \in Nat
    OBVIOUS
<1>2. ASSUME a < b PROVE a * r < b * r
    <2>1. PICK d \in Nat \ {0} : b = a + d
        <3>1. b - a \in Nat \ {0} /\ b = a + (b - a)
            BY <1>2
        <3>2. QED
            BY <3>1
    <2>2. b * r = a * r + d * r
        BY <2>1
    <2>3. d * r \in Nat \ {0}
        BY <2>1
    <2>4. QED
        BY <1>1, <2>2, <2>3
<1>3. QED
    BY <1>1, <1>2

-----------------------------------------------------------------------------
\* The first state.
LEMMA InitIInv == Init => IInv
<1>1. SUFFICES ASSUME Init PROVE IInv
    OBVIOUS
<1>2. batch \in Nat /\ setup.replicas \in Nat
    BY <1>1, OomRetryAssumption DEF Init, Setups
<1>3. batch * setup.replicas \in Nat
    BY <1>2
<1>4. TypeOK
    BY <1>1, <1>3, OomRetryAssumption DEF Init, TypeOK, Attempts, Owner, Setups
<1>5. Leftovers /\ Progress /\ Geometry /\ AttemptIsFresh /\ RetryIsSmaller
    BY <1>1 DEF Init, Leftovers, Progress, Geometry, AttemptIsFresh,
                RetryIsSmaller, Attempts
<1>6. QED
    BY <1>4, <1>5 DEF IInv

\* The reset leaves nothing of the first attempt, even if it swallows an error.
LEMMA ResetIsComplete ==
    ASSUME TypeOK, Leftovers, pc = "caught", Reset
    PROVE  /\ optimizer' = 0 /\ scheduler' = 0 /\ stop' = 0 /\ step' = 0
           /\ handle' = 0 /\ hooks' = 0 /\ grads' = {}
BY DEF TypeOK, Leftovers, Reset

\* The batch of the second attempt: smaller, and the same in the arguments, in
\* the cache and in the data loader.
LEMMA ShrunkGeometry ==
    ASSUME TypeOK, Geometry, Retryable, Shrink, Start(2), UNCHANGED setup,
           attempt = 1
    PROVE  /\ batch' \in 1 .. MaxBatch
           /\ cache' \in Nat
           /\ cache' \in {0, batch' * setup.replicas}
           /\ loader' = [loader EXCEPT ![2] = batch' * setup.replicas]
           /\ batch' * setup.replicas \in Nat
           /\ batch' * setup.replicas < loader[1]
           /\ batch' * setup.replicas >= setup.min * setup.replicas
<1>1. /\ batch \in Nat \ {0} /\ setup.min \in Nat \ {0}
      /\ setup.replicas \in Nat \ {0} /\ batch <= MaxBatch
    BY OomRetryAssumption DEF TypeOK, Setups
<1>2. /\ batch' \in Nat /\ batch' >= setup.min /\ batch' < batch
    BY <1>1, ReducedType DEF Retryable, Shrink
<1>3. /\ batch' * setup.replicas \in Nat
      /\ batch' * setup.replicas < batch * setup.replicas
    BY <1>1, <1>2, ScaledOrder
<1>4. setup.min * setup.replicas <= batch' * setup.replicas
    BY <1>1, <1>2, ScaledOrder
<1>5. setup.min * setup.replicas \in Nat
    BY <1>1
<1>6. cache' \in {0, batch' * setup.replicas}
    BY DEF Shrink
<1>7. loader' = [loader EXCEPT ![2] = batch' * setup.replicas]
    BY <1>6 DEF Start
<1>8. loader[1] = batch * setup.replicas
    BY DEF Geometry
<1>9. QED
    BY <1>1, <1>2, <1>3, <1>4, <1>5, <1>6, <1>7, <1>8, OomRetryAssumption

\* Every step of the trainer and of safe_train keeps the invariant.
LEMMA NextIInv == IInv /\ [Next]_vars => IInv'
<1>1. SUFFICES ASSUME IInv, [Next]_vars PROVE IInv'
    OBVIOUS
<1>2. CASE TrainCalled
    <2>1. batch * setup.replicas \in Nat
        BY <1>1, OomRetryAssumption DEF IInv, TypeOK, Setups
    <2>2. loader' = [loader EXCEPT ![1] = batch * setup.replicas]
        BY <1>1, <1>2 DEF IInv, Geometry, TrainCalled, Start
    <2>3. TypeOK'
        BY <1>1, <1>2, <2>1, <2>2
        DEF IInv, TypeOK, TrainCalled, Start, Attempts, Owner
    <2>4. (Leftovers /\ AttemptIsFresh)'
        BY <1>1, <1>2 DEF IInv, Leftovers, TrainCalled, Start, AttemptIsFresh
    <2>5. Progress'
        BY <1>1, <1>2
        DEF IInv, Leftovers, Progress, TypeOK, Update, Attempts, TrainCalled, Start
    <2>6. (Geometry /\ RetryIsSmaller)'
        BY <1>1, <1>2, <2>2
        DEF IInv, TypeOK, Leftovers, Geometry, RetryIsSmaller, TrainCalled,
            Start, Attempts
    <2>7. QED
        BY <2>3, <2>4, <2>5, <2>6 DEF IInv
<1>3. CASE Prepare
    <2>1. (TypeOK /\ Leftovers /\ AttemptIsFresh)'
        BY <1>1, <1>3
        DEF IInv, TypeOK, Leftovers, AttemptIsFresh, Prepare, Attempts, Owner
    <2>2. (Progress /\ Geometry /\ RetryIsSmaller)'
        BY <1>1, <1>3 DEF IInv, Progress, Geometry, RetryIsSmaller, Prepare
    <2>3. QED
        BY <2>1, <2>2 DEF IInv
<1>4. CASE Backward
    <2>1. (TypeOK /\ Leftovers /\ AttemptIsFresh)'
        BY <1>1, <1>4
        DEF IInv, TypeOK, Leftovers, AttemptIsFresh, Backward, Attempts, Owner
    <2>2. (Progress /\ Geometry /\ RetryIsSmaller)'
        BY <1>1, <1>4 DEF IInv, Progress, Geometry, RetryIsSmaller, Backward
    <2>3. QED
        BY <2>1, <2>2 DEF IInv
<1>5. CASE Step
    <2> DEFINE new == [attempt |-> attempt, optimizer |-> optimizer,
                       scheduler |-> scheduler, grads |-> grads, hooks |-> hooks]
    <2>1. new \in Update /\ updates' = updates \cup {new}
        BY <1>1, <1>5
        DEF IInv, TypeOK, Leftovers, Step, Update, Attempts, Owner
    <2>2. /\ new.attempt = attempt
          /\ new.optimizer = attempt /\ new.scheduler = attempt
          /\ new.grads = {attempt}
          /\ new.hooks = IF setup.noise THEN 1 ELSE 0
        BY <1>1, <1>5 DEF IInv, AttemptIsFresh, Step
    <2>3. (TypeOK /\ Leftovers /\ AttemptIsFresh)'
        BY <1>1, <1>5, <2>1
        DEF IInv, TypeOK, Leftovers, AttemptIsFresh, Step
    <2>4. Progress'
        BY <1>1, <1>5, <2>1, <2>2 DEF IInv, TypeOK, Progress, Step
    <2>5. (Geometry /\ RetryIsSmaller)'
        BY <1>1, <1>5 DEF IInv, Geometry, RetryIsSmaller, Step
    <2>6. QED
        BY <2>3, <2>4, <2>5 DEF IInv
<1>6. CASE TrainReturns
    <2>1. (TypeOK /\ Leftovers /\ AttemptIsFresh)'
        BY <1>1, <1>6
        DEF IInv, TypeOK, Leftovers, AttemptIsFresh, TrainReturns
    <2>2. (Progress /\ Geometry /\ RetryIsSmaller)'
        BY <1>1, <1>6 DEF IInv, Progress, Geometry, RetryIsSmaller, TrainReturns
    <2>3. QED
        BY <2>1, <2>2 DEF IInv
<1>7. CASE StartRaises
    <2>1. (TypeOK /\ Leftovers /\ AttemptIsFresh)'
        BY <1>1, <1>7
        DEF IInv, TypeOK, Leftovers, AttemptIsFresh, StartRaises
    <2>2. (Progress /\ Geometry /\ RetryIsSmaller)'
        BY <1>1, <1>7 DEF IInv, Progress, Geometry, RetryIsSmaller, StartRaises
    <2>3. QED
        BY <2>1, <2>2 DEF IInv
<1>8. CASE TrainRaises
    <2>1. (TypeOK /\ Leftovers /\ AttemptIsFresh)'
        BY <1>1, <1>8
        DEF IInv, TypeOK, Leftovers, AttemptIsFresh, TrainRaises
    <2>2. (Progress /\ Geometry /\ RetryIsSmaller)'
        BY <1>1, <1>8 DEF IInv, Progress, Geometry, RetryIsSmaller, TrainRaises
    <2>3. QED
        BY <2>1, <2>2 DEF IInv
<1>9. CASE SkipRetry
    <2>1. (TypeOK /\ Leftovers /\ AttemptIsFresh)'
        BY <1>1, <1>9 DEF IInv, TypeOK, Leftovers, AttemptIsFresh, SkipRetry
    <2>2. (Progress /\ Geometry /\ RetryIsSmaller)'
        BY <1>1, <1>9 DEF IInv, Progress, Geometry, RetryIsSmaller, SkipRetry
    <2>3. QED
        BY <2>1, <2>2 DEF IInv
<1>10. CASE RetrySmaller
    <2>1. /\ pc = "caught" /\ attempt = 1
          /\ Retryable /\ Reset /\ Shrink /\ Start(2)
          /\ UNCHANGED <<setup, updates>>
        BY <1>1, <1>10 DEF IInv, Leftovers, RetrySmaller
    <2>2. /\ batch' \in 1 .. MaxBatch
          /\ cache' \in Nat
          /\ cache' \in {0, batch' * setup.replicas}
          /\ loader' = [loader EXCEPT ![2] = batch' * setup.replicas]
          /\ batch' * setup.replicas \in Nat
          /\ batch' * setup.replicas < loader[1]
          /\ batch' * setup.replicas >= setup.min * setup.replicas
        BY <1>1, <2>1, ShrunkGeometry DEF IInv
    <2>3. /\ optimizer' = 0 /\ scheduler' = 0 /\ stop' = 0 /\ step' = 0
          /\ handle' = 0 /\ hooks' = 0 /\ grads' = {}
        BY <1>1, <2>1, ResetIsComplete DEF IInv
    <2>4. updates' = {}
        BY <1>1, <2>1 DEF IInv, Progress, Retryable
    <2>5. (TypeOK /\ Leftovers /\ AttemptIsFresh)'
        BY <1>1, <2>1, <2>2, <2>3, <2>4
        DEF IInv, TypeOK, Leftovers, AttemptIsFresh, Start, Attempts, Owner
    <2>6. Progress'
        BY <2>4 DEF Progress
    <2>7. (Geometry /\ RetryIsSmaller)'
        BY <1>1, <2>1, <2>2
        DEF IInv, TypeOK, Geometry, RetryIsSmaller, Start, Attempts, Retryable
    <2>8. QED
        BY <2>5, <2>6, <2>7 DEF IInv
<1>11. CASE ResetRaises
    <2>1. (TypeOK /\ Leftovers /\ AttemptIsFresh)'
        BY <1>1, <1>11
        DEF IInv, TypeOK, Leftovers, AttemptIsFresh, ResetRaises
    <2>2. (Progress /\ Geometry /\ RetryIsSmaller)'
        BY <1>1, <1>11 DEF IInv, Progress, Geometry, RetryIsSmaller, ResetRaises
    <2>3. QED
        BY <2>1, <2>2 DEF IInv
<1>12. CASE Ended
    BY <1>1, <1>12
    DEF IInv, TypeOK, Leftovers, Progress, Geometry, AttemptIsFresh,
        RetryIsSmaller, Ended, vars
<1>13. CASE UNCHANGED vars
    BY <1>1, <1>13
    DEF IInv, TypeOK, Leftovers, Progress, Geometry, AttemptIsFresh,
        RetryIsSmaller, vars
<1>14. QED
    BY <1>1, <1>2, <1>3, <1>4, <1>5, <1>6, <1>7, <1>8, <1>9, <1>10, <1>11, <1>12,
       <1>13
    DEF Next

\* The invariant holds in every reachable state: among its parts, a running
\* attempt works with nothing that another attempt left.
THEOREM RetryInvariant == Spec => []IInv
<1>1. QED
    BY InitIInv, NextIInv, PTL DEF Spec

\* The weights never mix the updates of two attempts.
THEOREM OneAttemptMovesWeights == Spec => []UpdatesAreOfOneAttempt
<1>1. IInv => UpdatesAreOfOneAttempt
    BY DEF IInv, Progress, UpdatesAreOfOneAttempt
<1>2. QED
    BY <1>1, RetryInvariant, PTL

\* A retry really runs with a smaller batch.
THEOREM RetriesAreSmaller == Spec => []RetryIsSmaller
<1>1. IInv => RetryIsSmaller
    BY DEF IInv
<1>2. QED
    BY <1>1, RetryInvariant, PTL
=============================================================================
