------------------------------ MODULE OomRetry ------------------------------
(***************************************************************************)
(* safe_train of src/forge/tasks/common.py: trainer.train() with one retry *)
(* in place when the device runs out of memory before the first optimizer  *)
(* step.  The trainer object, with its model, is used twice, so whatever   *)
(* the failed attempt left in it is met by the second one unless           *)
(* _reset_trainer_after_zero_step_oom takes it away.                       *)
(*                                                                         *)
(* Attempts are numbered 1 and 2, and what an attempt leaves behind is     *)
(* represented by its number, 0 meaning "nothing".  The trainer is the     *)
(* environment: it may raise at any point of an attempt.  Nothing that the *)
(* code clears is assumed to be cleared by the trainer as well.            *)
(***************************************************************************)
EXTENDS Naturals

CONSTANTS
    MaxBatch,     \* the largest per-device batch and min_batch
    MaxReplicas,  \* devices: args.train_batch_size is per-device times these
    MaxSteps      \* bound: optimizer steps of an attempt

ASSUME OomRetryAssumption ==
    /\ MaxBatch \in Nat \ {0}
    /\ MaxReplicas \in Nat \ {0}
    /\ MaxSteps \in Nat

VARIABLES
    setup,      \* what the construction of the trainer fixed
    batch,      \* args.per_device_train_batch_size
    cache,      \* trainer._train_batch_size, 0 for a runtime without one
    loader,     \* the batch each attempt's data loader was built with
    optimizer, scheduler,  \* the attempt that created them
    stop,       \* the attempt whose callback set should_training_stop
    handle,     \* trainer.neftune_hook_handle: 1 if it holds a hook
    hooks,      \* noise hooks on the embedding
    grads,      \* the attempts with gradients in the parameters
    step,       \* state.global_step
    attempt, pc,
    updates     \* ghost: what each update of the weights was made of

vars == <<setup, batch, cache, loader, optimizer, scheduler, stop, handle,
          hooks, grads, step, attempt, pc, updates>>

Attempts == {1, 2}
Owner    == {0} \cup Attempts

Setups == [min      : 1 .. MaxBatch,      \* min_batch
           derived  : BOOLEAN,            \* generation geometry, as in GRPO
           noise    : BOOLEAN,            \* neftune_noise_alpha is set
           replicas : 1 .. MaxReplicas]

Update == [attempt : Attempts, optimizer : Owner, scheduler : Owner,
           grads : SUBSET Attempts, hooks : 0 .. 2]

TypeOK ==
    /\ setup \in Setups
    /\ batch \in 1 .. MaxBatch
    /\ cache \in Nat
    /\ loader \in [Attempts -> Nat]
    /\ optimizer \in Owner /\ scheduler \in Owner /\ stop \in Owner
    /\ handle \in {0, 1} /\ hooks \in 0 .. 2
    /\ grads \subseteq Attempts
    /\ step \in Nat
    /\ attempt \in Owner
    /\ pc \in {"idle", "starting", "training", "caught", "returned", "raised"}
    /\ updates \subseteq Update

Init ==
    /\ setup \in Setups
    /\ batch \in 1 .. MaxBatch
    /\ cache \in {0, batch * setup.replicas}
    /\ loader = [a \in Attempts |-> 0]
    /\ optimizer = 0 /\ scheduler = 0 /\ stop = 0
    /\ handle = 0 /\ hooks = 0 /\ grads = {}
    /\ step = 0 /\ attempt = 0 /\ pc = "idle" /\ updates = {}

-----------------------------------------------------------------------------
(* The trainer.                                                            *)

\* trainer.train() reads the batch that it cached, attaches the noise hook and
\* forgets the handle of an earlier one.
Start(a) ==
    /\ attempt' = a /\ pc' = "starting"
    /\ loader' = [loader EXCEPT ![a] = IF cache' # 0 THEN cache'
                                       ELSE batch' * setup.replicas]

TrainCalled ==
    /\ pc = "idle"
    /\ UNCHANGED <<batch, cache>>
    /\ Start(1)
    /\ UNCHANGED <<setup, optimizer, scheduler, stop, handle, hooks, grads,
                   step, updates>>

\* The hook, the optimizer and the schedule; the last two only if there is none.
Prepare ==
    /\ pc = "starting" /\ pc' = "training"
    /\ hooks' = IF setup.noise THEN hooks + 1 ELSE hooks
    /\ handle' = IF setup.noise THEN 1 ELSE handle
    /\ optimizer' = IF optimizer = 0 THEN attempt ELSE optimizer
    /\ scheduler' = IF scheduler = 0 THEN attempt ELSE scheduler
    /\ UNCHANGED <<setup, batch, cache, loader, stop, grads, step, attempt,
                   updates>>

\* A micro-step; the deadline may set should_training_stop after it.
Backward ==
    /\ pc = "training" /\ stop = 0
    /\ grads' = grads \cup {attempt}
    /\ stop' \in {0, attempt}
    /\ UNCHANGED <<setup, batch, cache, loader, optimizer, scheduler, handle,
                   hooks, step, attempt, pc, updates>>

\* optimizer.step(): the weights move, the gradients are consumed.
Step ==
    /\ pc = "training" /\ stop = 0 /\ grads # {} /\ step < MaxSteps
    /\ updates' = updates \cup
           {[attempt |-> attempt, optimizer |-> optimizer,
             scheduler |-> scheduler, grads |-> grads, hooks |-> hooks]}
    /\ grads' = {} /\ step' = step + 1
    /\ UNCHANGED <<setup, batch, cache, loader, optimizer, scheduler, stop,
                   handle, hooks, attempt, pc>>

\* The hook is removed on this path only.
TrainReturns ==
    /\ pc = "training" /\ (stop # 0 \/ step > 0)
    /\ pc' = "returned"
    /\ hooks' = hooks - handle /\ handle' = 0
    /\ UNCHANGED <<setup, batch, cache, loader, optimizer, scheduler, stop,
                   grads, step, attempt, updates>>

\* Out of memory while the hook is attached but there is no optimizer yet.
StartRaises ==
    /\ pc = "starting"
    /\ hooks' = IF setup.noise THEN hooks + 1 ELSE hooks
    /\ handle' = IF setup.noise THEN 1 ELSE handle
    /\ pc' \in IF attempt = 1 THEN {"caught", "raised"} ELSE {"raised"}
    /\ UNCHANGED <<setup, batch, cache, loader, optimizer, scheduler, stop,
                   grads, step, attempt, updates>>

\* Any error of the step loop.  The first attempt's is caught if it is an
\* out-of-memory error, every other one propagates.
TrainRaises ==
    /\ pc = "training"
    /\ pc' \in IF attempt = 1 THEN {"caught", "raised"} ELSE {"raised"}
    /\ UNCHANGED <<setup, batch, cache, loader, optimizer, scheduler, stop,
                   handle, hooks, grads, step, attempt, updates>>

-----------------------------------------------------------------------------
(* The retry.                                                              *)

Larger(a, b) == IF a > b THEN a ELSE b

\* Mutated form of Reduced: the floor of one is forgotten.
ReducedUnfloored(b, min) == b \div 2

Reduced(b, min) == Larger(min, b \div 2)

\* Mutated form of Retryable: progress does not forbid the retry.
RetryableAnyStep == ~setup.derived /\ Reduced(batch, setup.min) < batch

Retryable ==
    /\ step = 0
    /\ ~setup.derived
    /\ Reduced(batch, setup.min) < batch

SkipRetry ==
    /\ pc = "caught" /\ ~Retryable
    /\ pc' = "raised"
    /\ UNCHANGED <<setup, batch, cache, loader, optimizer, scheduler, stop,
                   handle, hooks, grads, step, attempt, updates>>

\* Mutated form of Reset: the noise hook stays on the embedding.
ResetKeepsHook ==
    /\ UNCHANGED <<handle, hooks>>
    /\ \E failed \in {"none", "model", "optimizer"} :
           grads' = IF failed = "model" /\ optimizer = 0 THEN grads ELSE {}
    /\ optimizer' = 0 /\ scheduler' = 0 /\ stop' = 0 /\ step' = 0

\* The reset itself raises: the second attempt of model.zero_grad, made without
\* its argument after a TypeError, is outside the guard.
ResetRaises ==
    /\ pc = "caught" /\ Retryable
    /\ pc' = "raised"
    /\ hooks' = hooks - handle /\ handle' = 0
    /\ UNCHANGED <<setup, batch, cache, loader, optimizer, scheduler, stop,
                   grads, step, attempt, updates>>

\* The gradients are cleared through the model and through the optimizer, and an
\* error of one of the two is swallowed.
Reset ==
    /\ hooks' = hooks - handle /\ handle' = 0
    /\ \E failed \in {"none", "model", "optimizer"} :
           grads' = IF failed = "model" /\ optimizer = 0 THEN grads ELSE {}
    /\ optimizer' = 0 /\ scheduler' = 0 /\ stop' = 0 /\ step' = 0

\* Mutated form of Shrink: the cache of the trainer keeps the first batch.
ShrinkArgsOnly ==
    /\ batch' = Reduced(batch, setup.min)
    /\ UNCHANGED cache

Shrink ==
    /\ batch' = Reduced(batch, setup.min)
    /\ cache' = IF cache # 0 THEN batch' * setup.replicas ELSE 0

RetrySmaller ==
    /\ pc = "caught" /\ Retryable
    /\ Reset
    /\ Shrink
    /\ Start(2)
    /\ UNCHANGED <<setup, updates>>

Ended ==
    /\ pc \in {"returned", "raised"}
    /\ UNCHANGED vars

Next ==
    \/ TrainCalled \/ Prepare \/ Backward \/ Step \/ TrainReturns
    \/ StartRaises \/ TrainRaises
    \/ SkipRetry \/ ResetRaises \/ RetrySmaller \/ Ended

Spec == Init /\ [][Next]_vars

-----------------------------------------------------------------------------
(* Properties.                                                             *)

\* "Reusing a Trainer after it has taken an optimizer step silently mixes a
\* partially progressed model with a fresh optimizer/schedule": all the updates
\* the weights receive in a call come from one attempt, with its own optimizer,
\* schedule and gradients and with one noise hook, if any, although the trainer
\* object is reused and an error of its cleanup is swallowed.
UpdatesAreOfOneAttempt ==
    \A u, v \in updates :
        /\ u.attempt = v.attempt
        /\ u.optimizer = u.attempt /\ u.scheduler = u.attempt
        /\ u.grads = {u.attempt}
        /\ u.hooks = IF setup.noise THEN 1 ELSE 0

\* "The retry micro-batch must also be strictly smaller", at the data loader and
\* not only in the arguments, and never below min_batch nor for a trainer whose
\* generation geometry derives from the batch it was built with.
RetryIsSmaller ==
    loader[2] # 0 =>
        /\ ~setup.derived
        /\ loader[2] < loader[1]
        /\ loader[2] >= setup.min * setup.replicas
=============================================================================
