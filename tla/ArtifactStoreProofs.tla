------------------------ MODULE ArtifactStoreProofs ------------------------
(***************************************************************************)
(* Theorems about ArtifactStore, for every number of generations, errors   *)
(* and crashes, on both platforms, with and without power loss.            *)
(***************************************************************************)
EXTENDS ArtifactStore, TLAPS

-----------------------------------------------------------------------------
\* Facts about the directories.

\* Deleting from a directory, or losing its unflushed contents, leaves a
\* directory that holds nothing it did not hold.
LEMMA RemnantsType ==
    ASSUME NEW d \in Dir, NEW r \in Remnants(d)
    PROVE  /\ r \in Dir
           /\ r.kind = d.kind /\ r.flushed = d.flushed
           /\ r.weights \in {0, d.weights} /\ r.marker \in {0, d.marker}
  <1>1. PICK w \in {0, d.weights}, m \in {0, d.meta}, k \in {0, d.marker} :
            r = [d EXCEPT !.weights = w, !.meta = m, !.marker = k]
    BY DEF Remnants
  <1>2. 0 \in Gens BY ArtifactStoreAssumption DEF Gens
  <1>3. /\ d = [kind |-> d.kind, weights |-> d.weights, meta |-> d.meta,
                marker |-> d.marker, flushed |-> d.flushed]
        /\ d.kind \in {"none", "dir"} /\ d.flushed \in {"no", "yes"}
        /\ d.weights \in Gens /\ d.meta \in Gens /\ d.marker \in Gens
    BY DEF Dir
  <1>4. r = [kind |-> d.kind, weights |-> w, meta |-> m, marker |-> k,
             flushed |-> d.flushed]
    BY <1>1, <1>3
  <1>5. w \in Gens /\ m \in Gens /\ k \in Gens BY <1>2, <1>3
  <1>6. QED BY <1>3, <1>4, <1>5 DEF Dir

LEMMA SurvivesType ==
    ASSUME NEW d \in Dir, NEW r \in SurvivesPowerLoss(d)
    PROVE  /\ r \in Dir
           /\ d.flushed = "yes" => r = d
           /\ r.kind = d.kind
           /\ r.weights \in {0, d.weights}
  <1>1. CASE d.flushed = "yes" BY <1>1 DEF SurvivesPowerLoss
  <1>2. CASE d.flushed # "yes" BY <1>2, RemnantsType DEF SurvivesPowerLoss
  <1>3. QED BY <1>1, <1>2

LEMMA TargetType == Target \in Slots
  BY DEF Target, Slots

LEMMA InitialType == \A o \in InitialOutputs : InitialOutput(o) \in Dir
  <1>1. 0 \in Gens /\ 1 \in Gens BY ArtifactStoreAssumption DEF Gens
  <1>2. /\ InitialOutput("absent") = Absent
        /\ InitialOutput("torn") = Torn
        /\ InitialOutput("floor") = Floor
        /\ InitialOutput("settled_floor") = [Floor EXCEPT !.flushed = "yes"]
    BY DEF InitialOutput
  <1>3. /\ Absent \in Dir /\ Torn \in Dir /\ Floor \in Dir
        /\ [Floor EXCEPT !.flushed = "yes"] \in Dir
    BY <1>1 DEF Absent, Torn, Floor, FloorGen, Dir
  <1>4. QED BY <1>2, <1>3 DEF InitialOutputs

LEMMA AbsentType == Absent \in Dir
  BY ArtifactStoreAssumption DEF Absent, Dir, Gens

LEMMA RecoverableType ==
    ASSUME NEW m \in [Slots -> Dir] PROVE Recoverable(m) \in Gens
  <1>1. m["final"] \in Dir /\ m["old"] \in Dir /\ m["tmp"] \in Dir BY DEF Slots
  <1>2. m["final"].weights \in Gens /\ m["old"].weights \in Gens /\ m["tmp"].weights \in Gens
    BY <1>1 DEF Dir
  <1>3. QED BY <1>2, ArtifactStoreAssumption DEF Recoverable, Gens

\* What a kill leaves is still three directories.
LEMMA InterruptedType ==
    ASSUME TypeOK, NEW m \in Interrupted PROVE m \in [Slots -> Dir]
  <1>1. CASE m = dir BY <1>1 DEF TypeOK
  <1>2. CASE \E r \in Remnants(dir[Target]) : m = [dir EXCEPT ![Target] = r]
    <2>1. dir[Target] \in Dir BY TargetType DEF TypeOK
    <2>2. QED BY <1>2, <2>1, RemnantsType DEF TypeOK
  <1>3. QED BY <1>1, <1>2 DEF Interrupted

-----------------------------------------------------------------------------
\* Type correctness.

\* The type part of the two forms every write takes.
LEMMA BecomeType ==
    ASSUME TypeOK, NEW s \in Slots, NEW d \in Dir, Become([dir EXCEPT ![s] = d])
    PROVE  dir' \in [Slots -> Dir] /\ journal' \subseteq [Slots -> Dir]
  BY DEF TypeOK, Become

LEMMA RmtreeType ==
    ASSUME TypeOK, NEW from, NEW to \in Steps, Rmtree(from, to)
    PROVE  TypeOK'
  <1>1. dir[Target] \in Dir BY TargetType DEF TypeOK
  <1>2. dir' \in [Slots -> Dir] /\ journal' \subseteq [Slots -> Dir]
    <2>1. CASE Become([dir EXCEPT ![Target] = Absent])
      BY <2>1, BecomeType, TargetType, AbsentType
    <2>2. CASE \E r \in Remnants(dir[Target]) : Become([dir EXCEPT ![Target] = r])
      BY <2>2, <1>1, BecomeType, TargetType, RemnantsType
    <2>3. QED BY <2>1, <2>2 DEF Rmtree
  <1>3. faults' \in 0 .. MaxFaults
    BY ArtifactStoreAssumption DEF Rmtree, CanFault, TypeOK
  <1>4. QED BY <1>2, <1>3 DEF Rmtree, Goto, Constant, TypeOK

LEMMA ReplaceType ==
    ASSUME TypeOK, NEW from, NEW to \in Steps, NEW src \in Slots, NEW dst \in Slots,
           Replace(from, src, dst, to)
    PROVE  TypeOK'
  <1>1. [dir EXCEPT ![dst] = dir[src], ![src] = Absent] \in [Slots -> Dir]
    BY AbsentType DEF TypeOK
  <1>2. QED BY <1>1 DEF Replace, Become, Goto, Constant, TypeOK

LEMMA StageType ==
    ASSUME TypeOK, NEW from, NEW to \in Steps, NEW d \in Dir, Stage(from, to, d)
    PROVE  TypeOK'
  <1>1. "tmp" \in Slots BY DEF Slots
  <1>2. dir' \in [Slots -> Dir] /\ journal' \subseteq [Slots -> Dir]
    BY <1>1, BecomeType DEF Stage
  <1>3. QED BY <1>2 DEF Stage, Goto, Constant, TypeOK

\* The steps that write nothing.
LEMMA QuietType ==
    ASSUME TypeOK, NEW from, NEW to \in Steps,
           Touch(from, to) \/ Fail(from, to) \/ SyncParent(from, to)
    PROVE  TypeOK'
  <1>1. CASE Touch(from, to) BY <1>1 DEF Touch, Goto, Constant, TypeOK
  <1>2. CASE Fail(from, to)
    BY <1>2, ArtifactStoreAssumption DEF Fail, CanFault, Goto, Constant, TypeOK
  <1>3. CASE SyncParent(from, to) BY <1>3 DEF SyncParent, Goto, Constant, TypeOK
  <1>4. QED BY <1>1, <1>2, <1>3

\* The exchange keeps three directories.
LEMMA ExchangedType == ASSUME TypeOK PROVE Exchanged \in [Slots -> Dir]
  BY DEF TypeOK, Exchanged, Slots

LEMMA InitType == Init => TypeOK
  <1>1. SUFFICES ASSUME Init PROVE TypeOK OBVIOUS
  <1>2. dir \in [Slots -> Dir]
    <2>1. PICK o \in Outputs :
              dir = [s \in Slots |-> IF s = "final" THEN InitialOutput(o) ELSE Absent]
      BY <1>1 DEF Init
    <2>2. InitialOutput(o) \in Dir BY <2>1, InitialType, ArtifactStoreAssumption
    <2>3. QED BY <2>1, <2>2, AbsentType
  <1>3. FloorGen \in 1 .. MaxGen BY ArtifactStoreAssumption DEF FloorGen
  <1>4. 0 \in Gens /\ 0 \in 0 .. MaxFaults /\ 0 \in 0 .. MaxCrashes
    BY ArtifactStoreAssumption DEF Gens
  <1>5. QED BY <1>1, <1>2, <1>3, <1>4 DEF Init, TypeOK, Steps

LEMMA StepType == TypeOK /\ [Next]_vars => TypeOK'
  <1>1. SUFFICES ASSUME TypeOK, [Next]_vars PROVE TypeOK' OBVIOUS
  <1>2. /\ dir["final"] \in Dir /\ dir["tmp"] \in Dir /\ dir["old"] \in Dir
        /\ "final" \in Slots /\ "tmp" \in Slots /\ "old" \in Slots
    BY <1>1 DEF TypeOK, Slots
  <1>3. gen \in Gens /\ 0 \in Gens
    BY <1>1, ArtifactStoreAssumption DEF TypeOK, Gens
  <1>4. Recoverable(dir) \in Gens BY <1>1, RecoverableType DEF TypeOK
  <1>5. RemoveSteps \subseteq Steps BY DEF Steps
  <1>BeginSave. CASE BeginSave
    BY <1>1, <1>4, <1>BeginSave, ArtifactStoreAssumption
       DEF BeginSave, Goto, TypeOK, Steps
  <1>BeginRepair. CASE BeginRepair
    BY <1>1, <1>BeginRepair DEF BeginRepair, Goto, TypeOK, Steps
  <1>Return. CASE Return BY <1>1, <1>3, <1>Return DEF Return, Goto, TypeOK
  <1>Raise. CASE Raise BY <1>1, <1>Raise DEF Raise, Goto, TypeOK
  <1>RecoverTest. CASE RecoverTest
    BY <1>1, <1>RecoverTest DEF RecoverTest, Candidate, Constant, TypeOK, Steps, RemoveSteps
  <1>RecoverMove. CASE RecoverMove
    BY <1>1, <1>2, <1>RecoverMove, ReplaceType, QuietType
       DEF RecoverMove, ReplaceRefused, Steps
  <1>StageMake. CASE StageMake
    <2>1. [dir["tmp"] EXCEPT !.kind = "dir", !.flushed = "no"] \in Dir
      BY <1>2 DEF Dir
    <2>2. QED BY <1>1, <2>1, <1>StageMake, StageType, QuietType DEF StageMake, Steps
  <1>StageWeights. CASE StageWeights
    <2>1. [dir["tmp"] EXCEPT !.weights = gen] \in Dir BY <1>2, <1>3 DEF Dir
    <2>2. [dir["tmp"] EXCEPT !.weights = 0] \in Dir BY <1>2, <1>3 DEF Dir
    <2>3. CASE Stage("s_weights", "s_meta", [dir["tmp"] EXCEPT !.weights = gen])
      BY <1>1, <2>1, <2>3, StageType DEF Steps
    <2>4. ASSUME NEW next \in {"s_meta", "c_drop"}, Goto("s_weights", next), CanFault,
                 Become([dir EXCEPT !["tmp"] = [dir["tmp"] EXCEPT !.weights = 0]]),
                 Constant, UNCHANGED cand
          PROVE  TypeOK'
      <3>1. dir' \in [Slots -> Dir] /\ journal' \subseteq [Slots -> Dir]
        BY <1>1, <1>2, <2>2, <2>4, BecomeType
      <3>2. QED BY <1>1, <2>4, <3>1, ArtifactStoreAssumption
                DEF CanFault, Constant, Goto, TypeOK, Steps, RemoveSteps
    <2>5. QED BY <1>StageWeights, <2>3, <2>4 DEF StageWeights
  <1>StageMeta. CASE StageMeta
    <2>1. [dir["tmp"] EXCEPT !.meta = gen] \in Dir BY <1>2, <1>3 DEF Dir
    <2>2. QED BY <1>1, <2>1, <1>StageMeta, StageType, QuietType
              DEF StageMeta, Steps, RemoveSteps
  <1>StageFlush. CASE StageFlush
    <2>1. [dir["tmp"] EXCEPT !.flushed = "yes"] \in Dir BY <1>2 DEF Dir
    <2>2. QED BY <1>1, <2>1, <1>StageFlush, StageType, QuietType
              DEF StageFlush, Steps, RemoveSteps
  <1>StageMark. CASE StageMark
    <2>1. SealedTmp \in Dir BY <1>2, <1>3 DEF SealedTmp, Dir
    <2>2. CASE Stage("s_mark", "p_test", SealedTmp) \/ Fail("s_mark", "c_drop")
      BY <1>1, <2>1, <2>2, StageType, QuietType DEF Steps, RemoveSteps
    <2>3. CASE /\ Goto("s_mark", "c_drop") /\ CanFault
               /\ Become([dir EXCEPT !["tmp"] = SealedTmp])
               /\ Constant /\ UNCHANGED cand
      <3>1. dir' \in [Slots -> Dir] /\ journal' \subseteq [Slots -> Dir]
        BY <1>1, <1>2, <2>1, <2>3, BecomeType
      <3>2. QED BY <1>1, <2>3, <3>1, ArtifactStoreAssumption
                DEF CanFault, Constant, Goto, TypeOK, Steps, RemoveSteps
    <2>4. QED BY <1>StageMark, <2>2, <2>3 DEF StageMark
  <1>PromoteSwap. CASE PromoteSwap
    <2>1. CASE platform = "portable" /\ Touch("p_swap", "j_clear")
      BY <1>1, <2>1, QuietType DEF Steps, RemoveSteps
    <2>2. CASE platform = "linux" /\ Fail("p_swap", "raise")
      BY <1>1, <2>2, QuietType DEF Steps
    <2>3. CASE /\ platform = "linux" /\ Goto("p_swap", "p_swap_sync")
               /\ Become(Exchanged)
               /\ Constant /\ UNCHANGED <<cand, faults>>
      BY <1>1, <2>3, ExchangedType DEF Become, Goto, Constant, TypeOK, Steps
    <2>4. QED BY <1>PromoteSwap, <2>1, <2>2, <2>3 DEF PromoteSwap
  <1>RecoverClear. CASE RecoverClear
    BY <1>1, <1>2, <1>RecoverClear, RmtreeType DEF RecoverClear, Steps, RemoveSteps
  <1>RecoverSync. CASE RecoverSync
    BY <1>1, <1>2, <1>RecoverSync, QuietType DEF RecoverSync, Steps, RemoveSteps
  <1>RecoverDropTmp. CASE RecoverDropTmp
    BY <1>1, <1>2, <1>RecoverDropTmp, RmtreeType DEF RecoverDropTmp, Steps, RemoveSteps
  <1>RecoverDropOld. CASE RecoverDropOld
    BY <1>1, <1>2, <1>RecoverDropOld, RmtreeType DEF RecoverDropOld, Steps, RemoveSteps
  <1>StageClear. CASE StageClear
    BY <1>1, <1>2, <1>StageClear, RmtreeType DEF StageClear, Steps, RemoveSteps
  <1>StageCheck. CASE StageCheck
    BY <1>1, <1>2, <1>StageCheck, QuietType DEF StageCheck, Steps, RemoveSteps
  <1>Cleanup. CASE Cleanup
    BY <1>1, <1>2, <1>Cleanup, RmtreeType DEF Cleanup, Steps, RemoveSteps
  <1>Promote. CASE Promote
    BY <1>1, <1>2, <1>Promote, QuietType DEF Promote, Steps, RemoveSteps
  <1>PromoteFirst. CASE PromoteFirst
    BY <1>1, <1>2, <1>PromoteFirst, ReplaceType, QuietType DEF PromoteFirst, Steps, RemoveSteps
  <1>PromoteFirstSync. CASE PromoteFirstSync
    BY <1>1, <1>2, <1>PromoteFirstSync, QuietType DEF PromoteFirstSync, Steps, RemoveSteps
  <1>PromoteSwapSync. CASE PromoteSwapSync
    BY <1>1, <1>2, <1>PromoteSwapSync, QuietType DEF PromoteSwapSync, Steps, RemoveSteps
  <1>PromoteDrop. CASE PromoteDrop
    BY <1>1, <1>2, <1>PromoteDrop, RmtreeType DEF PromoteDrop, Steps, RemoveSteps
  <1>PromoteDropSync. CASE PromoteDropSync
    BY <1>1, <1>2, <1>PromoteDropSync, QuietType DEF PromoteDropSync, Steps, RemoveSteps
  <1>JournalClear. CASE JournalClear
    BY <1>1, <1>2, <1>JournalClear, RmtreeType DEF JournalClear, Steps, RemoveSteps
  <1>JournalPark. CASE JournalPark
    BY <1>1, <1>2, <1>JournalPark, ReplaceType, QuietType DEF JournalPark, Steps, RemoveSteps, ReplaceRefused
  <1>JournalParkSync. CASE JournalParkSync
    BY <1>1, <1>2, <1>JournalParkSync, QuietType DEF JournalParkSync, Steps, RemoveSteps
  <1>JournalSwap. CASE JournalSwap
    BY <1>1, <1>2, <1>JournalSwap, ReplaceType, QuietType DEF JournalSwap, Steps, RemoveSteps
  <1>JournalSwapSync. CASE JournalSwapSync
    BY <1>1, <1>2, <1>JournalSwapSync, QuietType DEF JournalSwapSync, Steps, RemoveSteps
  <1>JournalUndo. CASE JournalUndo
    BY <1>1, <1>2, <1>JournalUndo, ReplaceType, QuietType DEF JournalUndo, Steps, RemoveSteps
  <1>JournalUndoSync. CASE JournalUndoSync
    BY <1>1, <1>2, <1>JournalUndoSync, QuietType DEF JournalUndoSync, Steps, RemoveSteps
  <1>JournalDrop. CASE JournalDrop
    BY <1>1, <1>2, <1>JournalDrop, RmtreeType DEF JournalDrop, Steps, RemoveSteps
  <1>JournalDropSync. CASE JournalDropSync
    BY <1>1, <1>2, <1>JournalDropSync, QuietType DEF JournalDropSync, Steps, RemoveSteps
  <1>Kill. CASE Kill
    BY <1>1, <1>Kill, InterruptedType, ArtifactStoreAssumption
       DEF Kill, Crashed, Become, TypeOK
  <1>Outage. CASE Outage
    <2>1. PICK m \in journal \cup Interrupted :
            \E f \in SurvivesPowerLoss(m["final"]),
               t \in SurvivesPowerLoss(m["tmp"]),
               o \in SurvivesPowerLoss(m["old"]) :
                dir' = [s \in Slots |-> IF s = "final" THEN f
                                        ELSE IF s = "tmp" THEN t ELSE o]
      BY <1>Outage DEF Outage
    <2>2. m \in [Slots -> Dir] BY <1>1, <2>1, InterruptedType DEF TypeOK
    <2>3. m["final"] \in Dir /\ m["tmp"] \in Dir /\ m["old"] \in Dir
      BY <2>2 DEF Slots
    <2>4. dir' \in [Slots -> Dir] BY <2>1, <2>3, SurvivesType
    <2>5. QED BY <1>1, <1>Outage, <2>4, ArtifactStoreAssumption
              DEF Outage, Crashed, TypeOK
  <1>Restart. CASE Restart BY <1>1, <1>Restart DEF Restart, Goto, TypeOK
  <1>Stutter. CASE UNCHANGED vars BY <1>1, <1>Stutter DEF vars, TypeOK
  <1>6. QED
    BY <1>1, <1>BeginSave, <1>BeginRepair, <1>Return, <1>Raise, <1>RecoverTest,
       <1>RecoverClear, <1>RecoverMove, <1>RecoverSync, <1>RecoverDropTmp,
       <1>RecoverDropOld, <1>StageClear, <1>StageMake, <1>StageWeights,
       <1>StageMeta, <1>StageCheck, <1>StageFlush, <1>StageMark, <1>Cleanup,
       <1>Promote, <1>PromoteFirst, <1>PromoteFirstSync, <1>PromoteSwap,
       <1>PromoteSwapSync, <1>PromoteDrop, <1>PromoteDropSync, <1>JournalClear,
       <1>JournalPark, <1>JournalParkSync, <1>JournalSwap, <1>JournalSwapSync,
       <1>JournalUndo, <1>JournalUndoSync, <1>JournalDrop, <1>JournalDropSync,
       <1>Kill, <1>Outage, <1>Restart, <1>Stutter
       DEF Next

\* Every reachable state is well typed, whatever the bounds, the platform and
\* the errors: three directories, an operation of the code at pc, generations
\* and budgets within their bounds (common.py:523-942).
THEOREM TypeCorrect == Spec => []TypeOK
  BY InitType, StepType, PTL DEF Spec

-----------------------------------------------------------------------------
\* Durability: the inductive invariant.

LEMMA DirFacts ==
    ASSUME TypeOK
    PROVE  /\ dir["final"] \in Dir /\ dir["tmp"] \in Dir /\ dir["old"] \in Dir
           /\ Slots = {"final", "tmp", "old"} /\ DOMAIN dir = Slots
           /\ gen \in Nat \ {0} /\ acked \in Nat
  BY ArtifactStoreAssumption DEF TypeOK, Slots, Gens

\* A write to one directory that leaves the output path, or the copy in .old
\* that stands for it, as it was keeps every map of the journal safe.
LEMMA WriteKeeps ==
    ASSUME TypeOK, Durability, NEW s \in Slots, NEW d \in Dir,
           Complete(d) => d.kind = "dir",
           Become([dir EXCEPT ![s] = d]), UNCHANGED <<gen, acked>>,
           \/ s = "tmp"
           \/ s = "old" /\ (acked # 0 => Durable(dir["final"]))
           \/ /\ s = "final" /\ ~Complete(d) /\ status # "ok"
              /\ acked # 0 => Durable(dir["old"])
    PROVE  /\ dir' = [dir EXCEPT ![s] = d]
           /\ dir'[s] = d /\ \A t \in Slots \ {s} : dir'[t] = dir[t]
           /\ dir' \in journal'
           /\ \A m \in journal', t \in Slots : Complete(m[t]) => m[t].kind = "dir"
           /\ status = "ok" => \A m \in journal' : Promoted(m["final"])
           /\ acked # 0 => \A m \in journal' : Safe(m)
  <1>1. /\ dir' = [dir EXCEPT ![s] = d] /\ journal' = journal \cup {dir'}
        /\ dir \in journal
    BY DEF Become, Durability
  <1>2. dir'[s] = d /\ \A t \in Slots \ {s} : dir'[t] = dir[t]
    BY <1>1, DirFacts
  <1>3. \A m \in journal', t \in Slots : Complete(m[t]) => m[t].kind = "dir"
    <2>1. \A m \in journal, t \in Slots : Complete(m[t]) => m[t].kind = "dir"
      BY DEF Durability
    <2>2. \A t \in Slots : Complete(dir'[t]) => dir'[t].kind = "dir"
      BY <1>1, <1>2, <2>1
    <2>3. QED BY <1>1, <2>1, <2>2
  <1>4. status = "ok" => \A m \in journal' : Promoted(m["final"])
    BY <1>1, <1>2, DirFacts DEF Durability, Promoted, Whole, Complete
  <1>5. ASSUME acked # 0 PROVE \A m \in journal' : Safe(m)
    <2>1. Safe(dir) BY <1>1, <1>5 DEF Durability
    <2>2. Safe(dir') BY <1>2, <1>5, <2>1, DirFacts DEF Safe, Durable, Complete
    <2>3. \A m \in journal : Safe(m) BY <1>5 DEF Durability
    <2>4. QED BY <1>1, <2>2, <2>3
  <1>6. QED BY <1>1, <1>2, <1>3, <1>4, <1>5

LEMMA InitDurable == Init => Durability
  <1>1. SUFFICES ASSUME Init PROVE Durability OBVIOUS
  <1>2. PICK o \in Outputs :
            dir = [s \in Slots |-> IF s = "final" THEN InitialOutput(o) ELSE Absent]
    BY <1>1 DEF Init
  <1>3. o \in InitialOutputs BY ArtifactStoreAssumption
  <1>4. Complete(InitialOutput(o)) => InitialOutput(o).kind = "dir"
    BY <1>3 DEF InitialOutputs, InitialOutput, Absent, Torn, Floor, Complete
  <1>5. ~Complete(Absent) BY DEF Absent, Complete
  <1>6. journal = {dir} /\ \A s \in Slots : Complete(dir[s]) => dir[s].kind = "dir"
    BY <1>1, <1>2, <1>4, <1>5 DEF Init
  <1>7. QED
    BY <1>1, <1>6 DEF Init, Durability, Staging, Calls, FloorGen, BuildSteps,
                      SealedSteps, PromotedSteps


LEMMA StepDurable == TypeOK /\ Durability /\ [Next]_vars => Durability'
  <1>1. SUFFICES ASSUME TypeOK, Durability, [Next]_vars PROVE Durability' OBVIOUS
  <1>2. /\ dir["final"] \in Dir /\ dir["tmp"] \in Dir /\ dir["old"] \in Dir
        /\ Slots = {"final", "tmp", "old"} /\ DOMAIN dir = Slots
        /\ gen \in Nat \ {0} /\ acked \in Nat
    BY <1>1, DirFacts
  <1>3. ASSUME NEW d \in Dir, d.kind = "dir", Become([dir EXCEPT !["tmp"] = d]),
               UNCHANGED <<gen, acked>>
        PROVE  /\ dir' = [dir EXCEPT !["tmp"] = d] /\ dir' \in journal'
               /\ \A m \in journal', t \in Slots : Complete(m[t]) => m[t].kind = "dir"
               /\ status = "ok" => \A m \in journal' : Promoted(m["final"])
               /\ acked # 0 => \A m \in journal' : Safe(m)
    BY <1>1, <1>2, <1>3, WriteKeeps
  <1> USE DEF Durability, Staging, Calls, Safe, Durable, Promoted, Whole, Complete,
              LiveSteps, ParkedSteps, BuildSteps, SealedSteps, PromotedSteps,
              RepairSteps, RemoveSteps, Steps, Goto, Constant
  <1>BeginSave. CASE BeginSave
    BY <1>1, <1>2, <1>BeginSave
       DEF BeginSave
  <1>BeginRepair. CASE BeginRepair
    BY <1>1, <1>2, <1>BeginRepair
       DEF BeginRepair
  <1>Return. CASE Return
    BY <1>1, <1>2, <1>Return
       DEF Return
  <1>Raise. CASE Raise
    BY <1>1, <1>2, <1>Raise
       DEF Raise
  <1>RecoverTest. CASE RecoverTest
    BY <1>1, <1>2, <1>RecoverTest
       DEF RecoverTest, Candidate
  <1>RecoverClear. CASE RecoverClear
    BY <1>1, <1>2, <1>RecoverClear, RemnantsType
       DEF RecoverClear, Rmtree, Become, Target, Absent
  <1>RecoverMove. CASE RecoverMove
    BY <1>1, <1>2, <1>RecoverMove
       DEF RecoverMove, Replace, Become, Fail, Absent, ReplaceRefused, Touch
  <1>RecoverSync. CASE RecoverSync
    BY <1>1, <1>2, <1>RecoverSync
       DEF RecoverSync, SyncParent, Fail
  <1>RecoverDropTmp. CASE RecoverDropTmp
    BY <1>1, <1>2, <1>RecoverDropTmp, RemnantsType
       DEF RecoverDropTmp, Rmtree, Become, Target, Absent
  <1>RecoverDropOld. CASE RecoverDropOld
    BY <1>1, <1>2, <1>RecoverDropOld, RemnantsType
       DEF RecoverDropOld, Rmtree, Become, Target, Absent
  <1>StageClear. CASE StageClear
    BY <1>1, <1>2, <1>StageClear, RemnantsType
       DEF StageClear, Rmtree, Become, Target, Absent
  <1>StageMake. CASE StageMake
    <2>1. CASE Fail("s_make", "raise") BY <1>1, <1>2, <2>1 DEF Fail
    <2>2. CASE Stage("s_make", "s_weights",
                     [dir["tmp"] EXCEPT !.kind = "dir", !.flushed = "no"])
      <3>1. PICK d \in Dir : d = [dir["tmp"] EXCEPT !.kind = "dir", !.flushed = "no"]
        BY <1>2 DEF Dir
      <3>2. d.kind = "dir" /\ Become([dir EXCEPT !["tmp"] = d])
        BY <1>2, <2>2, <3>1 DEF Stage, Dir
      <3>3. Stage("s_make", "s_weights", d) BY <2>2, <3>1
      <3>4. UNCHANGED <<gen, acked>> BY <3>3 DEF Stage
      <3>5. /\ dir' = [dir EXCEPT !["tmp"] = d] /\ dir' \in journal'
            /\ \A m \in journal', t \in Slots : Complete(m[t]) => m[t].kind = "dir"
            /\ status = "ok" => \A m \in journal' : Promoted(m["final"])
            /\ acked # 0 => \A m \in journal' : Safe(m)
        BY <1>3, <3>2, <3>4
      <3>6. QED BY <1>1, <1>2, <3>2, <3>3, <3>5 DEF Stage
    <2>3. QED BY <1>StageMake, <2>1, <2>2 DEF StageMake
  <1>StageWeights. CASE StageWeights
    BY <1>1, <1>2, <1>StageWeights
       DEF StageWeights, Stage, Become, Fail, Dir
  <1>StageMeta. CASE StageMeta
    BY <1>1, <1>2, <1>StageMeta
       DEF StageMeta, Stage, Become, Fail, Dir
  <1>StageCheck. CASE StageCheck
    BY <1>1, <1>2, <1>StageCheck
       DEF StageCheck, Touch
  <1>StageFlush. CASE StageFlush
    BY <1>1, <1>2, <1>StageFlush
       DEF StageFlush, Stage, Become, Fail, Dir
  <1>StageMark. CASE StageMark
    BY <1>1, <1>2, <1>StageMark
       DEF StageMark, Stage, Become, Fail, SealedTmp, Dir
  <1>Cleanup. CASE Cleanup
    BY <1>1, <1>2, <1>Cleanup, RemnantsType
       DEF Cleanup, Rmtree, Become, Target, Absent
  <1>Promote. CASE Promote
    BY <1>1, <1>2, <1>Promote
       DEF Promote, Touch
  <1>PromoteFirst. CASE PromoteFirst
    BY <1>1, <1>2, <1>PromoteFirst
       DEF PromoteFirst, Replace, Become, Fail, Absent
  <1>PromoteFirstSync. CASE PromoteFirstSync
    BY <1>1, <1>2, <1>PromoteFirstSync
       DEF PromoteFirstSync, SyncParent, Fail
  <1>PromoteSwap. CASE PromoteSwap
    BY <1>1, <1>2, <1>PromoteSwap
       DEF PromoteSwap, Exchanged, Become, Fail, Touch
  <1>PromoteSwapSync. CASE PromoteSwapSync
    BY <1>1, <1>2, <1>PromoteSwapSync
       DEF PromoteSwapSync, SyncParent, Fail
  <1>PromoteDrop. CASE PromoteDrop
    BY <1>1, <1>2, <1>PromoteDrop, RemnantsType
       DEF PromoteDrop, Rmtree, Become, Target, Absent
  <1>PromoteDropSync. CASE PromoteDropSync
    BY <1>1, <1>2, <1>PromoteDropSync
       DEF PromoteDropSync, SyncParent, Fail
  <1>JournalClear. CASE JournalClear
    BY <1>1, <1>2, <1>JournalClear, RemnantsType
       DEF JournalClear, Rmtree, Become, Target, Absent
  <1>JournalPark. CASE JournalPark
    <2>1. CASE Replace("j_park", "final", "old", "j_park_sync")
      <3>1. /\ dir'["final"] = Absent /\ dir'["old"] = dir["final"]
            /\ dir'["tmp"] = dir["tmp"] /\ journal' = journal \cup {dir'}
        BY <1>1, <1>2, <2>1 DEF Replace, Become
      <3>2. acked # 0 => ~Complete(dir'["final"]) /\ Durable(dir'["old"])
        BY <1>1, <2>1, <3>1 DEF Replace, Absent
      <3>3. acked # 0 => \A m \in journal' : Safe(m)
        BY <1>1, <3>1, <3>2
      <3>4. status = "running" /\ op = "save" /\ Promoted(dir["tmp"])
        BY <1>1, <2>1 DEF Replace, TypeOK
      <3>5. \A t \in Slots : Complete(dir'[t]) => dir'[t].kind = "dir"
        BY <1>1, <1>2, <3>1 DEF Absent
      <3>6. \A m \in journal', t \in Slots : Complete(m[t]) => m[t].kind = "dir"
        BY <1>1, <3>1, <3>5
      <3>7. QED BY <1>1, <1>2, <2>1, <3>1, <3>2, <3>3, <3>4, <3>6 DEF Replace
    <2>2. CASE ReplaceRefused("j_park", "old", "raise") \/ Fail("j_park", "raise")
      BY <1>1, <1>2, <2>2 DEF ReplaceRefused, Touch, Fail
    <2>3. QED BY <1>JournalPark, <2>1, <2>2 DEF JournalPark
  <1>JournalParkSync. CASE JournalParkSync
    BY <1>1, <1>2, <1>JournalParkSync
       DEF JournalParkSync, SyncParent, Fail
  <1>JournalSwap. CASE JournalSwap
    BY <1>1, <1>2, <1>JournalSwap
       DEF JournalSwap, Replace, Become, Fail, Absent
  <1>JournalSwapSync. CASE JournalSwapSync
    BY <1>1, <1>2, <1>JournalSwapSync
       DEF JournalSwapSync, SyncParent, Fail
  <1>JournalUndo. CASE JournalUndo
    BY <1>1, <1>2, <1>JournalUndo
       DEF JournalUndo, Replace, Become, Fail, Absent
  <1>JournalUndoSync. CASE JournalUndoSync
    BY <1>1, <1>2, <1>JournalUndoSync
       DEF JournalUndoSync, SyncParent, Fail
  <1>JournalDrop. CASE JournalDrop
    BY <1>1, <1>2, <1>JournalDrop, RemnantsType
       DEF JournalDrop, Rmtree, Become, Target, Absent
  <1>JournalDropSync. CASE JournalDropSync
    BY <1>1, <1>2, <1>JournalDropSync
       DEF JournalDropSync, SyncParent, Fail
  <1>Kill. CASE Kill
    BY <1>1, <1>2, <1>Kill, RemnantsType
       DEF Kill, Crashed, Interrupted, Become, Target
  <1>Outage. CASE Outage
    <2>1. PICK m \in journal \cup Interrupted :
            \E f \in SurvivesPowerLoss(m["final"]),
               t \in SurvivesPowerLoss(m["tmp"]),
               o \in SurvivesPowerLoss(m["old"]) :
                dir' = [s \in Slots |-> IF s = "final" THEN f
                                        ELSE IF s = "tmp" THEN t ELSE o]
      BY <1>Outage DEF Outage
    <2>2. m \in [Slots -> Dir] BY <1>1, <2>1, InterruptedType DEF TypeOK
    <2>3. m["final"] \in Dir /\ m["tmp"] \in Dir /\ m["old"] \in Dir
      BY <1>2, <2>2
    <2>4. \A s \in Slots : dir'[s] \in SurvivesPowerLoss(m[s])
      BY <1>2, <2>1
    <2>5. /\ acked # 0 => Safe(m)
          /\ status = "ok" => Promoted(m["final"])
          /\ \A s \in Slots : Complete(m[s]) => m[s].kind = "dir"
      <3>1. CASE m \in journal BY <1>1, <3>1
      <3>2. CASE m \in Interrupted
        BY <1>1, <1>2, <3>2, RemnantsType DEF Interrupted, Target
      <3>3. QED BY <2>1, <3>1, <3>2
    <2>6. QED
      BY <1>1, <1>2, <1>Outage, <2>2, <2>3, <2>4, <2>5, SurvivesType
         DEF Outage, Crashed
  <1>Restart. CASE Restart
    BY <1>1, <1>2, <1>Restart
       DEF Restart
  <1>Stutter. CASE UNCHANGED vars BY <1>1, <1>Stutter DEF vars
  <1>4. QED
    BY <1>1, <1>BeginSave, <1>BeginRepair, <1>Return, <1>Raise,
       <1>RecoverTest, <1>RecoverClear, <1>RecoverMove, <1>RecoverSync,
       <1>RecoverDropTmp, <1>RecoverDropOld, <1>StageClear, <1>StageMake,
       <1>StageWeights, <1>StageMeta, <1>StageCheck, <1>StageFlush,
       <1>StageMark, <1>Cleanup, <1>Promote, <1>PromoteFirst,
       <1>PromoteFirstSync, <1>PromoteSwap, <1>PromoteSwapSync,
       <1>PromoteDrop, <1>PromoteDropSync, <1>JournalClear, <1>JournalPark,
       <1>JournalParkSync, <1>JournalSwap, <1>JournalSwapSync, <1>JournalUndo,
       <1>JournalUndoSync, <1>JournalDrop, <1>JournalDropSync, <1>Kill,
       <1>Outage, <1>Restart, <1>Stutter
       DEF Next

-----------------------------------------------------------------------------
\* Durability is an invariant: at every moment, and for every map a power loss
\* could bring back, an acknowledged generation is at the output path or, while
\* that path is empty, in .old (common.py:848-905).
THEOREM DurabilityHolds == Spec => []Durability
  <1>1. Init => TypeOK /\ Durability BY InitType, InitDurable
  <1>2. TypeOK /\ Durability /\ [Next]_vars => TypeOK' /\ Durability'
    BY StepType, StepDurable
  <1>3. QED BY <1>1, <1>2, PTL DEF Spec

\* Once save_adapter has returned, recovery finds that generation or a newer
\* one after any number of errors, kills and power losses.
THEOREM AcknowledgedSurvives == Spec => []AckedSurvives
  <1>1. TypeOK /\ Durability => AckedSurvives
    <2>1. SUFFICES ASSUME TypeOK, Durability, NEW m \in journal \cup {dir}
                   PROVE  Recoverable(m) >= acked
      BY DEF AckedSurvives
    <2>2. m \in journal BY <2>1 DEF Durability
    <2>3. Recoverable(m) \in Nat /\ acked \in Nat
      BY <2>1, <2>2, RecoverableType, DirFacts, ArtifactStoreAssumption
         DEF TypeOK, Gens
    <2>4. CASE acked = 0 BY <2>3, <2>4
    <2>5. CASE acked # 0
      BY <2>1, <2>2, <2>5 DEF Durability, Safe, Durable, Recoverable, Complete
    <2>6. QED BY <2>4, <2>5
  <1>2. QED BY <1>1, TypeCorrect, DurabilityHolds, PTL

\* From a save's return to the next call, every map a power loss could bring
\* back holds exactly the saved generation, whole, at the output path.
THEOREM AcknowledgedIsDurable == Spec => []AckedIsDurable
  <1>1. Durability => AckedIsDurable BY DEF Durability, AckedIsDurable
  <1>2. QED BY <1>1, DurabilityHolds, PTL

-----------------------------------------------------------------------------
\* Where no operation fails: kills and power losses alone never leave a husk, a
\* directory that looks like a generation and is not a whole one.

Good(d) == Whole(d) /\ d.flushed = "yes"

Staged(m) == Sealed(m["tmp"]) /\ Complete(m["tmp"])

\* Whatever recovery would choose from these directories is whole and flushed.
Sound(m) ==
    /\ Complete(m["final"]) => Good(m["final"])
    /\ ~Complete(m["final"]) /\ Complete(m["old"]) => Good(m["old"])
    /\ ~Complete(m["final"]) /\ ~Complete(m["old"]) /\ Staged(m) => Good(m["tmp"])

\* A removal can be cut half way, so a directory is removed only while recovery
\* would choose another one; and what is being built has no marker.
NoHusks ==
    /\ \A m \in journal : Sound(m)
    /\ pc \notin {"c_drop", "j_undo"}
    /\ pc = "r_sync" => Complete(dir["final"])
    /\ pc \in {"s_meta", "s_check"} => dir["tmp"].weights = gen
    /\ pc \in {"r_old", "s_clear", "s_make"} \cup BuildSteps => ~Sealed(dir["tmp"])
    /\ pc \in {"r_clear", "r_move"} =>
         \/ cand = "old" /\ Complete(dir["old"])
         \/ cand = "tmp" /\ ~Complete(dir["old"]) /\ Staged(dir)
    /\ pc = "r_tmp" => Complete(dir["final"]) \/ (~Complete(dir["old"]) /\ ~Staged(dir))
    /\ pc \in {"r_old", "s_clear", "s_make", "p_test", "p_first", "p_swap", "j_clear",
               "j_park"} \cup BuildSteps =>
         Complete(dir["final"]) \/ ~Complete(dir["old"])

LEMMA RemnantsSound ==
    ASSUME NEW d \in Dir, NEW r \in Remnants(d)
    PROVE  /\ ~Complete(d) => ~Complete(r)
           /\ ~Sealed(d) => ~Sealed(r)
  BY RemnantsType DEF Complete, Sealed

LEMMA InitSound ==
    ASSUME "floor" \notin Outputs, Init
    PROVE  NoHusks
  <1>1. PICK o \in Outputs :
            dir = [s \in Slots |-> IF s = "final" THEN InitialOutput(o) ELSE Absent]
    BY DEF Init
  <1>2. o \in {"absent", "torn", "settled_floor"}
    BY ArtifactStoreAssumption DEF InitialOutputs
  <1>3. Complete(InitialOutput(o)) => Good(InitialOutput(o))
    BY <1>2 DEF InitialOutput, Absent, Torn, Floor, Complete, Good, Whole
  <1>4. ~Complete(Absent) BY DEF Absent, Complete
  <1>5. /\ dir["final"] = InitialOutput(o) /\ dir["old"] = Absent /\ dir["tmp"] = Absent
    BY <1>1 DEF Slots
  <1>6. Sound(dir) BY <1>3, <1>4, <1>5 DEF Sound, Staged
  <1>7. journal = {dir} /\ pc = "idle" BY DEF Init
  <1>8. QED BY <1>6, <1>7 DEF NoHusks, BuildSteps

\* Whatever is cut half way, recovery would still choose a whole directory.
LEMMA InterruptedSound ==
    ASSUME TypeOK, Durability, NoHusks, NEW m, m \in journal \cup Interrupted
    PROVE  Sound(m)
  <1>1. /\ dir["final"] \in Dir /\ dir["tmp"] \in Dir /\ dir["old"] \in Dir
        /\ Slots = {"final", "tmp", "old"} /\ DOMAIN dir = Slots
    BY DirFacts
  <1>2. /\ dir \in journal /\ Staging
        /\ pc \in {"r_clear", "r_move"} => ~Complete(dir["final"])
    BY DEF Durability
  <1>3. Sound(dir) BY <1>2 DEF NoHusks
  <1>4. CASE m \in journal BY <1>4 DEF NoHusks
  <1>5. CASE /\ pc \in RemoveSteps \cup {"s_weights"}
             /\ \E r \in Remnants(dir[Target]) : m = [dir EXCEPT ![Target] = r]
    <2>1. PICK r \in Remnants(dir[Target]) : m = [dir EXCEPT ![Target] = r]
      BY <1>5
    <2>2. /\ m[Target] = r /\ Target \in Slots
          /\ \A t \in Slots \ {Target} : m[t] = dir[t]
      BY <1>1, <2>1, TargetType
    <2>3. /\ ~Complete(dir[Target]) => ~Complete(r)
          /\ ~Sealed(dir[Target]) => ~Sealed(r)
      BY <1>1, <2>1, <2>2, RemnantsSound
    <2>4. CASE pc = "r_clear"
      BY <1>1, <1>2, <1>3, <2>2, <2>3, <2>4 DEF Target, Sound, Staged
    <2>5. CASE pc \in {"r_tmp", "s_clear", "s_weights"}
      BY <1>1, <1>3, <2>2, <2>3, <2>5 DEF NoHusks, BuildSteps, Target, Sound, Staged
    <2>6. CASE pc \in {"r_old", "j_clear"}
      BY <1>1, <1>3, <2>2, <2>3, <2>6 DEF NoHusks, Target, Sound, Staged, Staging
    <2>7. CASE pc \in {"p_drop", "j_drop"}
      <3>1. Complete(dir["final"]) /\ Target # "final"
        BY <1>2, <2>7 DEF Staging, PromotedSteps, Promoted, Whole, Target
      <3>2. QED BY <1>1, <1>3, <2>2, <3>1 DEF Sound
    <2>8. QED BY <1>5, <2>4, <2>5, <2>6, <2>7 DEF NoHusks, RemoveSteps
  <1>6. QED BY <1>4, <1>5, <1>2 DEF Interrupted

\* A power loss takes nothing from a flushed directory and adds nothing to one
\* that is not.
LEMMA SurvivesSound ==
    ASSUME NEW m \in [Slots -> Dir], Sound(m), NEW m2,
           m2["final"] \in SurvivesPowerLoss(m["final"]),
           m2["tmp"] \in SurvivesPowerLoss(m["tmp"]),
           m2["old"] \in SurvivesPowerLoss(m["old"])
    PROVE  Sound(m2)
  <1>1. m["final"] \in Dir /\ m["tmp"] \in Dir /\ m["old"] \in Dir BY DEF Slots
  <1>2. ASSUME NEW d \in Dir, NEW r \in SurvivesPowerLoss(d)
        PROVE  /\ d.flushed = "yes" => r = d
               /\ ~Complete(d) => ~Complete(r)
               /\ ~Sealed(d) => ~Sealed(r)
    <2>1. CASE d.flushed = "yes" BY <2>1, <1>2 DEF SurvivesPowerLoss
    <2>2. CASE d.flushed # "yes"
      BY <2>2, <1>2, RemnantsSound DEF SurvivesPowerLoss
    <2>3. QED BY <2>1, <2>2
  <1>3. QED BY <1>1, <1>2 DEF Sound, Staged, Good

LEMMA StepSound ==
    ASSUME MaxFaults = 0, TypeOK, Durability, NoHusks, [Next]_vars
    PROVE  NoHusks'
  <1>1. /\ dir["final"] \in Dir /\ dir["tmp"] \in Dir /\ dir["old"] \in Dir
        /\ Slots = {"final", "tmp", "old"} /\ DOMAIN dir = Slots
        /\ gen \in Nat \ {0}
    BY DirFacts
  <1>2. ~CanFault BY DEF CanFault, TypeOK
  <1>3. Staging /\ (pc \in {"r_clear", "r_move"} => ~Complete(dir["final"]))
        /\ dir \in journal
    BY DEF Durability
  <1>4. ASSUME NEW from, NEW to, Rmtree(from, to)
        PROVE  /\ pc = from /\ pc' = to /\ gen' = gen /\ cand' = cand
               /\ dir' = [dir EXCEPT ![Target] = Absent]
               /\ journal' = journal \cup {dir'}
    BY <1>2, <1>4 DEF Rmtree, Goto, Become, Constant
  <1>5. ASSUME NEW from, NEW to, Fail(from, to) PROVE FALSE
    BY <1>2, <1>5 DEF Fail
  <1>6. ~Complete(Absent) /\ ~Sealed(Absent) BY DEF Absent, Complete, Sealed
  <1>Stage. ASSUME NEW from, NEW to, NEW d, Stage(from, to, d)
            PROVE  /\ pc = from /\ pc' = to /\ gen' = gen
                   /\ dir'["tmp"] = d /\ dir'["final"] = dir["final"]
                   /\ dir'["old"] = dir["old"] /\ journal' = journal \cup {dir'}
    <2>1. dir' = [dir EXCEPT !["tmp"] = d] /\ journal' = journal \cup {dir'}
      BY <1>Stage DEF Stage, Become
    <2>2. QED BY <1>1, <1>Stage, <2>1 DEF Stage, Goto, Constant
  <1>Replace. ASSUME NEW from, NEW to, NEW src \in Slots, NEW dst \in Slots, src # dst,
                     Replace(from, src, dst, to)
              PROVE  /\ pc = from /\ pc' = to /\ gen' = gen
                     /\ dir'[dst] = dir[src] /\ dir'[src] = Absent
                     /\ \A t \in Slots \ {src, dst} : dir'[t] = dir[t]
                     /\ journal' = journal \cup {dir'}
    <2>1. /\ dir' = [dir EXCEPT ![dst] = dir[src], ![src] = Absent]
          /\ journal' = journal \cup {dir'}
      BY <1>Replace DEF Replace, Become
    <2>2. QED BY <1>1, <1>Replace, <2>1 DEF Replace, Goto, Constant
  <1> USE DEF NoHusks, Sound, Staged, Good, BuildSteps
  <1>BeginSave. CASE BeginSave
    BY <1>1, <1>2, <1>3, <1>4, <1>5, <1>6, <1>BeginSave DEF BeginSave, Goto
  <1>BeginRepair. CASE BeginRepair
    BY <1>1, <1>2, <1>3, <1>4, <1>5, <1>6, <1>BeginRepair DEF BeginRepair, Goto
  <1>Return. CASE Return
    BY <1>1, <1>2, <1>3, <1>4, <1>5, <1>6, <1>Return DEF Return, Goto
  <1>Raise. CASE Raise
    BY <1>1, <1>2, <1>3, <1>4, <1>5, <1>6, <1>Raise DEF Raise, Goto
  <1>RecoverTest. CASE RecoverTest
    BY <1>1, <1>2, <1>3, <1>4, <1>5, <1>6, <1>RecoverTest DEF RecoverTest, Candidate,
       Constant
  <1>RecoverClear. CASE RecoverClear
    BY <1>1, <1>2, <1>3, <1>4, <1>5, <1>6, <1>RecoverClear DEF RecoverClear, Target,
       Staging, Promoted, PromotedSteps, SealedSteps
  <1>RecoverMove. CASE RecoverMove
    BY <1>1, <1>2, <1>3, <1>4, <1>5, <1>6, <1>RecoverMove DEF RecoverMove, Replace,
       ReplaceRefused, Touch, Goto, Become, Constant
  <1>RecoverSync. CASE RecoverSync
    BY <1>1, <1>2, <1>3, <1>4, <1>5, <1>6, <1>RecoverSync DEF RecoverSync, SyncParent,
       Goto, Constant
  <1>RecoverDropTmp. CASE RecoverDropTmp
    BY <1>1, <1>2, <1>3, <1>4, <1>5, <1>6, <1>RecoverDropTmp DEF RecoverDropTmp,
       Target, Staging, Promoted, PromotedSteps, SealedSteps
  <1>RecoverDropOld. CASE RecoverDropOld
    BY <1>1, <1>2, <1>3, <1>4, <1>5, <1>6, <1>RecoverDropOld DEF RecoverDropOld,
       Target, Staging, Promoted, PromotedSteps, SealedSteps
  <1>StageClear. CASE StageClear
    BY <1>1, <1>2, <1>3, <1>4, <1>5, <1>6, <1>StageClear DEF StageClear, Target,
       Staging, Promoted, PromotedSteps, SealedSteps
  <1>StageMake. CASE StageMake
    <2>1. Stage("s_make", "s_weights",
                [dir["tmp"] EXCEPT !.kind = "dir", !.flushed = "no"])
      BY <1>5, <1>StageMake DEF StageMake
    <2>2. PICK d \in Dir : d = [dir["tmp"] EXCEPT !.kind = "dir", !.flushed = "no"]
      BY <1>1 DEF Dir
    <2>3. d.weights = dir["tmp"].weights /\ d.marker = dir["tmp"].marker
      BY <1>1, <2>2 DEF Dir
    <2>4. Stage("s_make", "s_weights", d) BY <2>1, <2>2
    <2>5. /\ pc = "s_make" /\ pc' = "s_weights" /\ gen' = gen
          /\ dir'["tmp"].weights = dir["tmp"].weights
          /\ dir'["tmp"].marker = dir["tmp"].marker
          /\ dir'["final"] = dir["final"] /\ dir'["old"] = dir["old"]
          /\ journal' = journal \cup {dir'}
      BY <1>Stage, <2>3, <2>4
    <2>6. QED BY <1>3, <2>5 DEF Complete, Sealed
  <1>StageWeights. CASE StageWeights
    <2>1. Stage("s_weights", "s_meta", [dir["tmp"] EXCEPT !.weights = gen])
      BY <1>2, <1>StageWeights DEF StageWeights
    <2>2. /\ [dir["tmp"] EXCEPT !.weights = gen].weights = gen
          /\ [dir["tmp"] EXCEPT !.weights = gen].marker = dir["tmp"].marker
      BY <1>1 DEF Dir
    <2>3. /\ pc = "s_weights" /\ pc' = "s_meta" /\ gen' = gen
          /\ dir'["tmp"].weights = gen /\ dir'["tmp"].marker = dir["tmp"].marker
          /\ dir'["final"] = dir["final"] /\ dir'["old"] = dir["old"]
          /\ journal' = journal \cup {dir'}
      BY <1>Stage, <2>2, <2>1
    <2>4. QED BY <1>3, <2>3 DEF Complete, Sealed
  <1>StageMeta. CASE StageMeta
    <2>1. Stage("s_meta", "s_check", [dir["tmp"] EXCEPT !.meta = gen])
      BY <1>5, <1>StageMeta DEF StageMeta
    <2>2. /\ pc = "s_meta" /\ pc' = "s_check" /\ gen' = gen
          /\ dir'["tmp"].weights = dir["tmp"].weights
          /\ dir'["tmp"].marker = dir["tmp"].marker
          /\ dir'["final"] = dir["final"] /\ dir'["old"] = dir["old"]
          /\ journal' = journal \cup {dir'}
      BY <1>1, <1>Stage, <2>1 DEF Dir
    <2>3. QED BY <1>3, <2>2 DEF Complete, Sealed
  <1>StageCheck. CASE StageCheck
    BY <1>1, <1>2, <1>3, <1>4, <1>5, <1>6, <1>StageCheck DEF StageCheck, Touch, Goto,
       Constant, Complete
  <1>StageFlush. CASE StageFlush
    <2>1. Stage("s_flush", "s_mark", [dir["tmp"] EXCEPT !.flushed = "yes"])
      BY <1>5, <1>StageFlush DEF StageFlush
    <2>2. /\ pc = "s_flush" /\ pc' = "s_mark" /\ gen' = gen
          /\ dir'["tmp"].marker = dir["tmp"].marker
          /\ dir'["final"] = dir["final"] /\ dir'["old"] = dir["old"]
          /\ journal' = journal \cup {dir'}
      BY <1>1, <1>Stage, <2>1 DEF Dir
    <2>3. QED BY <1>3, <2>2 DEF Complete, Sealed
  <1>StageMark. CASE StageMark
    <2>1. Stage("s_mark", "p_test", SealedTmp)
      BY <1>2, <1>5, <1>StageMark DEF StageMark
    <2>2. /\ pc = "s_mark" /\ pc' = "p_test" /\ gen' = gen /\ dir'["tmp"] = SealedTmp
          /\ dir'["final"] = dir["final"] /\ dir'["old"] = dir["old"]
          /\ journal' = journal \cup {dir'}
      BY <1>Stage, <2>1
    <2>3. Promoted(dir["tmp"]) BY <1>3, <2>2 DEF Staging
    <2>4. Good(dir'["tmp"])
      BY <1>1, <2>2, <2>3 DEF SealedTmp, Promoted, Whole, Complete, Dir
    <2>5. QED BY <1>3, <2>2, <2>4
  <1>Cleanup. CASE Cleanup
    BY <1>1, <1>2, <1>3, <1>4, <1>5, <1>6, <1>Cleanup DEF Cleanup, Target, Staging,
       Promoted, PromotedSteps, SealedSteps
  <1>Promote. CASE Promote
    BY <1>1, <1>2, <1>3, <1>4, <1>5, <1>6, <1>Promote DEF Promote, Touch, Goto,
       Constant
  <1>PromoteFirst. CASE PromoteFirst
    <2>1. Replace("p_first", "tmp", "final", "p_first_sync")
      BY <1>5, <1>PromoteFirst DEF PromoteFirst
    <2>2. /\ pc = "p_first" /\ pc' = "p_first_sync" /\ dir'["final"] = dir["tmp"]
          /\ journal' = journal \cup {dir'}
      BY <1>1, <1>Replace, <2>1
    <2>3. Promoted(dir["tmp"]) BY <1>3, <2>2 DEF Staging, SealedSteps
    <2>4. QED BY <1>3, <2>2, <2>3 DEF Promoted, Whole
  <1>PromoteFirstSync. CASE PromoteFirstSync
    BY <1>1, <1>2, <1>3, <1>4, <1>5, <1>6, <1>PromoteFirstSync DEF PromoteFirstSync,
       SyncParent, Goto, Constant
  <1>PromoteSwap. CASE PromoteSwap
    <2>1. pc = "p_swap" /\ Promoted(dir["tmp"])
      BY <1>3, <1>PromoteSwap DEF PromoteSwap, Staging, SealedSteps, Fail, Touch, Goto
    <2>2. CASE platform = "portable" /\ Touch("p_swap", "j_clear")
      BY <1>3, <2>2 DEF Touch, Goto, Constant
    <2>3. CASE /\ platform = "linux" /\ Goto("p_swap", "p_swap_sync")
               /\ Become(Exchanged)
      <3>1. /\ dir'["final"] = dir["tmp"] /\ journal' = journal \cup {dir'}
            /\ pc' = "p_swap_sync"
        BY <1>1, <2>3 DEF Become, Exchanged, Goto
      <3>2. QED BY <1>3, <2>1, <3>1 DEF Promoted, Whole
    <2>4. QED BY <1>5, <1>PromoteSwap, <2>2, <2>3 DEF PromoteSwap
  <1>PromoteSwapSync. CASE PromoteSwapSync
    BY <1>1, <1>2, <1>3, <1>4, <1>5, <1>6, <1>PromoteSwapSync DEF PromoteSwapSync,
       SyncParent, Goto, Constant
  <1>PromoteDrop. CASE PromoteDrop
    BY <1>1, <1>2, <1>3, <1>4, <1>5, <1>6, <1>PromoteDrop DEF PromoteDrop, Target,
       Staging, Promoted, PromotedSteps, SealedSteps
  <1>PromoteDropSync. CASE PromoteDropSync
    BY <1>1, <1>2, <1>3, <1>4, <1>5, <1>6, <1>PromoteDropSync DEF PromoteDropSync,
       SyncParent, Goto, Constant
  <1>JournalClear. CASE JournalClear
    BY <1>1, <1>2, <1>3, <1>4, <1>5, <1>6, <1>JournalClear DEF JournalClear, Target,
       Staging, Promoted, PromotedSteps, SealedSteps
  <1>JournalPark. CASE JournalPark
    BY <1>1, <1>2, <1>3, <1>4, <1>5, <1>6, <1>JournalPark DEF JournalPark, Replace,
       ReplaceRefused, Touch, Goto, Become, Constant, Staging, Promoted, SealedSteps
  <1>JournalParkSync. CASE JournalParkSync
    BY <1>1, <1>2, <1>3, <1>4, <1>5, <1>6, <1>JournalParkSync DEF JournalParkSync,
       SyncParent, Goto, Constant
  <1>JournalSwap. CASE JournalSwap
    <2>1. Replace("j_swap", "tmp", "final", "j_swap_sync")
      BY <1>5, <1>JournalSwap DEF JournalSwap
    <2>2. /\ pc = "j_swap" /\ pc' = "j_swap_sync" /\ dir'["final"] = dir["tmp"]
          /\ journal' = journal \cup {dir'}
      BY <1>1, <1>Replace, <2>1
    <2>3. Promoted(dir["tmp"]) BY <1>3, <2>2 DEF Staging, SealedSteps
    <2>4. QED BY <1>3, <2>2, <2>3 DEF Promoted, Whole
  <1>JournalSwapSync. CASE JournalSwapSync
    BY <1>1, <1>2, <1>3, <1>4, <1>5, <1>6, <1>JournalSwapSync DEF JournalSwapSync,
       SyncParent, Goto, Constant
  <1>JournalUndo. CASE JournalUndo
    BY <1>JournalUndo DEF JournalUndo, Replace, Fail, Goto
  <1>JournalUndoSync. CASE JournalUndoSync
    BY <1>1, <1>2, <1>3, <1>4, <1>5, <1>6, <1>JournalUndoSync DEF JournalUndoSync,
       SyncParent, Goto, Constant
  <1>JournalDrop. CASE JournalDrop
    <2>1. /\ pc = "j_drop" /\ pc' = "j_drop_sync" /\ Target = "old"
          /\ dir' = [dir EXCEPT ![Target] = Absent] /\ journal' = journal \cup {dir'}
      BY <1>4, <1>JournalDrop DEF JournalDrop, Target
    <2>2. Complete(dir["final"])
      BY <1>3, <2>1 DEF Staging, PromotedSteps, Promoted, Whole
    <2>3. QED BY <1>1, <1>3, <2>1, <2>2
  <1>JournalDropSync. CASE JournalDropSync
    BY <1>1, <1>2, <1>3, <1>4, <1>5, <1>6, <1>JournalDropSync DEF JournalDropSync,
       SyncParent, Goto, Constant
  <1>Restart. CASE Restart BY <1>Restart DEF Restart, Goto
  <1>Kill. CASE Kill
    <2>1. PICK m \in Interrupted : Become(m) BY <1>Kill DEF Kill
    <2>2. pc' = "down" BY <1>Kill DEF Kill, Crashed
    <2>3. Sound(m) BY <1>1, <1>3, <2>1, InterruptedSound
    <2>4. QED BY <2>1, <2>2, <2>3 DEF Become
  <1>Outage. CASE Outage
    <2>1. PICK m \in journal \cup Interrupted :
            \E f \in SurvivesPowerLoss(m["final"]),
               t \in SurvivesPowerLoss(m["tmp"]),
               o \in SurvivesPowerLoss(m["old"]) :
                dir' = [s \in Slots |-> IF s = "final" THEN f
                                        ELSE IF s = "tmp" THEN t ELSE o]
      BY <1>Outage DEF Outage
    <2>2. pc' = "down" /\ journal' = {dir'} BY <1>Outage DEF Outage, Crashed
    <2>3. m \in [Slots -> Dir] BY <2>1, InterruptedType DEF TypeOK
    <2>4. Sound(m) BY <1>1, <1>3, <2>1, InterruptedSound
    <2>5. /\ dir'["final"] \in SurvivesPowerLoss(m["final"])
          /\ dir'["tmp"] \in SurvivesPowerLoss(m["tmp"])
          /\ dir'["old"] \in SurvivesPowerLoss(m["old"])
      BY <1>1, <2>1
    <2>6. Sound(dir') BY <1>1, <2>3, <2>4, <2>5, SurvivesSound
    <2>7. QED BY <2>2, <2>6
  <1>Stutter. CASE UNCHANGED vars BY <1>Stutter DEF vars
  <1>7. QED
    BY <1>BeginSave, <1>BeginRepair, <1>Return, <1>Raise, <1>RecoverTest,
       <1>RecoverClear, <1>RecoverMove, <1>RecoverSync, <1>RecoverDropTmp,
       <1>RecoverDropOld, <1>StageClear, <1>StageMake, <1>StageWeights, <1>StageMeta,
       <1>StageCheck, <1>StageFlush, <1>StageMark, <1>Cleanup, <1>Promote,
       <1>PromoteFirst, <1>PromoteFirstSync, <1>PromoteSwap, <1>PromoteSwapSync,
       <1>PromoteDrop, <1>PromoteDropSync, <1>JournalClear, <1>JournalPark,
       <1>JournalParkSync, <1>JournalSwap, <1>JournalSwapSync, <1>JournalUndo,
       <1>JournalUndoSync, <1>JournalDrop, <1>JournalDropSync, <1>Kill, <1>Outage,
       <1>Restart, <1>Stutter DEF Next

\* A complete directory at the output path is one saved generation with its own
\* metadata, whatever kills and power losses come, where no operation fails and
\* the output the program starts from is flushed or incomplete.
THEOREM OutputStaysOneGeneration ==
    ASSUME MaxFaults = 0, "floor" \notin Outputs
    PROVE  Spec => []OutputIsOneGeneration
  <1>1. Init => NoHusks BY InitSound
  <1>2. TypeOK /\ Durability /\ NoHusks /\ [Next]_vars => NoHusks' BY StepSound
  <1>3. TypeOK /\ Durability /\ NoHusks => OutputIsOneGeneration
    BY DirFacts DEF Durability, NoHusks, Sound, Good, OutputIsOneGeneration, Complete,
       FloorGen
  <1>4. QED BY <1>1, <1>2, <1>3, TypeCorrect, DurabilityHolds, PTL DEF Spec

\* Startup recovery promotes a staging directory only if it is whole and flushed,
\* under the same conditions; one failing flush is enough to break it.
THEOREM RecoveryStaysCommitted ==
    ASSUME MaxFaults = 0, "floor" \notin Outputs
    PROVE  Spec => []RecoveryTakesOnlyCommitted
  <1>1. Init => NoHusks BY InitSound
  <1>2. TypeOK /\ Durability /\ NoHusks /\ [Next]_vars => NoHusks' BY StepSound
  <1>3. Durability /\ NoHusks => RecoveryTakesOnlyCommitted
    BY DEF Durability, NoHusks, Sound, Good, RecoveryTakesOnlyCommitted
  <1>4. QED BY <1>1, <1>2, <1>3, TypeCorrect, DurabilityHolds, PTL DEF Spec

-----------------------------------------------------------------------------
(***************************************************************************)
(* ArtifactStore implements AtomicOutput, for every number of generations, *)
(* errors and crashes, on both platforms, with and without power loss: the *)
(* generation that recovery would find changes only by a step of the       *)
(* abstract register.                                                      *)
(***************************************************************************)

\* The value of the register.
R == Recoverable(dir)

\* A call of save_adapter runs exactly while its status says so.
RunningIsSave ==
    status = "running" <=> op = "save" /\ pc \notin {"idle", "down"}

\* No directory is of a generation that was not begun.
NoneIsNewer == \A m \in journal, s \in Slots : m[s].weights <= gen

\* The operations before which recovery has made up its mind: what is not at the
\* output path is not recoverable.
SettledSteps == {"r_tmp", "r_old", "s_clear", "s_make", "s_weights"}

\* From the weights on the staging directory may be the one recovery would take.
StagedSteps == {"s_meta", "s_check", "s_flush", "s_mark", "c_drop", "p_test",
                "p_first", "p_swap", "j_clear", "j_park"}

JournalSteps == {"j_clear", "j_park", "j_park_sync", "j_swap", "j_swap_sync",
                 "j_undo", "j_undo_sync", "j_drop", "j_drop_sync"}

\* What recovery decided still holds when it acts, and once it is done no output
\* means nothing to recover, until the staging directory is sealed.
Recovery ==
    /\ pc \in {"r_clear", "r_move"} =>
         \/ cand = "old" /\ Complete(dir["old"])
         \/ /\ cand = "tmp" /\ ~Complete(dir["old"])
            /\ Sealed(dir["tmp"]) /\ Complete(dir["tmp"])
    /\ pc = "r_sync" => Complete(dir["final"])
    /\ pc \in SettledSteps => Complete(dir["final"]) \/ R = 0
    /\ pc \in StagedSteps => Complete(dir["final"]) \/ ~Complete(dir["old"])
    /\ pc = "c_drop" => dir["tmp"].weights \in {0, gen}

\* A save that finds nothing at the output path found nothing to recover either.
FirstSave ==
    /\ op = "save" /\ pc \in RepairSteps \ {"return", "raise"} => R = base
    /\ pc \in SettledSteps \cup StagedSteps /\ op = "save" =>
         Complete(dir["final"]) \/ base = 0

\* The rollback journal is for platforms without the exchange.
Platform == platform = "linux" => pc \notin JournalSteps

Refining == RunningIsSave /\ NoneIsNewer /\ Recovery /\ FirstSave /\ Platform

-----------------------------------------------------------------------------
\* The initial states.
LEMMA InitRefining == Init => Refining /\ R \in {0, 1}
  <1>1. SUFFICES ASSUME Init PROVE Refining /\ R \in {0, 1} OBVIOUS
  <1>2. PICK o \in Outputs :
            dir = [s \in Slots |-> IF s = "final" THEN InitialOutput(o) ELSE Absent]
    BY <1>1 DEF Init
  <1>3. o \in InitialOutputs BY ArtifactStoreAssumption
  <1>4. InitialOutput(o).weights \in {0, 1}
    BY <1>3 DEF InitialOutputs, InitialOutput, Absent, Torn, Floor, FloorGen
  <1>5. /\ dir["final"].weights \in {0, 1}
        /\ dir["tmp"].weights = 0 /\ dir["old"].weights = 0
    BY <1>2, <1>4 DEF Slots, Absent
  <1>6. R \in {0, 1} BY <1>5 DEF R, Recoverable, Complete
  <1>7. NoneIsNewer BY <1>1, <1>5 DEF Init, NoneIsNewer, FloorGen, Slots
  <1>8. QED
    BY <1>1, <1>6, <1>7 DEF Init, Refining, RunningIsSave, Recovery, FirstSave,
       Platform, SettledSteps, StagedSteps, JournalSteps, RepairSteps

-----------------------------------------------------------------------------
\* Every step keeps the strengthening.
LEMMA StepRefining ==
    ASSUME TypeOK, TypeOK', Durability, Durability', Refining, [Next]_vars
    PROVE  Refining'
  <1>1. /\ dir["final"].weights \in Nat /\ dir["tmp"].weights \in Nat
        /\ dir["old"].weights \in Nat
    BY DirFacts, ArtifactStoreAssumption DEF Dir, Gens
  <1>2. /\ dir["final"] \in Dir /\ dir["tmp"] \in Dir /\ dir["old"] \in Dir
        /\ Slots = {"final", "tmp", "old"} /\ DOMAIN dir = Slots
        /\ gen \in Nat \ {0} /\ acked \in Nat
    BY DirFacts
  <1> USE DEF Refining, RunningIsSave, NoneIsNewer, Recovery, FirstSave, Platform,
              R, Recoverable, SettledSteps, StagedSteps, JournalSteps, Sealed,
              Durability, Staging, Calls, Promoted, Whole, Complete,
              BuildSteps, SealedSteps, PromotedSteps,
              RepairSteps, RemoveSteps, Steps, Goto, Constant
  <1>BeginSave. CASE BeginSave
    <2>1. \A m \in journal, s \in Slots : m[s].weights \in Nat
      BY ArtifactStoreAssumption DEF TypeOK, Dir, Gens
    <2>2. NoneIsNewer' BY <1>2, <1>BeginSave, <2>1 DEF BeginSave
    <2>3. QED BY <1>1, <1>2, <1>BeginSave, <2>2 DEF BeginSave
  <1>BeginRepair. CASE BeginRepair
    BY <1>1, <1>2, <1>BeginRepair
       DEF BeginRepair
  <1>Return. CASE Return
    BY <1>1, <1>2, <1>Return
       DEF Return
  <1>Raise. CASE Raise
    BY <1>1, <1>2, <1>Raise
       DEF Raise
  <1>RecoverTest. CASE RecoverTest
    BY <1>1, <1>2, <1>RecoverTest
       DEF RecoverTest, Candidate
  <1>RecoverClear. CASE RecoverClear
    BY <1>1, <1>2, <1>RecoverClear, RemnantsType
       DEF RecoverClear, Rmtree, Become, Target, Absent
  <1>RecoverMove. CASE RecoverMove
    BY <1>1, <1>2, <1>RecoverMove
       DEF RecoverMove, Replace, Become, Fail, Absent, ReplaceRefused, Touch
  <1>RecoverSync. CASE RecoverSync
    BY <1>1, <1>2, <1>RecoverSync
       DEF RecoverSync, SyncParent, Fail
  <1>RecoverDropTmp. CASE RecoverDropTmp
    <2>1. PICK d : /\ d = Absent \/ d \in Remnants(dir["tmp"])
                   /\ Become([dir EXCEPT !["tmp"] = d])
      BY <1>RecoverDropTmp DEF RecoverDropTmp, Rmtree, Target
    <2>2. /\ dir'["final"] = dir["final"] /\ dir'["old"] = dir["old"] /\ dir'["tmp"] = d
          /\ d.weights \in {0, dir["tmp"].weights} /\ d.marker \in {0, dir["tmp"].marker}
      BY <1>2, <2>1, RemnantsType DEF Become, Absent
    <2>3. NoneIsNewer' BY <1>1, <1>2, <1>RecoverDropTmp, <2>1, <2>2
      DEF RecoverDropTmp, Rmtree, Become
    <2>4. Complete(dir'["final"]) \/ R' = 0
      BY <1>2, <1>RecoverDropTmp, <2>2 DEF RecoverDropTmp, Rmtree
    <2>5. QED BY <1>2, <1>RecoverDropTmp, <2>2, <2>3, <2>4 DEF RecoverDropTmp, Rmtree
  <1>RecoverDropOld. CASE RecoverDropOld
    BY <1>1, <1>2, <1>RecoverDropOld, RemnantsType
       DEF RecoverDropOld, Rmtree, Become, Target, Absent
  <1>StageClear. CASE StageClear
    <2>1. PICK d : /\ d = Absent \/ d \in Remnants(dir["tmp"])
                   /\ Become([dir EXCEPT !["tmp"] = d])
      BY <1>StageClear DEF StageClear, Rmtree, Target
    <2>2. /\ dir'["final"] = dir["final"] /\ dir'["old"] = dir["old"] /\ dir'["tmp"] = d
          /\ d.weights \in {0, dir["tmp"].weights} /\ d.marker \in {0, dir["tmp"].marker}
      BY <1>2, <2>1, RemnantsType DEF Become, Absent
    <2>3. NoneIsNewer' BY <1>1, <1>2, <1>StageClear, <2>1, <2>2
      DEF StageClear, Rmtree, Become
    <2>4. Complete(dir'["final"]) \/ R' = 0
      BY <1>2, <1>StageClear, <2>2 DEF StageClear, Rmtree
    <2>5. QED BY <1>2, <1>StageClear, <2>2, <2>3, <2>4 DEF StageClear, Rmtree
  <1>StageMake. CASE StageMake
    <2>1. CASE Fail("s_make", "raise") BY <1>2, <2>1 DEF Fail
    <2>2. CASE Stage("s_make", "s_weights",
                     [dir["tmp"] EXCEPT !.kind = "dir", !.flushed = "no"])
      <3>1. PICK d \in Dir : d = [dir["tmp"] EXCEPT !.kind = "dir", !.flushed = "no"]
        BY <1>2 DEF Dir
      <3>2. d.weights = dir["tmp"].weights /\ d.marker = dir["tmp"].marker
        BY <1>2, <3>1 DEF Dir
      <3>3. /\ dir'["final"] = dir["final"] /\ dir'["old"] = dir["old"]
            /\ dir'["tmp"] = d /\ journal' = journal \cup {dir'}
        BY <1>2, <2>2, <3>1 DEF Stage, Become
      <3>4. NoneIsNewer' BY <1>2, <2>2, <3>2, <3>3 DEF Stage
      <3>5. R' = R BY <3>2, <3>3
      <3>6. QED BY <1>2, <2>2, <3>3, <3>4, <3>5 DEF Stage
    <2>3. QED BY <1>StageMake, <2>1, <2>2 DEF StageMake
  <1>StageWeights. CASE StageWeights
    BY <1>1, <1>2, <1>StageWeights
       DEF StageWeights, Stage, Become, Fail, Dir
  <1>StageMeta. CASE StageMeta
    BY <1>1, <1>2, <1>StageMeta
       DEF StageMeta, Stage, Become, Fail, Dir
  <1>StageCheck. CASE StageCheck
    BY <1>1, <1>2, <1>StageCheck
       DEF StageCheck, Touch
  <1>StageFlush. CASE StageFlush
    BY <1>1, <1>2, <1>StageFlush
       DEF StageFlush, Stage, Become, Fail, Dir
  <1>StageMark. CASE StageMark
    BY <1>1, <1>2, <1>StageMark
       DEF StageMark, Stage, Become, Fail, Dir, SealedTmp
  <1>Cleanup. CASE Cleanup
    BY <1>1, <1>2, <1>Cleanup, RemnantsType
       DEF Cleanup, Rmtree, Become, Target, Absent
  <1>Promote. CASE Promote
    BY <1>1, <1>2, <1>Promote
       DEF Promote, Touch
  <1>PromoteFirst. CASE PromoteFirst
    BY <1>1, <1>2, <1>PromoteFirst
       DEF PromoteFirst, Replace, Become, Fail, Absent
  <1>PromoteFirstSync. CASE PromoteFirstSync
    BY <1>1, <1>2, <1>PromoteFirstSync
       DEF PromoteFirstSync, SyncParent, Fail
  <1>PromoteSwap. CASE PromoteSwap
    BY <1>1, <1>2, <1>PromoteSwap
       DEF PromoteSwap, Exchanged, Become, Fail, Touch
  <1>PromoteSwapSync. CASE PromoteSwapSync
    BY <1>1, <1>2, <1>PromoteSwapSync
       DEF PromoteSwapSync, SyncParent, Fail
  <1>PromoteDrop. CASE PromoteDrop
    BY <1>1, <1>2, <1>PromoteDrop, RemnantsType
       DEF PromoteDrop, Rmtree, Become, Target, Absent
  <1>PromoteDropSync. CASE PromoteDropSync
    BY <1>1, <1>2, <1>PromoteDropSync
       DEF PromoteDropSync, SyncParent, Fail
  <1>JournalClear. CASE JournalClear
    BY <1>1, <1>2, <1>JournalClear, RemnantsType
       DEF JournalClear, Rmtree, Become, Target, Absent
  <1>JournalPark. CASE JournalPark
    BY <1>1, <1>2, <1>JournalPark
       DEF JournalPark, Replace, Become, Fail, Absent, ReplaceRefused, Touch
  <1>JournalParkSync. CASE JournalParkSync
    BY <1>1, <1>2, <1>JournalParkSync
       DEF JournalParkSync, SyncParent, Fail
  <1>JournalSwap. CASE JournalSwap
    BY <1>1, <1>2, <1>JournalSwap
       DEF JournalSwap, Replace, Become, Fail, Absent
  <1>JournalSwapSync. CASE JournalSwapSync
    BY <1>1, <1>2, <1>JournalSwapSync
       DEF JournalSwapSync, SyncParent, Fail
  <1>JournalUndo. CASE JournalUndo
    BY <1>1, <1>2, <1>JournalUndo
       DEF JournalUndo, Replace, Become, Fail, Absent
  <1>JournalUndoSync. CASE JournalUndoSync
    BY <1>1, <1>2, <1>JournalUndoSync
       DEF JournalUndoSync, SyncParent, Fail
  <1>JournalDrop. CASE JournalDrop
    BY <1>1, <1>2, <1>JournalDrop, RemnantsType
       DEF JournalDrop, Rmtree, Become, Target, Absent
  <1>JournalDropSync. CASE JournalDropSync
    BY <1>1, <1>2, <1>JournalDropSync
       DEF JournalDropSync, SyncParent, Fail
  <1>Kill. CASE Kill
    BY <1>1, <1>2, <1>Kill, RemnantsType
       DEF Kill, Crashed, Interrupted, Become, Target
  <1>Outage. CASE Outage
    <2>1. PICK m \in journal \cup Interrupted :
            \E f \in SurvivesPowerLoss(m["final"]),
               t \in SurvivesPowerLoss(m["tmp"]),
               o \in SurvivesPowerLoss(m["old"]) :
                dir' = [s \in Slots |-> IF s = "final" THEN f
                                        ELSE IF s = "tmp" THEN t ELSE o]
      BY <1>Outage DEF Outage
    <2>2. m \in [Slots -> Dir] BY <2>1, InterruptedType DEF TypeOK
    <2>3. \A s \in Slots : m[s].weights <= gen
      <3>1. CASE m \in journal BY <3>1
      <3>2. CASE m \in Interrupted
        BY <1>2, <3>2, RemnantsType DEF Interrupted, Target
      <3>3. QED BY <2>1, <3>1, <3>2
    <2>4. \A s \in Slots : dir'[s] \in SurvivesPowerLoss(m[s]) BY <1>2, <2>1
    <2>5. \A s \in Slots : dir'[s].weights <= gen
      BY <1>2, <2>2, <2>3, <2>4, SurvivesType
    <2>6. NoneIsNewer' BY <1>Outage, <2>5 DEF Outage, Crashed
    <2>7. QED BY <1>2, <1>Outage, <2>6 DEF Outage, Crashed
  <1>Restart. CASE Restart
    BY <1>1, <1>2, <1>Restart
       DEF Restart
  <1>Stutter. CASE UNCHANGED vars BY <1>1, <1>2, <1>Stutter DEF vars
  <1>3. QED
    BY <1>BeginSave, <1>BeginRepair, <1>Return, <1>Raise, <1>RecoverTest,
       <1>RecoverClear, <1>RecoverMove, <1>RecoverSync, <1>RecoverDropTmp,
       <1>RecoverDropOld, <1>StageClear, <1>StageMake, <1>StageWeights, <1>StageMeta,
       <1>StageCheck, <1>StageFlush, <1>StageMark, <1>Cleanup, <1>Promote,
       <1>PromoteFirst, <1>PromoteFirstSync, <1>PromoteSwap, <1>PromoteSwapSync,
       <1>PromoteDrop, <1>PromoteDropSync, <1>JournalClear, <1>JournalPark,
       <1>JournalParkSync, <1>JournalSwap, <1>JournalSwapSync, <1>JournalUndo,
       <1>JournalUndoSync, <1>JournalDrop, <1>JournalDropSync, <1>Kill, <1>Outage,
       <1>Restart, <1>Stutter
       DEF Next

-----------------------------------------------------------------------------
\* How a save may end when it raises.

\* A reader of the directories: the new generation, the one from before, or none.
Ending ==
    \/ Promoted(dir["final"])
    \/ Complete(dir["final"]) /\ dir["final"].weights = base
    \/ ~Complete(dir["final"]) /\ base # 0 /\ R = base
    \/ ~Complete(dir["final"]) /\ base = 0 /\ R \in {0, gen}

\* Until it promotes, a save keeps the output it found; while the output is parked
\* it is in .old, and the new one is whole beside it.
Kept ==
    op = "save" =>
    /\ pc \in SettledSteps \cup StagedSteps /\ Complete(dir["final"]) =>
         dir["final"].weights = base
    /\ pc \in {"j_park_sync", "j_swap", "j_undo"} =>
         /\ ~Complete(dir["final"]) /\ dir["tmp"].weights = gen
         /\ IF Complete(dir["old"]) THEN dir["old"].weights = base ELSE base = 0
    /\ pc \in {"j_undo_sync", "raise"} => Ending

LEMMA StepKept ==
    ASSUME TypeOK, TypeOK', Durability, Durability', Refining, Refining', Kept, [Next]_vars
    PROVE  Kept'
  <1>1. /\ dir["final"].weights \in Nat /\ dir["tmp"].weights \in Nat
        /\ dir["old"].weights \in Nat
    BY DirFacts, ArtifactStoreAssumption DEF Dir, Gens
  <1>2. /\ dir["final"] \in Dir /\ dir["tmp"] \in Dir /\ dir["old"] \in Dir
        /\ Slots = {"final", "tmp", "old"} /\ DOMAIN dir = Slots
        /\ gen \in Nat \ {0} /\ acked \in Nat
    BY DirFacts
  <1> USE DEF Kept, Ending, Refining, RunningIsSave, NoneIsNewer, Recovery, FirstSave,
              R, Recoverable, SettledSteps, StagedSteps, Sealed,
              Durability, Staging, Calls, Promoted, Whole, Complete,
              BuildSteps, SealedSteps, PromotedSteps,
              RepairSteps, RemoveSteps, Steps, Goto, Constant
  <1>BeginSave. CASE BeginSave
    BY <1>1, <1>2, <1>BeginSave
       DEF BeginSave
  <1>BeginRepair. CASE BeginRepair
    BY <1>1, <1>2, <1>BeginRepair
       DEF BeginRepair
  <1>Return. CASE Return
    BY <1>1, <1>2, <1>Return
       DEF Return
  <1>Raise. CASE Raise
    BY <1>1, <1>2, <1>Raise
       DEF Raise
  <1>RecoverTest. CASE RecoverTest
    BY <1>1, <1>2, <1>RecoverTest
       DEF RecoverTest, Candidate
  <1>RecoverClear. CASE RecoverClear
    BY <1>1, <1>2, <1>RecoverClear, RemnantsType
       DEF RecoverClear, Rmtree, Become, Target, Absent
  <1>RecoverMove. CASE RecoverMove
    BY <1>1, <1>2, <1>RecoverMove
       DEF RecoverMove, Replace, Become, Fail, Absent, ReplaceRefused, Touch
  <1>RecoverSync. CASE RecoverSync
    BY <1>1, <1>2, <1>RecoverSync
       DEF RecoverSync, SyncParent, Fail
  <1>RecoverDropTmp. CASE RecoverDropTmp
    BY <1>1, <1>2, <1>RecoverDropTmp, RemnantsType
       DEF RecoverDropTmp, Rmtree, Become, Target, Absent
  <1>RecoverDropOld. CASE RecoverDropOld
    BY <1>1, <1>2, <1>RecoverDropOld, RemnantsType
       DEF RecoverDropOld, Rmtree, Become, Target, Absent
  <1>StageClear. CASE StageClear
    BY <1>1, <1>2, <1>StageClear, RemnantsType
       DEF StageClear, Rmtree, Become, Target, Absent
  <1>StageMake. CASE StageMake
    BY <1>1, <1>2, <1>StageMake
       DEF StageMake, Stage, Become, Fail, Dir
  <1>StageWeights. CASE StageWeights
    BY <1>1, <1>2, <1>StageWeights
       DEF StageWeights, Stage, Become, Fail, Dir
  <1>StageMeta. CASE StageMeta
    BY <1>1, <1>2, <1>StageMeta
       DEF StageMeta, Stage, Become, Fail, Dir
  <1>StageCheck. CASE StageCheck
    BY <1>1, <1>2, <1>StageCheck
       DEF StageCheck, Touch
  <1>StageFlush. CASE StageFlush
    BY <1>1, <1>2, <1>StageFlush
       DEF StageFlush, Stage, Become, Fail, Dir
  <1>StageMark. CASE StageMark
    BY <1>1, <1>2, <1>StageMark
       DEF StageMark, Stage, Become, Fail, Dir, SealedTmp
  <1>Cleanup. CASE Cleanup
    BY <1>1, <1>2, <1>Cleanup, RemnantsType
       DEF Cleanup, Rmtree, Become, Target, Absent
  <1>Promote. CASE Promote
    BY <1>1, <1>2, <1>Promote
       DEF Promote, Touch
  <1>PromoteFirst. CASE PromoteFirst
    BY <1>1, <1>2, <1>PromoteFirst
       DEF PromoteFirst, Replace, Become, Fail, Absent
  <1>PromoteFirstSync. CASE PromoteFirstSync
    BY <1>1, <1>2, <1>PromoteFirstSync
       DEF PromoteFirstSync, SyncParent, Fail
  <1>PromoteSwap. CASE PromoteSwap
    BY <1>1, <1>2, <1>PromoteSwap
       DEF PromoteSwap, Exchanged, Become, Fail, Touch
  <1>PromoteSwapSync. CASE PromoteSwapSync
    BY <1>1, <1>2, <1>PromoteSwapSync
       DEF PromoteSwapSync, SyncParent, Fail
  <1>PromoteDrop. CASE PromoteDrop
    BY <1>1, <1>2, <1>PromoteDrop, RemnantsType
       DEF PromoteDrop, Rmtree, Become, Target, Absent
  <1>PromoteDropSync. CASE PromoteDropSync
    BY <1>1, <1>2, <1>PromoteDropSync
       DEF PromoteDropSync, SyncParent, Fail
  <1>JournalClear. CASE JournalClear
    BY <1>1, <1>2, <1>JournalClear, RemnantsType
       DEF JournalClear, Rmtree, Become, Target, Absent
  <1>JournalPark. CASE JournalPark
    BY <1>1, <1>2, <1>JournalPark
       DEF JournalPark, Replace, Become, Fail, Absent, ReplaceRefused, Touch
  <1>JournalParkSync. CASE JournalParkSync
    BY <1>1, <1>2, <1>JournalParkSync
       DEF JournalParkSync, SyncParent, Fail
  <1>JournalSwap. CASE JournalSwap
    BY <1>1, <1>2, <1>JournalSwap
       DEF JournalSwap, Replace, Become, Fail, Absent
  <1>JournalSwapSync. CASE JournalSwapSync
    BY <1>1, <1>2, <1>JournalSwapSync
       DEF JournalSwapSync, SyncParent, Fail
  <1>JournalUndo. CASE JournalUndo
    BY <1>1, <1>2, <1>JournalUndo
       DEF JournalUndo, Replace, Become, Fail, Absent
  <1>JournalUndoSync. CASE JournalUndoSync
    BY <1>1, <1>2, <1>JournalUndoSync
       DEF JournalUndoSync, SyncParent, Fail
  <1>JournalDrop. CASE JournalDrop
    BY <1>1, <1>2, <1>JournalDrop, RemnantsType
       DEF JournalDrop, Rmtree, Become, Target, Absent
  <1>JournalDropSync. CASE JournalDropSync
    BY <1>1, <1>2, <1>JournalDropSync
       DEF JournalDropSync, SyncParent, Fail
  <1>Kill. CASE Kill
    BY <1>1, <1>2, <1>Kill
       DEF Kill, Crashed
  <1>Outage. CASE Outage
    BY <1>1, <1>2, <1>Outage
       DEF Outage, Crashed
  <1>Restart. CASE Restart
    BY <1>1, <1>2, <1>Restart
       DEF Restart
  <1>Stutter. CASE UNCHANGED vars BY <1>1, <1>2, <1>Stutter DEF vars
  <1>3. QED
    BY <1>BeginSave, <1>BeginRepair, <1>Return, <1>Raise, <1>RecoverTest,
       <1>RecoverClear, <1>RecoverMove, <1>RecoverSync, <1>RecoverDropTmp,
       <1>RecoverDropOld, <1>StageClear, <1>StageMake, <1>StageWeights,
       <1>StageMeta, <1>StageCheck, <1>StageFlush, <1>StageMark, <1>Cleanup,
       <1>Promote, <1>PromoteFirst, <1>PromoteFirstSync, <1>PromoteSwap,
       <1>PromoteSwapSync, <1>PromoteDrop, <1>PromoteDropSync, <1>JournalClear,
       <1>JournalPark, <1>JournalParkSync, <1>JournalSwap, <1>JournalSwapSync,
       <1>JournalUndo, <1>JournalUndoSync, <1>JournalDrop, <1>JournalDropSync,
       <1>Kill, <1>Outage, <1>Restart, <1>Stutter
       DEF Next

-----------------------------------------------------------------------------
\* Every step is a step of the register, or changes nothing it can see: Commit
\* where a reader first gets the new generation (the seal of a first save, the
\* rename or the exchange of a later one), Withdraw where a failing first save
\* removes what it had sealed.
LEMMA StepMaps ==
    ASSUME TypeOK, TypeOK', Durability, Durability', Refining, [Next]_vars, Refining'
    PROVE  [Output!Next]_Output!avars
  <1>1. /\ dir["final"].weights \in Nat /\ dir["tmp"].weights \in Nat
        /\ dir["old"].weights \in Nat
    BY DirFacts, ArtifactStoreAssumption DEF Dir, Gens
  <1>2. /\ dir["final"] \in Dir /\ dir["tmp"] \in Dir /\ dir["old"] \in Dir
        /\ Slots = {"final", "tmp", "old"} /\ DOMAIN dir = Slots
        /\ gen \in Nat \ {0} /\ acked \in Nat
    BY DirFacts
  <1> USE DEF Refining, RunningIsSave, NoneIsNewer, Recovery, FirstSave, Platform,
              R, Recoverable, SettledSteps, StagedSteps, JournalSteps, Sealed,
              Durability, Staging, Calls, Promoted, Whole, Complete,
              BuildSteps, SealedSteps, PromotedSteps,
              RepairSteps, RemoveSteps, Steps, Goto, Constant,
              Output!Next, Output!Begin, Output!Running, Output!Commit, Output!Withdraw,
              Output!Succeed, Output!Abort, Output!AbortWithdrawn, Output!Outage,
              Output!avars
  <1>BeginSave. CASE BeginSave
    BY <1>1, <1>2, <1>BeginSave
       DEF BeginSave
  <1>BeginRepair. CASE BeginRepair
    BY <1>1, <1>2, <1>BeginRepair
       DEF BeginRepair
  <1>Return. CASE Return
    BY <1>1, <1>2, <1>Return
       DEF Return
  <1>Raise. CASE Raise
    BY <1>1, <1>2, <1>Raise
       DEF Raise
  <1>RecoverTest. CASE RecoverTest
    BY <1>1, <1>2, <1>RecoverTest
       DEF RecoverTest, Candidate
  <1>RecoverClear. CASE RecoverClear
    BY <1>1, <1>2, <1>RecoverClear, RemnantsType
       DEF RecoverClear, Rmtree, Become, Target, Absent
  <1>RecoverMove. CASE RecoverMove
    BY <1>1, <1>2, <1>RecoverMove
       DEF RecoverMove, Replace, Become, Fail, Absent, ReplaceRefused, Touch
  <1>RecoverSync. CASE RecoverSync
    BY <1>1, <1>2, <1>RecoverSync
       DEF RecoverSync, SyncParent, Fail
  <1>RecoverDropTmp. CASE RecoverDropTmp
    BY <1>1, <1>2, <1>RecoverDropTmp, RemnantsType
       DEF RecoverDropTmp, Rmtree, Become, Target, Absent
  <1>RecoverDropOld. CASE RecoverDropOld
    BY <1>1, <1>2, <1>RecoverDropOld, RemnantsType
       DEF RecoverDropOld, Rmtree, Become, Target, Absent
  <1>StageClear. CASE StageClear
    BY <1>1, <1>2, <1>StageClear, RemnantsType
       DEF StageClear, Rmtree, Become, Target, Absent
  <1>StageMake. CASE StageMake
    BY <1>1, <1>2, <1>StageMake
       DEF StageMake, Stage, Become, Fail, Dir
  <1>StageWeights. CASE StageWeights
    <2>1. ASSUME NEW d \in {[dir["tmp"] EXCEPT !.weights = gen],
                            [dir["tmp"] EXCEPT !.weights = 0]},
                 Become([dir EXCEPT !["tmp"] = d])
          PROVE  R' \in {R, gen}
      <3>1. d.marker = dir["tmp"].marker /\ d.weights \in {0, gen} BY <1>2 DEF Dir
      <3>2. /\ dir'["final"] = dir["final"] /\ dir'["old"] = dir["old"]
            /\ dir'["tmp"] = d
        BY <1>2, <2>1 DEF Become
      <3>3. Complete(dir["final"]) \/ R = 0
        BY <1>StageWeights DEF StageWeights, Stage
      <3>4. QED BY <3>1, <3>2, <3>3
    <2>2. R' \in {R, gen} BY <1>StageWeights, <2>1 DEF StageWeights, Stage
    <2>3. /\ UNCHANGED <<gen, base, acked, status>> /\ status = "running"
      <3>1. pc = "s_weights" /\ UNCHANGED <<gen, base, acked, status>>
        BY <1>StageWeights DEF StageWeights, Stage
      <3>2. QED BY <3>1 DEF TypeOK
    <2>4. QED BY <2>2, <2>3
  <1>StageMeta. CASE StageMeta
    BY <1>1, <1>2, <1>StageMeta
       DEF StageMeta, Stage, Become, Fail, Dir
  <1>StageCheck. CASE StageCheck
    BY <1>1, <1>2, <1>StageCheck
       DEF StageCheck, Touch
  <1>StageFlush. CASE StageFlush
    BY <1>1, <1>2, <1>StageFlush
       DEF StageFlush, Stage, Become, Fail, Dir
  <1>StageMark. CASE StageMark
    <2>1. CASE Fail("s_mark", "c_drop") BY <2>1 DEF Fail
    <2>2. CASE Become([dir EXCEPT !["tmp"] = SealedTmp])
      <3>1. /\ dir'["final"] = dir["final"] /\ dir'["old"] = dir["old"]
            /\ dir'["tmp"] = SealedTmp
        BY <1>2, <2>2 DEF Become
      <3>2. pc = "s_mark" /\ UNCHANGED <<gen, base, acked, status>>
        BY <1>2, <1>StageMark, <2>2 DEF StageMark, Stage, Fail
      <3>3. SealedTmp.weights = gen /\ SealedTmp.marker = gen
        BY <1>2, <3>2 DEF SealedTmp, Dir
      <3>4. R' \in {R, gen} BY <1>2, <3>1, <3>3
      <3>5. status = "running" BY <3>2 DEF TypeOK
      <3>6. QED BY <3>2, <3>4, <3>5
    <2>3. QED BY <1>StageMark, <2>1, <2>2 DEF StageMark, Stage
  <1>Cleanup. CASE Cleanup
    <2>1. PICK d : /\ d = Absent \/ d \in Remnants(dir["tmp"])
                   /\ Become([dir EXCEPT !["tmp"] = d])
      BY <1>Cleanup DEF Cleanup, Rmtree, Target
    <2>2. /\ dir'["final"] = dir["final"] /\ dir'["old"] = dir["old"] /\ dir'["tmp"] = d
          /\ d.weights \in {0, dir["tmp"].weights} /\ d.marker \in {0, dir["tmp"].marker}
      BY <1>2, <2>1, RemnantsType DEF Become, Absent
    <2>3. /\ pc = "c_drop" /\ status = "running" /\ UNCHANGED <<gen, base, acked, status>>
      BY <1>2, <1>Cleanup DEF Cleanup, Rmtree, TypeOK
    <2>4. R' = R \/ (R = gen /\ R' = 0 /\ base = 0)
      BY <1>2, <1>Cleanup, <2>2, <2>3 DEF Cleanup, Rmtree
    <2>5. QED BY <2>3, <2>4
  <1>Promote. CASE Promote
    BY <1>1, <1>2, <1>Promote
       DEF Promote, Touch
  <1>PromoteFirst. CASE PromoteFirst
    <2>1. CASE Fail("p_first", "raise") BY <2>1 DEF Fail
    <2>2. CASE Replace("p_first", "tmp", "final", "p_first_sync")
      <3>1. dir'["final"] = dir["tmp"] /\ dir["tmp"].weights = gen
        BY <1>2, <2>2 DEF Replace, Become
      <3>2. R' = gen BY <1>2, <3>1
      <3>3. /\ UNCHANGED <<gen, base, acked, status>> /\ status = "running"
        BY <1>2, <2>2 DEF Replace, TypeOK
      <3>4. QED BY <3>2, <3>3
    <2>3. QED BY <1>PromoteFirst, <2>1, <2>2 DEF PromoteFirst
  <1>PromoteFirstSync. CASE PromoteFirstSync
    BY <1>1, <1>2, <1>PromoteFirstSync
       DEF PromoteFirstSync, SyncParent, Fail
  <1>PromoteSwap. CASE PromoteSwap
    <2>1. CASE dir' = dir BY <1>PromoteSwap, <2>1 DEF PromoteSwap, Fail, Touch
    <2>2. CASE Become(Exchanged)
      <3>1. dir'["final"] = dir["tmp"] /\ dir["tmp"].weights = gen
        BY <1>2, <1>PromoteSwap, <2>2 DEF PromoteSwap, Become, Exchanged, Fail, Touch
      <3>2. R' = gen BY <1>2, <3>1
      <3>3. /\ UNCHANGED <<gen, base, acked, status>> /\ status = "running"
        BY <1>2, <1>PromoteSwap DEF PromoteSwap, Fail, Touch, TypeOK
      <3>4. QED BY <3>2, <3>3
    <2>3. QED BY <1>PromoteSwap, <2>1, <2>2 DEF PromoteSwap, Fail, Touch
  <1>PromoteSwapSync. CASE PromoteSwapSync
    BY <1>1, <1>2, <1>PromoteSwapSync
       DEF PromoteSwapSync, SyncParent, Fail
  <1>PromoteDrop. CASE PromoteDrop
    BY <1>1, <1>2, <1>PromoteDrop, RemnantsType
       DEF PromoteDrop, Rmtree, Become, Target, Absent
  <1>PromoteDropSync. CASE PromoteDropSync
    BY <1>1, <1>2, <1>PromoteDropSync
       DEF PromoteDropSync, SyncParent, Fail
  <1>JournalClear. CASE JournalClear
    BY <1>1, <1>2, <1>JournalClear, RemnantsType
       DEF JournalClear, Rmtree, Become, Target, Absent
  <1>JournalPark. CASE JournalPark
    BY <1>1, <1>2, <1>JournalPark
       DEF JournalPark, Replace, Become, Fail, Absent, ReplaceRefused, Touch
  <1>JournalParkSync. CASE JournalParkSync
    BY <1>1, <1>2, <1>JournalParkSync
       DEF JournalParkSync, SyncParent, Fail
  <1>JournalSwap. CASE JournalSwap
    <2>1. CASE Fail("j_swap", "j_undo") BY <2>1 DEF Fail
    <2>2. CASE Replace("j_swap", "tmp", "final", "j_swap_sync")
      <3>1. dir'["final"] = dir["tmp"] /\ dir["tmp"].weights = gen
        BY <1>2, <2>2 DEF Replace, Become
      <3>2. R' = gen BY <1>2, <3>1
      <3>3. /\ UNCHANGED <<gen, base, acked, status>> /\ status = "running"
        BY <1>2, <2>2 DEF Replace, TypeOK
      <3>4. QED BY <3>2, <3>3
    <2>3. QED BY <1>JournalSwap, <2>1, <2>2 DEF JournalSwap
  <1>JournalSwapSync. CASE JournalSwapSync
    BY <1>1, <1>2, <1>JournalSwapSync
       DEF JournalSwapSync, SyncParent, Fail
  <1>JournalUndo. CASE JournalUndo
    BY <1>1, <1>2, <1>JournalUndo
       DEF JournalUndo, Replace, Become, Fail, Absent
  <1>JournalUndoSync. CASE JournalUndoSync
    BY <1>1, <1>2, <1>JournalUndoSync
       DEF JournalUndoSync, SyncParent, Fail
  <1>JournalDrop. CASE JournalDrop
    BY <1>1, <1>2, <1>JournalDrop, RemnantsType
       DEF JournalDrop, Rmtree, Become, Target, Absent
  <1>JournalDropSync. CASE JournalDropSync
    BY <1>1, <1>2, <1>JournalDropSync
       DEF JournalDropSync, SyncParent, Fail
  <1>Kill. CASE Kill
    <2>1. /\ status' = IF status = "running" THEN "failed" ELSE status
          /\ UNCHANGED <<gen, base, acked>>
      BY <1>Kill DEF Kill, Crashed
    <2>2. R' = R \/ (status = "running" /\ base = 0 /\ R = gen /\ R' = 0)
      <3>1. CASE dir' = dir BY <3>1
      <3>2. ASSUME pc \in RemoveSteps \cup {"s_weights"}, NEW r \in Remnants(dir[Target]),
                   dir' = [dir EXCEPT ![Target] = r]
            PROVE  R' = R \/ (status = "running" /\ base = 0 /\ R = gen /\ R' = 0)
        <4>1. /\ dir'[Target] = r /\ \A s \in Slots \ {Target} : dir'[s] = dir[s]
              /\ r.weights \in {0, dir[Target].weights}
              /\ r.marker \in {0, dir[Target].marker}
          BY <1>2, <3>2, RemnantsType, TargetType
        <4>2. CASE pc \in {"r_clear", "r_old", "j_clear", "j_drop"}
          BY <1>2, <4>1, <4>2 DEF Target
        <4>3. CASE pc \in {"r_tmp", "s_clear", "s_weights", "p_drop"}
          BY <1>2, <4>1, <4>3 DEF Target
        <4>4. CASE pc = "c_drop"
          BY <1>2, <4>1, <4>4 DEF Target, TypeOK
        <4>5. QED BY <3>2, <4>2, <4>3, <4>4
      <3>3. QED BY <1>Kill, <3>1, <3>2 DEF Kill, Interrupted, Become
    <2>3. QED BY <2>1, <2>2
  <1>Outage. CASE Outage
    <2>1. /\ PowerLoss /\ UNCHANGED <<gen, base, acked>>
          /\ status' = IF status = "running" THEN "failed" ELSE status
      BY <1>Outage DEF Outage, Crashed
    <2>2. R' \in Nat /\ dir' \in journal'
      BY RecoverableType, ArtifactStoreAssumption DEF TypeOK, Gens
    <2>3. R' <= gen BY <1>2, <2>1, <2>2
    <2>4. acked <= R'
      <3>1. CASE acked = 0 BY <2>2, <3>1
      <3>2. CASE acked # 0
        BY <1>2, <2>1, <2>2, <3>2 DEF Safe, Durable
      <3>3. QED BY <3>1, <3>2
    <2>5. QED BY <1>2, <2>1, <2>2, <2>3, <2>4
  <1>Restart. CASE Restart
    BY <1>1, <1>2, <1>Restart
       DEF Restart
  <1>Stutter. CASE UNCHANGED vars BY <1>1, <1>2, <1>Stutter DEF vars
  <1>3. QED
    BY <1>BeginSave, <1>BeginRepair, <1>Return, <1>Raise, <1>RecoverTest,
       <1>RecoverClear, <1>RecoverMove, <1>RecoverSync, <1>RecoverDropTmp,
       <1>RecoverDropOld, <1>StageClear, <1>StageMake, <1>StageWeights, <1>StageMeta,
       <1>StageCheck, <1>StageFlush, <1>StageMark, <1>Cleanup, <1>Promote,
       <1>PromoteFirst, <1>PromoteFirstSync, <1>PromoteSwap, <1>PromoteSwapSync,
       <1>PromoteDrop, <1>PromoteDropSync, <1>JournalClear, <1>JournalPark,
       <1>JournalParkSync, <1>JournalSwap, <1>JournalSwapSync, <1>JournalUndo,
       <1>JournalUndoSync, <1>JournalDrop, <1>JournalDropSync, <1>Kill, <1>Outage,
       <1>Restart, <1>Stutter
       DEF Next

-----------------------------------------------------------------------------
\* With the atomic exchange no step hides the output or makes it older.
LEMMA StepVisible ==
    ASSUME TypeOK, TypeOK', Durability, Durability', Refining, [Next]_vars, Refining'
    PROVE  platform = "linux" /\ Complete(dir["final"]) /\ ~Outage =>
             Complete(dir'["final"]) /\ dir["final"].weights <= dir'["final"].weights
  <1>1. /\ dir["final"].weights \in Nat /\ dir["tmp"].weights \in Nat
        /\ dir["old"].weights \in Nat
    BY DirFacts, ArtifactStoreAssumption DEF Dir, Gens
  <1>2. /\ dir["final"] \in Dir /\ dir["tmp"] \in Dir /\ dir["old"] \in Dir
        /\ Slots = {"final", "tmp", "old"} /\ DOMAIN dir = Slots
        /\ gen \in Nat \ {0} /\ acked \in Nat
    BY DirFacts
  <1> USE DEF Refining, RunningIsSave, NoneIsNewer, Recovery, FirstSave, Platform,
              R, Recoverable, SettledSteps, StagedSteps, JournalSteps, Sealed,
              Durability, Staging, Calls, Promoted, Whole, Complete,
              BuildSteps, SealedSteps, PromotedSteps,
              RepairSteps, RemoveSteps, Steps, Goto, Constant
  <1>BeginSave. CASE BeginSave
    BY <1>1, <1>2, <1>BeginSave
       DEF BeginSave
  <1>BeginRepair. CASE BeginRepair
    BY <1>1, <1>2, <1>BeginRepair
       DEF BeginRepair
  <1>Return. CASE Return
    BY <1>1, <1>2, <1>Return
       DEF Return
  <1>Raise. CASE Raise
    BY <1>1, <1>2, <1>Raise
       DEF Raise
  <1>RecoverTest. CASE RecoverTest
    BY <1>1, <1>2, <1>RecoverTest
       DEF RecoverTest, Candidate
  <1>RecoverClear. CASE RecoverClear
    BY <1>1, <1>2, <1>RecoverClear, RemnantsType
       DEF RecoverClear, Rmtree, Become, Target, Absent
  <1>RecoverMove. CASE RecoverMove
    BY <1>1, <1>2, <1>RecoverMove
       DEF RecoverMove, Replace, Become, Fail, Absent, ReplaceRefused, Touch
  <1>RecoverSync. CASE RecoverSync
    BY <1>1, <1>2, <1>RecoverSync
       DEF RecoverSync, SyncParent, Fail
  <1>RecoverDropTmp. CASE RecoverDropTmp
    BY <1>1, <1>2, <1>RecoverDropTmp, RemnantsType
       DEF RecoverDropTmp, Rmtree, Become, Target, Absent
  <1>RecoverDropOld. CASE RecoverDropOld
    BY <1>1, <1>2, <1>RecoverDropOld, RemnantsType
       DEF RecoverDropOld, Rmtree, Become, Target, Absent
  <1>StageClear. CASE StageClear
    BY <1>1, <1>2, <1>StageClear, RemnantsType
       DEF StageClear, Rmtree, Become, Target, Absent
  <1>StageMake. CASE StageMake
    BY <1>1, <1>2, <1>StageMake
       DEF StageMake, Stage, Become, Fail, Dir
  <1>StageWeights. CASE StageWeights
    BY <1>1, <1>2, <1>StageWeights
       DEF StageWeights, Stage, Become, Fail, Dir
  <1>StageMeta. CASE StageMeta
    BY <1>1, <1>2, <1>StageMeta
       DEF StageMeta, Stage, Become, Fail, Dir
  <1>StageCheck. CASE StageCheck
    BY <1>1, <1>2, <1>StageCheck
       DEF StageCheck, Touch
  <1>StageFlush. CASE StageFlush
    BY <1>1, <1>2, <1>StageFlush
       DEF StageFlush, Stage, Become, Fail, Dir
  <1>StageMark. CASE StageMark
    BY <1>1, <1>2, <1>StageMark
       DEF StageMark, Stage, Become, Fail, Dir, SealedTmp
  <1>Cleanup. CASE Cleanup
    BY <1>1, <1>2, <1>Cleanup, RemnantsType
       DEF Cleanup, Rmtree, Become, Target, Absent
  <1>Promote. CASE Promote
    BY <1>1, <1>2, <1>Promote
       DEF Promote, Touch
  <1>PromoteFirst. CASE PromoteFirst
    BY <1>1, <1>2, <1>PromoteFirst
       DEF PromoteFirst, Replace, Become, Fail, Absent
  <1>PromoteFirstSync. CASE PromoteFirstSync
    BY <1>1, <1>2, <1>PromoteFirstSync
       DEF PromoteFirstSync, SyncParent, Fail
  <1>PromoteSwap. CASE PromoteSwap
    BY <1>1, <1>2, <1>PromoteSwap
       DEF PromoteSwap, Exchanged, Become, Fail, Touch
  <1>PromoteSwapSync. CASE PromoteSwapSync
    BY <1>1, <1>2, <1>PromoteSwapSync
       DEF PromoteSwapSync, SyncParent, Fail
  <1>PromoteDrop. CASE PromoteDrop
    BY <1>1, <1>2, <1>PromoteDrop, RemnantsType
       DEF PromoteDrop, Rmtree, Become, Target, Absent
  <1>PromoteDropSync. CASE PromoteDropSync
    BY <1>1, <1>2, <1>PromoteDropSync
       DEF PromoteDropSync, SyncParent, Fail
  <1>JournalClear. CASE JournalClear
    BY <1>1, <1>2, <1>JournalClear, RemnantsType
       DEF JournalClear, Rmtree, Become, Target, Absent
  <1>JournalPark. CASE JournalPark
    BY <1>1, <1>2, <1>JournalPark
       DEF JournalPark, Replace, Become, Fail, Absent, ReplaceRefused, Touch
  <1>JournalParkSync. CASE JournalParkSync
    BY <1>1, <1>2, <1>JournalParkSync
       DEF JournalParkSync, SyncParent, Fail
  <1>JournalSwap. CASE JournalSwap
    BY <1>1, <1>2, <1>JournalSwap
       DEF JournalSwap, Replace, Become, Fail, Absent
  <1>JournalSwapSync. CASE JournalSwapSync
    BY <1>1, <1>2, <1>JournalSwapSync
       DEF JournalSwapSync, SyncParent, Fail
  <1>JournalUndo. CASE JournalUndo
    BY <1>1, <1>2, <1>JournalUndo
       DEF JournalUndo, Replace, Become, Fail, Absent
  <1>JournalUndoSync. CASE JournalUndoSync
    BY <1>1, <1>2, <1>JournalUndoSync
       DEF JournalUndoSync, SyncParent, Fail
  <1>JournalDrop. CASE JournalDrop
    BY <1>1, <1>2, <1>JournalDrop, RemnantsType
       DEF JournalDrop, Rmtree, Become, Target, Absent
  <1>JournalDropSync. CASE JournalDropSync
    BY <1>1, <1>2, <1>JournalDropSync
       DEF JournalDropSync, SyncParent, Fail
  <1>Kill. CASE Kill
    BY <1>1, <1>2, <1>Kill, RemnantsType
       DEF Kill, Crashed, Interrupted, Become, Target
  <1>Outage. CASE Outage
    BY <1>1, <1>2, <1>Outage
       DEF Outage, Crashed
  <1>Restart. CASE Restart
    BY <1>1, <1>2, <1>Restart
       DEF Restart
  <1>Stutter. CASE UNCHANGED vars BY <1>1, <1>2, <1>Stutter DEF vars
  <1>3. QED
    BY <1>BeginSave, <1>BeginRepair, <1>Return, <1>Raise, <1>RecoverTest,
       <1>RecoverClear, <1>RecoverMove, <1>RecoverSync, <1>RecoverDropTmp,
       <1>RecoverDropOld, <1>StageClear, <1>StageMake, <1>StageWeights, <1>StageMeta,
       <1>StageCheck, <1>StageFlush, <1>StageMark, <1>Cleanup, <1>Promote,
       <1>PromoteFirst, <1>PromoteFirstSync, <1>PromoteSwap, <1>PromoteSwapSync,
       <1>PromoteDrop, <1>PromoteDropSync, <1>JournalClear, <1>JournalPark,
       <1>JournalParkSync, <1>JournalSwap, <1>JournalSwapSync, <1>JournalUndo,
       <1>JournalUndoSync, <1>JournalDrop, <1>JournalDropSync, <1>Kill, <1>Outage,
       <1>Restart, <1>Stutter
       DEF Next

-----------------------------------------------------------------------------
\* Refining is an invariant: the strengthening under which every operation of
\* save_adapter and of recovery is a step of the register (common.py:523-942).
THEOREM RefiningHolds == Spec => []Refining
  <1>1. Init => TypeOK /\ Durability /\ Refining
    BY InitType, InitDurable, InitRefining
  <1>2. TypeOK /\ Durability /\ Refining /\ [Next]_vars
        => TypeOK' /\ Durability' /\ Refining'
    BY StepType, StepDurable, StepRefining
  <1>3. QED BY <1>1, <1>2, PTL DEF Spec

\* The directories implement the register: an error, a kill or a power loss
\* between any two operations leaves recovery with the generation that was there
\* before the save, or with the one being saved (common.py:848-942).
THEOREM ImplementsAtomicOutput == Spec => ReplacesAtomically
  <1>1. Init => Output!Init
    BY InitRefining DEF Init, Output!Init, R, FloorGen
  <1>2. /\ TypeOK /\ TypeOK' /\ Durability /\ Durability'
        /\ Refining /\ Refining' /\ [Next]_vars
        => [Output!Next]_Output!avars
    BY StepMaps
  <1>3. QED
    BY <1>1, <1>2, TypeCorrect, DurabilityHolds, RefiningHolds, PTL
       DEF Spec, ReplacesAtomically, Output!Spec

\* Where renameat2 exists, no operation and no kill makes the path the validator
\* uploads disappear or go back to an older generation (common.py:757-845).
THEOREM OutputStaysVisible == Spec => OutputNeverHidden
  <1>1. /\ TypeOK /\ TypeOK' /\ Durability /\ Durability'
        /\ Refining /\ Refining' /\ [Next]_vars
        => [platform = "linux" /\ Complete(dir["final"]) /\ ~Outage =>
              /\ Complete(dir'["final"])
              /\ dir["final"].weights <= dir'["final"].weights]_vars
    BY StepVisible
  <1>2. QED
    BY <1>1, TypeCorrect, DurabilityHolds, RefiningHolds, PTL
       DEF Spec, OutputNeverHidden

\* A save that raises, at whichever operation, leaves its caller the new output,
\* the old one, or the old one to be brought back by the next recovery; and where
\* there was no output, none, or the new one in its staging directory
\* (common.py:523-942).  These are the outcomes of Save in the other modules.
THEOREM RaisedSaveIsOldOrNew == Spec => []RaisedSaveLeavesOldOrNew
  <1>1. Init => Kept
    BY DEF Init, Kept, SettledSteps, StagedSteps
  <1>2. /\ TypeOK /\ TypeOK' /\ Durability /\ Durability'
        /\ Refining /\ Refining' /\ Kept /\ [Next]_vars
        => Kept'
    BY StepKept
  <1>3. Kept => RaisedSaveLeavesOldOrNew
    BY DEF Kept, Ending, RaisedSaveLeavesOldOrNew, R
  <1>4. QED
    BY <1>1, <1>2, <1>3, TypeCorrect, DurabilityHolds, RefiningHolds, PTL DEF Spec
=============================================================================
