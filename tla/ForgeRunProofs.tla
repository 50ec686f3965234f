--------------------------- MODULE ForgeRunProofs ---------------------------
(***************************************************************************)
(* Theorems about ForgeRun, for every set of tasks, caches and outcomes of *)
(* a save, and for any number of failing operations.                       *)
(***************************************************************************)
EXTENDS ForgeRun, TLAPS

-----------------------------------------------------------------------------
\* The inductive invariant.

Rungs == {"rung1", "clear1", "rung2", "clear2", "rung3"}

\* Only the full-fine-tune handler calls emit_untrained_copy for its floor; a
\* process that has an exit status has exited; a handler that has raised does not
\* go on.
Position ==
    /\ pc \in {"setup", "train"} => task # "unknown"
    /\ caller = "handler" => task = "full"
    /\ pc = "label" => caller = "handler"
    /\ pc \in {"parse", "spec", "dispatch", "setup", "train", "label"} => ~raised
    /\ raised => caller = "cli"
    /\ exit # "none" => pc = "exited"

\* A truth file that claims training lies beside trained weights, and the config
\* that a failed rung leaves is never beside them.
Sound(d) ==
    /\ d.truth = "trained" => IsTrained(d)
    /\ d.adapter = "config" => d.model # "trained"

SoundDirs == Sound(out) /\ Sound(aside) /\ (pc \in Rungs => ~IsTrained(out))

\* Once trained weights have been at the output path they are there, or recovery
\* would bring them back; after the recovery they are there; and the rungs are
\* never climbed.
TrainedKept ==
    trained /\ ~denied =>
        /\ pc \notin {"parse", "spec", "dispatch", "setup"} \cup Rungs
        /\ pc \in {"train", "recover"} => IsTrained(Repaired)
        /\ pc \in {"decide", "label", "flush"} => IsTrained(out)
        /\ pc = "exited" /\ raised => IsTrained(IF exit = "zero" THEN out ELSE Repaired)

\* Weights that load and that no later fallback would take for a result.
Good(d) == Loads(d) /\ (cache = "safetensors" => d.model # "plain")

\* The config of an adapter, which an interrupted rung leaves to the next fallback.
ConfigOnly == [Empty EXCEPT !.adapter = "config"]

\* What one fault can have done at each operation.
Absorbed ==
    Usable /\ faults <= 1 /\ ~denied =>
        /\ out \in {Empty, ConfigOnly} \/ Good(out)
        /\ out = ConfigOnly =>
             faults = 1 /\ pc \in {"recover", "decide", "rung1", "clear1", "exited"}
        /\ aside = Empty \/ Good(aside)
        /\ pc \in {"parse", "spec", "dispatch", "setup"} => out = Empty /\ aside = Empty
        /\ pc \in {"decide", "label", "flush"} \cup Rungs => aside = Empty
        /\ pc \in {"rung2", "rung3"} => out = Empty
        /\ pc = "rung1" => out \in {Empty, ConfigOnly}
        /\ pc \in {"clear1", "rung2", "clear2", "rung3"} => faults = 1
        /\ pc \in {"clear2", "rung3"} => cache = "bin"
        /\ pc \in {"label", "flush"} => Good(out)
        /\ pc = "train" \/ exit = "zero" => Good(out) \/ Complete(aside)

Inv == Position /\ SoundDirs /\ TrainedKept /\ Absorbed

-----------------------------------------------------------------------------
\* Every action keeps every part.

\* What is typed; a fault is counted up to the bound.
LEMMA Types ==
    ASSUME TypeOK
    PROVE  /\ out \in Dir /\ aside \in Dir /\ Empty \in Dir /\ Repaired \in Dir
           /\ LoraFloor \in Dir /\ Trained \in Dir
           /\ raised \in BOOLEAN /\ trained \in BOOLEAN /\ denied \in BOOLEAN
           /\ faults \in Nat /\ MaxFaults \in Nat
           /\ Fault \/ NoFault => faults' \in 0 .. MaxFaults /\ faults' >= faults
           /\ Fault => faults' = faults + 1
           /\ NoFault => faults' = faults
  <1>1. out \in Dir /\ aside \in Dir /\ raised \in BOOLEAN /\ trained \in BOOLEAN
        /\ denied \in BOOLEAN /\ faults \in 0 .. MaxFaults /\ MaxFaults \in Nat
    BY ForgeRunAssumption DEF TypeOK
  <1>2. Empty \in Dir /\ LoraFloor \in Dir /\ Trained \in Dir
    BY DEF Empty, LoraFloor, Trained, Dir
  <1>3. Repaired \in Dir BY <1>1 DEF Repaired
  <1>4. Fault \/ NoFault => faults' \in 0 .. MaxFaults /\ faults' >= faults
    BY <1>1 DEF Fault, NoFault
  <1>5. QED BY <1>1, <1>2, <1>3, <1>4 DEF Fault, NoFault

\* A save leaves its artifact; or, failing, what recovery finds, perhaps with the
\* new one sealed aside; or, failing, what recovery finds aside and no output.
LEMMA SaveResult ==
    ASSUME TypeOK, NEW o, NEW d \in Dir, Save(o, d)
    PROVE  /\ out' \in Dir /\ aside' \in Dir /\ faults' \in 0 .. MaxFaults
           /\ trained' = (trained \/ IsTrained(out'))
           /\ faults' >= faults /\ (o # "ok" => faults' = faults + 1)
           /\ \/ out' = d /\ aside' = Empty
              \/ o # "ok" /\ out' = Repaired /\ aside' = Empty
              \/ o # "ok" /\ ~Complete(Repaired) /\ out' = Repaired /\ aside' = d
              \/ o # "ok" /\ Complete(Repaired) /\ out' = Empty /\ aside' = Repaired
  <1>1. o \in {"ok", "clean", "late", "hidden"} BY ForgeRunAssumption DEF Save
  <1>2. Empty \in Dir /\ Repaired \in Dir BY Types
  <1>3. o = "ok" => NoFault BY DEF Save
  <1>4. o # "ok" => Fault BY DEF Save
  <1>5. faults' \in 0 .. MaxFaults /\ faults' >= faults /\ (o # "ok" => faults' = faults + 1)
    BY <1>3, <1>4, Types
  <1>6. CASE o \in {"ok", "late"} BY <1>2, <1>5, <1>6 DEF Save
  <1>7. CASE o = "clean" BY <1>2, <1>5, <1>7 DEF Save
  <1>8. CASE o = "hidden" BY <1>2, <1>5, <1>8 DEF Save
  <1>9. QED BY <1>1, <1>6, <1>7, <1>8

\* The trained artifact is whole, trained and labelled so.
LEMMA TrainedArtifact ==
    ASSUME TypeOK, task # "unknown"
    PROVE  /\ IsTrained(Trained) /\ Loads(Trained) /\ Complete(Trained)
           /\ Trained.adapter # "config" /\ Trained.model # "plain"
  <1>1. task \in {"lora", "full"} BY ForgeRunAssumption DEF TypeOK
  <1>2. QED BY <1>1 DEF Trained, IsTrained, Loads, Complete, Empty

LEMMA StepType ==
    ASSUME TypeOK, Position, [Next]_vars
    PROVE  TypeOK'
  <1>1. /\ out \in Dir /\ aside \in Dir /\ Empty \in Dir /\ Repaired \in Dir
        /\ raised \in BOOLEAN /\ trained \in BOOLEAN /\ denied \in BOOLEAN
        /\ Fault \/ NoFault => faults' \in 0 .. MaxFaults
    BY Types
  <1>Parse. CASE Parse
    BY <1>1, <1>Parse DEF Parse, Goto, Files, Flags, TypeOK
  <1>ParseRejects. CASE ParseRejects
    BY <1>1, <1>ParseRejects DEF ParseRejects, Goto, Files, TypeOK
  <1>BuildSpec. CASE BuildSpec
    BY <1>1, <1>BuildSpec DEF BuildSpec, Goto, Files, TypeOK
  <1>Dispatch. CASE Dispatch
    BY <1>1, <1>Dispatch DEF Dispatch, Goto, Files, Flags, TypeOK
  <1>HandlerRaises. CASE HandlerRaises
    BY <1>1, <1>HandlerRaises DEF HandlerRaises, Goto, Files, TypeOK
  <1>WriteLoraFloor. CASE WriteLoraFloor
    <2>1. PICK o \in SaveOutcomes :
            Save(o, LoraFloor) /\ Goto("setup", IF o = "ok" THEN "train" ELSE "recover")
      BY <1>WriteLoraFloor DEF WriteLoraFloor
    <2>2. /\ out' \in Dir /\ aside' \in Dir /\ faults' \in 0 .. MaxFaults
          /\ trained' \in BOOLEAN
      BY <2>1, Types, SaveResult DEF IsTrained
    <2>3. /\ UNCHANGED <<task, cache, bare, exit, denied>> /\ pc' \in {"train", "recover"}
          /\ raised' \in BOOLEAN /\ caller' = "cli"
      BY <1>WriteLoraFloor, <2>1 DEF WriteLoraFloor, Goto
    <2>4. QED BY <2>2, <2>3 DEF TypeOK
  <1>WriteFullFloor. CASE WriteFullFloor
    BY <1>1, <1>WriteFullFloor DEF WriteFullFloor, Goto, Files, TypeOK
  <1>TrainingSave. CASE TrainingSave
    <2>1. PICK o \in SaveOutcomes :
            /\ Save(o, Trained)
            /\ \/ Goto("train", "train") /\ UNCHANGED raised
               \/ o # "ok" /\ Goto("train", "recover") /\ raised' = TRUE
      BY <1>TrainingSave DEF TrainingSave
    <2>2. /\ out' \in Dir /\ aside' \in Dir /\ faults' \in 0 .. MaxFaults
          /\ trained' \in BOOLEAN
      BY <2>1, Types, SaveResult DEF IsTrained
    <2>3. /\ UNCHANGED <<task, cache, bare, exit, denied>> /\ pc' \in {"train", "recover"}
          /\ raised' \in BOOLEAN /\ caller' = "cli"
      BY <1>1, <1>TrainingSave, <2>1 DEF TrainingSave, Goto
    <2>4. QED BY <2>2, <2>3 DEF TypeOK
  <1>HandlerReturns. CASE HandlerReturns
    BY <1>1, <1>HandlerReturns DEF HandlerReturns, Goto, Files, TypeOK
  <1>Recover. CASE Recover
    BY <1>1, <1>Recover DEF Recover, Goto, TypeOK
  <1>Decide. CASE Decide
    BY <1>1, <1>Decide DEF Decide, Goto, Files, Flags, Emitted, TypeOK
  <1>LoraRung. CASE LoraRung
    BY <1>1, <1>LoraRung
       DEF LoraRung, LoraRemains, Goto, Files, Flags, Climb, Emitted, TypeOK, Dir
  <1>ClearDir1. CASE ClearDir("clear1", "rung2")
    BY <1>1, <1>ClearDir1 DEF ClearDir, Goto, Flags, TypeOK
  <1>MakedirsRaises. CASE MakedirsRaises
    BY <1>1, <1>MakedirsRaises DEF MakedirsRaises, Goto, TypeOK
  <1>PerturbedRung. CASE PerturbedRung
    BY <1>1, <1>PerturbedRung
       DEF PerturbedRung, CopyRemains, Goto, Files, Flags, Climb, Emitted, TypeOK, Dir
  <1>ClearDir2. CASE ClearDir("clear2", "rung3")
    BY <1>1, <1>ClearDir2 DEF ClearDir, Goto, Flags, TypeOK
  <1>PlainRung. CASE PlainRung
    BY <1>1, <1>PlainRung DEF PlainRung, Goto, Flags, Climb, Emitted, TypeOK, Dir
  <1>Interrupted. CASE Interrupted
    BY <1>1, <1>Interrupted
       DEF Interrupted, Remains, LoraRemains, CopyRemains, Goto, TypeOK, Dir
  <1>LabelFloor. CASE LabelFloor
    BY <1>1, <1>LabelFloor DEF LabelFloor, Goto, Flags, TypeOK, Dir
  <1>Flush. CASE Flush
    BY <1>1, <1>Flush DEF Flush, Goto, Files, TypeOK
  <1>Stutter. CASE Exited \/ UNCHANGED vars
    BY <1>Stutter DEF Exited, vars, TypeOK
  <1> QED
    BY <1>Parse, <1>ParseRejects, <1>BuildSpec, <1>Dispatch, <1>HandlerRaises,
       <1>WriteLoraFloor, <1>WriteFullFloor, <1>TrainingSave, <1>HandlerReturns,
       <1>Recover, <1>Decide, <1>LoraRung, <1>ClearDir1, <1>MakedirsRaises,
       <1>PerturbedRung, <1>ClearDir2, <1>PlainRung, <1>Interrupted,
       <1>LabelFloor, <1>Flush, <1>Stutter
       DEF Next

LEMMA StepPosition ==
    ASSUME TypeOK, Position, [Next]_vars
    PROVE  Position'
  <1>Parse. CASE Parse
    BY <1>Parse DEF Parse, Goto, Files, Flags, NoFault, TypeOK, Position
  <1>ParseRejects. CASE ParseRejects
    BY <1>ParseRejects DEF ParseRejects, Goto, Files, Fault, TypeOK, Position
  <1>BuildSpec. CASE BuildSpec
    BY <1>BuildSpec DEF BuildSpec, Goto, Files, NoFault, Fault, TypeOK, Position
  <1>Dispatch. CASE Dispatch
    BY <1>Dispatch
       DEF Dispatch, Goto, Files, Flags, NoFault, Fault, TypeOK, Position
  <1>HandlerRaises. CASE HandlerRaises
    BY <1>HandlerRaises DEF HandlerRaises, Goto, Files, NoFault, TypeOK, Position
  <1>WriteLoraFloor. CASE WriteLoraFloor
    BY <1>WriteLoraFloor
       DEF WriteLoraFloor, Goto, Save, Fault, NoFault, LoraFloor, TypeOK, Position
  <1>WriteFullFloor. CASE WriteFullFloor
    BY <1>WriteFullFloor
       DEF WriteFullFloor, Goto, Files, NoFault, TypeOK, Position
  <1>TrainingSave. CASE TrainingSave
    BY <1>TrainingSave
       DEF TrainingSave, Goto, Save, Fault, NoFault, Trained, TypeOK, Position
  <1>HandlerReturns. CASE HandlerReturns
    BY <1>HandlerReturns
       DEF HandlerReturns, Goto, Files, NoFault, TypeOK, Position
  <1>Recover. CASE Recover
    BY <1>Recover DEF Recover, Goto, NoFault, Fault, TypeOK, Position
  <1>Decide. CASE Decide
    BY <1>Decide
       DEF Decide, Goto, Files, Flags, NoFault, Emitted, TypeOK, Position
  <1>LoraRung. CASE LoraRung
    BY <1>LoraRung
       DEF LoraRung, LoraRemains, Goto, Files, Flags, NoFault, Fault, Climb, Emitted, TypeOK,
           Position
  <1>ClearDir1. CASE ClearDir("clear1", "rung2")
    BY <1>ClearDir1 DEF ClearDir, Goto, Flags, NoFault, Fault, TypeOK, Position
  <1>MakedirsRaises. CASE MakedirsRaises
    BY <1>MakedirsRaises DEF MakedirsRaises, Goto, Fault, TypeOK, Position
  <1>PerturbedRung. CASE PerturbedRung
    BY <1>PerturbedRung
       DEF PerturbedRung, CopyRemains, Goto, Files, Flags, NoFault, Fault, Climb, Emitted,
           TypeOK, Position
  <1>ClearDir2. CASE ClearDir("clear2", "rung3")
    BY <1>ClearDir2 DEF ClearDir, Goto, Flags, NoFault, Fault, TypeOK, Position
  <1>PlainRung. CASE PlainRung
    BY <1>PlainRung
       DEF PlainRung, Goto, Flags, NoFault, Fault, Climb, Emitted, TypeOK, Position
  <1>Interrupted. CASE Interrupted
    BY <1>Interrupted
       DEF Interrupted, Remains, LoraRemains, CopyRemains, Goto, Fault, TypeOK, Position
  <1>LabelFloor. CASE LabelFloor
    BY <1>LabelFloor
       DEF LabelFloor, Goto, Flags, NoFault, Fault, TypeOK, Position
  <1>Flush. CASE Flush
    BY <1>Flush DEF Flush, Goto, Files, NoFault, TypeOK, Position
  <1>Stutter. CASE Exited \/ UNCHANGED vars
    BY <1>Stutter DEF Exited, vars, TypeOK, Position
  <1> QED
    BY <1>Parse, <1>ParseRejects, <1>BuildSpec, <1>Dispatch, <1>HandlerRaises,
       <1>WriteLoraFloor, <1>WriteFullFloor, <1>TrainingSave, <1>HandlerReturns,
       <1>Recover, <1>Decide, <1>LoraRung, <1>ClearDir1, <1>MakedirsRaises,
       <1>PerturbedRung, <1>ClearDir2, <1>PlainRung, <1>Interrupted,
       <1>LabelFloor, <1>Flush, <1>Stutter
       DEF Next

LEMMA StepSound ==
    ASSUME TypeOK, Position, SoundDirs, [Next]_vars
    PROVE  SoundDirs'
  <1>Parse. CASE Parse
    BY <1>Parse
       DEF Parse, Goto, Files, Flags, NoFault, TypeOK, Dir, SoundDirs, Sound,
           Rungs, HasWeights, Complete, IsTrained, Empty
  <1>ParseRejects. CASE ParseRejects
    BY <1>ParseRejects
       DEF ParseRejects, Goto, Files, Fault, TypeOK, Dir, SoundDirs, Sound, Rungs,
           HasWeights, Complete, IsTrained, Empty
  <1>BuildSpec. CASE BuildSpec
    BY <1>BuildSpec
       DEF BuildSpec, Goto, Files, NoFault, Fault, TypeOK, Dir, SoundDirs, Sound,
           Rungs, HasWeights, Complete, IsTrained, Empty
  <1>Dispatch. CASE Dispatch
    BY <1>Dispatch
       DEF Dispatch, Goto, Files, Flags, NoFault, Fault, TypeOK, Dir, SoundDirs,
           Sound, Rungs, HasWeights, Complete, IsTrained, Empty
  <1>HandlerRaises. CASE HandlerRaises
    BY <1>HandlerRaises
       DEF HandlerRaises, Goto, Files, NoFault, TypeOK, Dir, SoundDirs, Sound,
           Rungs, HasWeights, Complete, IsTrained, Empty
  <1>WriteLoraFloor. CASE WriteLoraFloor
    <2>1. PICK o \in SaveOutcomes :
            Save(o, LoraFloor) /\ Goto("setup", IF o = "ok" THEN "train" ELSE "recover")
      BY <1>WriteLoraFloor DEF WriteLoraFloor
    <2>2. LoraFloor \in Dir BY Types
    <2>3. Sound(Empty) /\ Sound(Repaired) BY DEF SoundDirs, Sound, Empty, Repaired
    <2>4. Sound(LoraFloor)
      BY DEF Sound, LoraFloor, Empty
    <2>5. out' \in {LoraFloor, Empty, Repaired} /\ aside' \in {LoraFloor, Empty, Repaired}
      BY <2>1, <2>2, SaveResult
    <2>6. Sound(out') /\ Sound(aside') BY <2>3, <2>4, <2>5
    <2>7. pc' \notin Rungs BY <2>1 DEF Goto, Rungs
    <2>8. QED BY <2>6, <2>7 DEF SoundDirs, Sound, IsTrained
  <1>WriteFullFloor. CASE WriteFullFloor
    BY <1>WriteFullFloor
       DEF WriteFullFloor, Goto, Files, NoFault, TypeOK, Dir, SoundDirs, Sound,
           Rungs, HasWeights, Complete, IsTrained, Empty
  <1>TrainingSave. CASE TrainingSave
    <2>1. PICK o \in SaveOutcomes :
            /\ Save(o, Trained)
            /\ \/ Goto("train", "train") /\ UNCHANGED raised
               \/ o # "ok" /\ Goto("train", "recover") /\ raised' = TRUE
      BY <1>TrainingSave DEF TrainingSave
    <2>2. Trained \in Dir BY Types
    <2>3. Sound(Empty) /\ Sound(Repaired) BY DEF SoundDirs, Sound, Empty, Repaired
    <2>4. Sound(Trained)
      BY TrainedArtifact, <2>1 DEF Sound, Position, Goto
    <2>5. out' \in {Trained, Empty, Repaired} /\ aside' \in {Trained, Empty, Repaired}
      BY <2>1, <2>2, SaveResult
    <2>6. Sound(out') /\ Sound(aside') BY <2>3, <2>4, <2>5
    <2>7. pc' \notin Rungs BY <2>1 DEF Goto, Rungs
    <2>8. QED BY <2>6, <2>7 DEF SoundDirs, Sound, IsTrained
  <1>HandlerReturns. CASE HandlerReturns
    BY <1>HandlerReturns
       DEF HandlerReturns, Goto, Files, NoFault, TypeOK, Dir, SoundDirs, Sound,
           Rungs, HasWeights, Complete, IsTrained, Empty
  <1>Recover. CASE Recover
    BY <1>Recover
       DEF Recover, Goto, NoFault, Fault, TypeOK, Dir, SoundDirs, Sound, Rungs,
           HasWeights, Complete, IsTrained, Empty, Repaired
  <1>Decide. CASE Decide
    BY <1>Decide
       DEF Decide, Goto, Files, Flags, NoFault, Emitted, TypeOK, Dir, SoundDirs,
           Sound, Rungs, HasWeights, Complete, IsTrained, Empty
  <1>LoraRung. CASE LoraRung
    BY <1>LoraRung
       DEF LoraRung, LoraRemains, Goto, Files, Flags, NoFault, Fault, Climb, Emitted, TypeOK,
           Dir, SoundDirs, Sound, Rungs, HasWeights, Complete, IsTrained, Empty
  <1>ClearDir1. CASE ClearDir("clear1", "rung2")
    BY <1>ClearDir1
       DEF ClearDir, Goto, Flags, NoFault, Fault, TypeOK, Dir, SoundDirs, Sound,
           Rungs, HasWeights, Complete, IsTrained, Empty
  <1>MakedirsRaises. CASE MakedirsRaises
    BY <1>MakedirsRaises
       DEF MakedirsRaises, Goto, Fault, TypeOK, Dir, SoundDirs, Sound, Rungs,
           HasWeights, Complete, IsTrained, Empty
  <1>PerturbedRung. CASE PerturbedRung
    BY <1>PerturbedRung
       DEF PerturbedRung, CopyRemains, Goto, Files, Flags, NoFault, Fault, Climb, Emitted,
           TypeOK, Dir, SoundDirs, Sound, Rungs, HasWeights, Complete, IsTrained,
           Empty
  <1>ClearDir2. CASE ClearDir("clear2", "rung3")
    BY <1>ClearDir2
       DEF ClearDir, Goto, Flags, NoFault, Fault, TypeOK, Dir, SoundDirs, Sound,
           Rungs, HasWeights, Complete, IsTrained, Empty
  <1>PlainRung. CASE PlainRung
    BY <1>PlainRung
       DEF PlainRung, Goto, Flags, NoFault, Fault, Climb, Emitted, TypeOK, Dir,
           SoundDirs, Sound, Rungs, HasWeights, Complete, IsTrained, Empty
  <1>Interrupted. CASE Interrupted
    BY <1>Interrupted
       DEF Interrupted, Remains, LoraRemains, CopyRemains, Goto, Fault, TypeOK,
           Dir, SoundDirs, Sound, Rungs, HasWeights, Complete, IsTrained, Empty
  <1>LabelFloor. CASE LabelFloor
    BY <1>LabelFloor
       DEF LabelFloor, Goto, Flags, NoFault, Fault, TypeOK, Dir, SoundDirs, Sound,
           Rungs, HasWeights, Complete, IsTrained, Empty
  <1>Flush. CASE Flush
    BY <1>Flush
       DEF Flush, Goto, Files, NoFault, TypeOK, Dir, SoundDirs, Sound, Rungs,
           HasWeights, Complete, IsTrained, Empty
  <1>Stutter. CASE Exited \/ UNCHANGED vars
    BY <1>Stutter
       DEF Exited, vars, TypeOK, Dir, SoundDirs, Sound, Rungs, HasWeights,
           Complete, IsTrained, Empty
  <1> QED
    BY <1>Parse, <1>ParseRejects, <1>BuildSpec, <1>Dispatch, <1>HandlerRaises,
       <1>WriteLoraFloor, <1>WriteFullFloor, <1>TrainingSave, <1>HandlerReturns,
       <1>Recover, <1>Decide, <1>LoraRung, <1>ClearDir1, <1>MakedirsRaises,
       <1>PerturbedRung, <1>ClearDir2, <1>PlainRung, <1>Interrupted,
       <1>LabelFloor, <1>Flush, <1>Stutter
       DEF Next

LEMMA StepTrained ==
    ASSUME TypeOK, Position, SoundDirs, TrainedKept, [Next]_vars
    PROVE  TrainedKept'
  <1>Parse. CASE Parse
    BY <1>Parse
       DEF Parse, Goto, Files, Flags, NoFault, TypeOK, Dir, SoundDirs, Sound,
           Rungs, TrainedKept, Repaired, Position, HasWeights, Complete, IsTrained,
           Empty
  <1>ParseRejects. CASE ParseRejects
    BY <1>ParseRejects
       DEF ParseRejects, Goto, Files, Fault, TypeOK, Dir, SoundDirs, Sound, Rungs,
           TrainedKept, Repaired, Position, HasWeights, Complete, IsTrained, Empty
  <1>BuildSpec. CASE BuildSpec
    BY <1>BuildSpec
       DEF BuildSpec, Goto, Files, NoFault, Fault, TypeOK, Dir, SoundDirs, Sound,
           Rungs, TrainedKept, Repaired, Position, HasWeights, Complete, IsTrained,
           Empty
  <1>Dispatch. CASE Dispatch
    BY <1>Dispatch
       DEF Dispatch, Goto, Files, Flags, NoFault, Fault, TypeOK, Dir, SoundDirs,
           Sound, Rungs, TrainedKept, Repaired, Position, HasWeights, Complete,
           IsTrained, Empty
  <1>HandlerRaises. CASE HandlerRaises
    BY <1>HandlerRaises
       DEF HandlerRaises, Goto, Files, NoFault, TypeOK, Dir, SoundDirs, Sound,
           Rungs, TrainedKept, Repaired, Position, HasWeights, Complete, IsTrained,
           Empty
  <1>WriteLoraFloor. CASE WriteLoraFloor
    BY <1>WriteLoraFloor
       DEF WriteLoraFloor, Goto, Save, Fault, NoFault, LoraFloor, TypeOK, Dir,
           SoundDirs, Sound, Rungs, TrainedKept, Repaired, Position, HasWeights,
           Complete, IsTrained, Empty
  <1>WriteFullFloor. CASE WriteFullFloor
    BY <1>WriteFullFloor
       DEF WriteFullFloor, Goto, Files, NoFault, TypeOK, Dir, SoundDirs, Sound,
           Rungs, TrainedKept, Repaired, Position, HasWeights, Complete, IsTrained,
           Empty
  <1>TrainingSave. CASE TrainingSave
    <2>1. PICK o \in SaveOutcomes :
            /\ Save(o, Trained)
            /\ \/ Goto("train", "train") /\ UNCHANGED raised
               \/ o # "ok" /\ Goto("train", "recover") /\ raised' = TRUE
      BY <1>TrainingSave DEF TrainingSave
    <2>2. Trained \in Dir BY Types
    <2>3. /\ IsTrained(Trained) /\ pc = "train" /\ pc' \in {"train", "recover"}
          /\ denied' = denied
      BY <1>TrainingSave, <2>1, TrainedArtifact DEF TrainingSave, Goto, Position
    <2>4. Repaired' = IF ~Complete(out') /\ Complete(aside') THEN aside' ELSE out'
      BY DEF Repaired, Complete
    <2>5. ~Complete(Empty) /\ ~IsTrained(Empty) BY DEF Complete, IsTrained, Empty
    <2>6. \A d : IsTrained(d) => Complete(d) BY DEF IsTrained, Complete
    <2>7. /\ trained' = (trained \/ IsTrained(out'))
          /\ \/ out' = Trained /\ aside' = Empty
             \/ out' = Repaired /\ aside' = Empty
             \/ ~Complete(Repaired) /\ out' = Repaired /\ aside' = Trained
             \/ Complete(Repaired) /\ out' = Empty /\ aside' = Repaired
      BY <2>1, <2>2, SaveResult
    <2>8. trained /\ ~denied => IsTrained(Repaired) BY <2>3 DEF TrainedKept
    <2>9. trained' /\ ~denied => IsTrained(Repaired')
      <3>1. CASE IsTrained(out') BY <2>4, <2>6, <3>1
      <3>2. CASE ~IsTrained(out')
        <4>1. trained' = trained BY <2>7, <3>2, Types
        <4>2. CASE out' = Empty /\ aside' = Repaired /\ Complete(Repaired)
          BY <2>4, <2>5, <2>8, <4>1, <4>2
        <4>3. CASE out' = Trained BY <2>3, <3>2, <4>3
        <4>4. CASE out' = Repaired BY <2>8, <3>2, <4>1, <4>4
        <4>5. QED BY <2>7, <4>2, <4>3, <4>4
      <3>3. QED BY <3>1, <3>2
    <2>10. QED BY <2>3, <2>9 DEF TrainedKept, Rungs
  <1>HandlerReturns. CASE HandlerReturns
    BY <1>HandlerReturns
       DEF HandlerReturns, Goto, Files, NoFault, TypeOK, Dir, SoundDirs, Sound,
           Rungs, TrainedKept, Repaired, Position, HasWeights, Complete, IsTrained,
           Empty
  <1>Recover. CASE Recover
    BY <1>Recover
       DEF Recover, Goto, NoFault, Fault, TypeOK, Dir, SoundDirs, Sound, Rungs,
           TrainedKept, Repaired, Position, HasWeights, Complete, IsTrained, Empty
  <1>Decide. CASE Decide
    BY <1>Decide
       DEF Decide, Goto, Files, Flags, NoFault, Emitted, TypeOK, Dir, SoundDirs,
           Sound, Rungs, TrainedKept, Repaired, Position, HasWeights, Complete,
           IsTrained, Empty
  <1>LoraRung. CASE LoraRung
    BY <1>LoraRung
       DEF LoraRung, LoraRemains, Goto, Files, Flags, NoFault, Fault, Climb, Emitted, TypeOK,
           Dir, SoundDirs, Sound, Rungs, TrainedKept, Repaired, Position,
           HasWeights, Complete, IsTrained, Empty
  <1>ClearDir1. CASE ClearDir("clear1", "rung2")
    BY <1>ClearDir1
       DEF ClearDir, Goto, Flags, NoFault, Fault, TypeOK, Dir, SoundDirs, Sound,
           Rungs, TrainedKept, Repaired, Position, HasWeights, Complete, IsTrained,
           Empty
  <1>MakedirsRaises. CASE MakedirsRaises
    BY <1>MakedirsRaises
       DEF MakedirsRaises, Goto, Fault, TypeOK, Dir, SoundDirs, Sound, Rungs,
           TrainedKept, Repaired, Position, HasWeights, Complete, IsTrained, Empty
  <1>PerturbedRung. CASE PerturbedRung
    BY <1>PerturbedRung
       DEF PerturbedRung, CopyRemains, Goto, Files, Flags, NoFault, Fault, Climb, Emitted,
           TypeOK, Dir, SoundDirs, Sound, Rungs, TrainedKept, Repaired, Position,
           HasWeights, Complete, IsTrained, Empty
  <1>ClearDir2. CASE ClearDir("clear2", "rung3")
    BY <1>ClearDir2
       DEF ClearDir, Goto, Flags, NoFault, Fault, TypeOK, Dir, SoundDirs, Sound,
           Rungs, TrainedKept, Repaired, Position, HasWeights, Complete, IsTrained,
           Empty
  <1>PlainRung. CASE PlainRung
    BY <1>PlainRung
       DEF PlainRung, Goto, Flags, NoFault, Fault, Climb, Emitted, TypeOK, Dir,
           SoundDirs, Sound, Rungs, TrainedKept, Repaired, Position, HasWeights,
           Complete, IsTrained, Empty
  <1>Interrupted. CASE Interrupted
    BY <1>Interrupted
       DEF Interrupted, Remains, LoraRemains, CopyRemains, Goto, Fault, TypeOK,
           Dir, SoundDirs, Sound, Rungs, TrainedKept, Repaired, Position,
           HasWeights, Complete, IsTrained, Empty
  <1>LabelFloor. CASE LabelFloor
    BY <1>LabelFloor
       DEF LabelFloor, Goto, Flags, NoFault, Fault, TypeOK, Dir, SoundDirs, Sound,
           Rungs, TrainedKept, Repaired, Position, HasWeights, Complete, IsTrained,
           Empty
  <1>Flush. CASE Flush
    BY <1>Flush
       DEF Flush, Goto, Files, NoFault, TypeOK, Dir, SoundDirs, Sound, Rungs,
           TrainedKept, Repaired, Position, HasWeights, Complete, IsTrained, Empty
  <1>Stutter. CASE Exited \/ UNCHANGED vars
    <2>1. Repaired' = Repaired BY <1>Stutter DEF Exited, vars, Repaired, Complete
    <2>2. QED BY <1>Stutter, <2>1 DEF Exited, vars, TrainedKept, IsTrained, Rungs
  <1> QED
    BY <1>Parse, <1>ParseRejects, <1>BuildSpec, <1>Dispatch, <1>HandlerRaises,
       <1>WriteLoraFloor, <1>WriteFullFloor, <1>TrainingSave, <1>HandlerReturns,
       <1>Recover, <1>Decide, <1>LoraRung, <1>ClearDir1, <1>MakedirsRaises,
       <1>PerturbedRung, <1>ClearDir2, <1>PlainRung, <1>Interrupted,
       <1>LabelFloor, <1>Flush, <1>Stutter
       DEF Next

\* The config alone is neither nothing nor an artifact.
LEMMA ConfigIsDistinct == ConfigOnly # Empty /\ ~Good(ConfigOnly)
  BY DEF ConfigOnly, Empty, Good, Loads, Complete

LEMMA StepAbsorbed ==
    ASSUME TypeOK, Position, Absorbed, [Next]_vars
    PROVE  Absorbed'
  <1>Parse. CASE Parse
    BY <1>Parse
       DEF Parse, Goto, Files, Flags, NoFault, TypeOK, Dir, Absorbed, Good, Loads,
           Usable, Rungs, Repaired, Position, HasWeights, Complete, IsTrained, Empty,
           ConfigOnly
  <1>ParseRejects. CASE ParseRejects
    BY <1>ParseRejects
       DEF ParseRejects, Goto, Files, Fault, TypeOK, Dir, Absorbed, Good, Loads,
           Usable, Rungs, Repaired, Position, HasWeights, Complete, IsTrained, Empty,
           ConfigOnly
  <1>BuildSpec. CASE BuildSpec
    BY <1>BuildSpec
       DEF BuildSpec, Goto, Files, NoFault, Fault, TypeOK, Dir, Absorbed, Good,
           Loads, Usable, Rungs, Repaired, Position, HasWeights, Complete,
           IsTrained, Empty, ConfigOnly
  <1>Dispatch. CASE Dispatch
    BY <1>Dispatch
       DEF Dispatch, Goto, Files, Flags, NoFault, Fault, TypeOK, Dir, Absorbed,
           Good, Loads, Usable, Rungs, Repaired, Position, HasWeights, Complete,
           IsTrained, Empty, ConfigOnly
  <1>HandlerRaises. CASE HandlerRaises
    BY <1>HandlerRaises
       DEF HandlerRaises, Goto, Files, NoFault, TypeOK, Dir, Absorbed, Good, Loads,
           Usable, Rungs, Repaired, Position, HasWeights, Complete, IsTrained, Empty,
           ConfigOnly
  <1>WriteLoraFloor. CASE WriteLoraFloor
    <2>1. PICK o \in SaveOutcomes :
            Save(o, LoraFloor) /\ Goto("setup", IF o = "ok" THEN "train" ELSE "recover")
      BY <1>WriteLoraFloor DEF WriteLoraFloor
    <2>2. LoraFloor \in Dir BY Types
    <2>3. SUFFICES ASSUME Usable, faults' <= 1, ~denied PROVE Absorbed'
      BY <1>WriteLoraFloor, <2>1 DEF WriteLoraFloor, Goto, Absorbed, Usable
    <2>4. faults <= 1 /\ faults \in Nat /\ faults' \in Nat
      BY <2>1, <2>2, <2>3, SaveResult, Types
    <2>5. /\ pc = "setup" /\ out = Empty /\ aside = Empty /\ exit = "none"
          /\ Repaired = Empty
      BY <2>1, <2>3, <2>4 DEF Goto, Absorbed, Position, Repaired
    <2>6. Good(LoraFloor) /\ ~Complete(Empty)
      BY DEF Good, Loads, Complete, LoraFloor, Empty
    <2>7. /\ exit' = exit /\ cache' = cache /\ pc' \in {"train", "recover"}
          /\ pc' = "train" => o = "ok"
      BY <1>WriteLoraFloor, <2>1 DEF WriteLoraFloor, Goto
    <2>8. \/ out' = LoraFloor /\ aside' = Empty
          \/ o # "ok" /\ out' = Empty /\ aside' \in {Empty, LoraFloor}
      BY <2>1, <2>2, <2>5, <2>6, SaveResult
    <2>9. QED BY <2>5, <2>6, <2>7, <2>8, ConfigIsDistinct DEF Absorbed, Rungs, Good
  <1>WriteFullFloor. CASE WriteFullFloor
    BY <1>WriteFullFloor
       DEF WriteFullFloor, Goto, Files, NoFault, TypeOK, Dir, Absorbed, Good,
           Loads, Usable, Rungs, Repaired, Position, HasWeights, Complete,
           IsTrained, Empty, ConfigOnly
  <1>TrainingSave. CASE TrainingSave
    <2>1. PICK o \in SaveOutcomes :
            /\ Save(o, Trained)
            /\ \/ Goto("train", "train") /\ UNCHANGED raised
               \/ o # "ok" /\ Goto("train", "recover") /\ raised' = TRUE
      BY <1>TrainingSave DEF TrainingSave
    <2>2. Trained \in Dir BY Types
    <2>3. SUFFICES ASSUME Usable, faults' <= 1, ~denied PROVE Absorbed'
      BY <1>TrainingSave, <2>1 DEF TrainingSave, Goto, Absorbed, Usable
    <2>4. faults <= 1 /\ faults \in Nat /\ faults' \in Nat
      BY <2>1, <2>2, <2>3, SaveResult, Types
    <2>5. /\ pc = "train" /\ exit = "none"
          /\ out = Empty \/ Good(out)
          /\ aside = Empty \/ Good(aside)
          /\ Good(out) \/ Complete(aside)
      BY <2>1, <2>3, <2>4 DEF Goto, Absorbed, Position
    <2>6. Good(Trained) /\ ~Complete(Empty)
      <3>1. task # "unknown" BY <2>5 DEF Position
      <3>2. Loads(Trained) /\ Trained.model # "plain" BY <3>1, TrainedArtifact
      <3>3. QED BY <3>2 DEF Good, Complete, Empty
    <2>7. Good(Repaired) /\ Complete(Repaired)
      BY <2>5, <2>6 DEF Good, Loads, Repaired
    <2>8. exit' = exit /\ cache' = cache /\ pc' \in {"train", "recover"}
      BY <1>TrainingSave, <2>1 DEF TrainingSave, Goto
    <2>9. \/ out' \in {Trained, Repaired} /\ aside' = Empty
          \/ out' = Empty /\ aside' = Repaired
      BY <2>1, <2>2, <2>7, SaveResult
    <2>10. Good(out') \/ Complete(aside') BY <2>6, <2>7, <2>9
    <2>11. out' = Empty \/ Good(out') BY <2>6, <2>7, <2>9
    <2>12. aside' = Empty \/ Good(aside') BY <2>7, <2>9
    <2>13. QED
      BY <2>5, <2>8, <2>10, <2>11, <2>12, ConfigIsDistinct DEF Absorbed, Rungs, Good
  <1>HandlerReturns. CASE HandlerReturns
    BY <1>HandlerReturns
       DEF HandlerReturns, Goto, Files, NoFault, TypeOK, Dir, Absorbed, Good,
           Loads, Usable, Rungs, Repaired, Position, HasWeights, Complete,
           IsTrained, Empty, ConfigOnly
  <1>Recover. CASE Recover
    BY <1>Recover
       DEF Recover, Goto, NoFault, Fault, TypeOK, Dir, Absorbed, Good, Loads,
           Usable, Rungs, Repaired, Position, HasWeights, Complete, IsTrained, Empty,
           ConfigOnly
  <1>Decide. CASE Decide
    BY <1>Decide
       DEF Decide, Goto, Files, Flags, NoFault, Emitted, TypeOK, Dir, Absorbed,
           Good, Loads, Usable, Rungs, Repaired, Position, HasWeights, Complete,
           IsTrained, Empty, ConfigOnly
  <1>LoraRung. CASE LoraRung
    BY <1>LoraRung
       DEF LoraRung, LoraRemains, Goto, Files, Flags, NoFault, Fault, Climb, Emitted, TypeOK,
           Dir, Absorbed, Good, Loads, Usable, Rungs, Repaired, Position,
           HasWeights, Complete, IsTrained, Empty,
           ConfigOnly
  <1>ClearDir1. CASE ClearDir("clear1", "rung2")
    BY <1>ClearDir1
       DEF ClearDir, Goto, Flags, NoFault, Fault, TypeOK, Dir, Absorbed, Good,
           Loads, Usable, Rungs, Repaired, Position, HasWeights, Complete,
           IsTrained, Empty, ConfigOnly
  <1>MakedirsRaises. CASE MakedirsRaises
    BY <1>MakedirsRaises
       DEF MakedirsRaises, Goto, Fault, TypeOK, Dir, Absorbed, Good, Loads, Usable,
           Rungs, Repaired, Position, HasWeights, Complete, IsTrained, Empty,
           ConfigOnly
  <1>PerturbedRung. CASE PerturbedRung
    BY <1>PerturbedRung
       DEF PerturbedRung, CopyRemains, Goto, Files, Flags, NoFault, Fault, Climb, Emitted,
           TypeOK, Dir, Absorbed, Good, Loads, Usable, Rungs, Repaired, Position,
           HasWeights, Complete, IsTrained, Empty,
           ConfigOnly
  <1>ClearDir2. CASE ClearDir("clear2", "rung3")
    BY <1>ClearDir2
       DEF ClearDir, Goto, Flags, NoFault, Fault, TypeOK, Dir, Absorbed, Good,
           Loads, Usable, Rungs, Repaired, Position, HasWeights, Complete,
           IsTrained, Empty, ConfigOnly
  <1>PlainRung. CASE PlainRung
    BY <1>PlainRung
       DEF PlainRung, Goto, Flags, NoFault, Fault, Climb, Emitted, TypeOK, Dir,
           Absorbed, Good, Loads, Usable, Rungs, Repaired, Position, HasWeights,
           Complete, IsTrained, Empty,
           ConfigOnly
  <1>Interrupted. CASE Interrupted
    BY <1>Interrupted
       DEF Interrupted, Remains, LoraRemains, CopyRemains, Goto, Fault, TypeOK,
           Dir, Absorbed, Good, Loads, Usable, Rungs, Repaired, Position, HasWeights, Complete,
           IsTrained, Empty, ConfigOnly
  <1>LabelFloor. CASE LabelFloor
    BY <1>LabelFloor
       DEF LabelFloor, Goto, Flags, NoFault, Fault, TypeOK, Dir, Absorbed, Good,
           Loads, Usable, Rungs, Repaired, Position, HasWeights, Complete,
           IsTrained, Empty, ConfigOnly
  <1>Flush. CASE Flush
    BY <1>Flush
       DEF Flush, Goto, Files, NoFault, TypeOK, Dir, Absorbed, Good, Loads, Usable,
           Rungs, Repaired, Position, HasWeights, Complete, IsTrained, Empty,
           ConfigOnly
  <1>Stutter. CASE Exited \/ UNCHANGED vars
    BY <1>Stutter
       DEF Exited, vars, TypeOK, Dir, Absorbed, Good, Loads, Usable, Rungs,
           Repaired, Position, HasWeights, Complete, IsTrained, Empty,
           ConfigOnly
  <1> QED
    BY <1>Parse, <1>ParseRejects, <1>BuildSpec, <1>Dispatch, <1>HandlerRaises,
       <1>WriteLoraFloor, <1>WriteFullFloor, <1>TrainingSave, <1>HandlerReturns,
       <1>Recover, <1>Decide, <1>LoraRung, <1>ClearDir1, <1>MakedirsRaises,
       <1>PerturbedRung, <1>ClearDir2, <1>PlainRung, <1>Interrupted,
       <1>LabelFloor, <1>Flush, <1>Stutter
       DEF Next

-----------------------------------------------------------------------------
\* The invariant holds at the start and is kept.

LEMMA InitInv == Init => TypeOK /\ Inv
  <1>1. SUFFICES ASSUME Init PROVE TypeOK /\ Inv OBVIOUS
  <1>2. Empty \in Dir BY DEF Empty, Dir
  <1>3. TypeOK
    <2>1. {raised, trained, denied} \subseteq BOOLEAN BY <1>1 DEF Init
    <2>2. faults \in 0 .. MaxFaults BY <1>1, ForgeRunAssumption DEF Init
    <2>3. QED BY <1>1, <1>2, <2>1, <2>2 DEF Init, TypeOK
  <1>4. Position /\ TrainedKept
    BY <1>1 DEF Init, Position, TrainedKept
  <1>5. SoundDirs BY <1>1 DEF Init, SoundDirs, Sound, IsTrained, Empty, Rungs
  <1>6. Absorbed BY <1>1, ConfigIsDistinct DEF Init, Absorbed, Rungs
  <1>7. QED BY <1>3, <1>4, <1>5, <1>6 DEF Inv

LEMMA StepInv == TypeOK /\ Inv /\ [Next]_vars => TypeOK' /\ Inv'
  <1>1. SUFFICES ASSUME TypeOK, Inv, [Next]_vars PROVE TypeOK' /\ Inv' OBVIOUS
  <1>2. Position /\ SoundDirs /\ TrainedKept /\ Absorbed BY <1>1 DEF Inv
  <1>3. TypeOK' BY <1>1, <1>2, StepType
  <1>4. Position' BY <1>1, <1>2, StepPosition
  <1>5. SoundDirs' BY <1>1, <1>2, StepSound
  <1>6. TrainedKept' BY <1>1, <1>2, StepTrained
  <1>7. Absorbed' BY <1>1, <1>2, StepAbsorbed
  <1>8. QED BY <1>3, <1>4, <1>5, <1>6, <1>7 DEF Inv

\* In every run the types and the inductive invariant hold together.
THEOREM InvHolds == Spec => [](TypeOK /\ Inv)
  BY InitInv, StepInv, PTL DEF Spec

\* The directories hold only what the rungs and the saves can put there.
THEOREM TypeCorrect == Spec => []TypeOK
  BY InvHolds, PTL

\* write_artifact_truth and save_adapter: a truth file that claims training lies
\* beside trained weights, whatever failed and whatever the fallback did to them.
THEOREM TruthIsEarned == Spec => []TruthNeverOverclaims
  <1>1. Inv => TruthNeverOverclaims
    BY DEF Inv, SoundDirs, Sound, TruthNeverOverclaims
  <1>2. QED BY <1>1, InvHolds, PTL

\* emit_untrained_copy keeps what a handler that raised had trained, as long as
\* the recovery can rename it back, for any number of failing operations.
THEOREM TrainedIsKept == Spec => []RaisedKeepsTrained
  <1>1. Inv => RaisedKeepsTrained BY DEF Inv, TrainedKept, RaisedKeepsTrained
  <1>2. QED BY <1>1, InvHolds, PTL

\* One failing operation, wherever it falls in main, _run, the handler's floor or
\* emit_untrained_copy, costs no artifact.
THEOREM AnyOneFaultIsAbsorbed == Spec => []OneFaultIsAbsorbed
  <1>1. TypeOK /\ Inv => OneFaultIsAbsorbed
    BY DEF Inv, Absorbed, Good, OneFaultIsAbsorbed
  <1>2. QED BY <1>1, InvHolds, PTL
=============================================================================
