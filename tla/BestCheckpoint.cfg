SPECIFICATION Spec
CONSTANTS
    Handlers = {"instruct", "bloomz", "dpo", "grpo"}
    MaxSteps = 6
    Losses = {3, 4, 6}
    Tolerance = 1
    EvalEvery = 2
    SaveEvery = 2
    SaveOutcomes = {"ok", "clean", "late", "hidden"}
    MaxSaveErrors = 2
INVARIANTS TypeOK BestIsVisible PersistedIsMinimum CadenceOnly TruthNamesWeights MirrorIsFresh
