SPECIFICATION Spec
CONSTANTS
    Handlers = {"dpo"}
    MaxSteps = 6
    Losses = {3, 4, 6}
    Tolerance = 1
    EvalEvery = 2
    SaveEvery = 2
    SaveOutcomes = {"ok", "late"}
    MaxSaveErrors = 2
PROPERTIES MeasuredNeverReplaced
