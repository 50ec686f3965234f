SPECIFICATION SoupSpec
CONSTANTS
    Handlers = {"instruct"}
    MaxSteps = 5
    Losses = {3, 6}
    Tolerance = 1
    EvalEvery = 1
    SaveEvery = 2
    SaveOutcomes = {"ok", "clean", "late"}
    MaxSaveErrors = 2
INVARIANTS FailureLeavesRecordFour ReleaseIsLabelled
PROPERTIES SoupReplacesRecordFour
