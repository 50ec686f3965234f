SPECIFICATION Spec
CONSTANTS
    Requests = {0, 1, 2, 3, 8}
    FullCap = 8
    Quantum = 2
    Quantiles = {0, 1, 3, 4, 5, 7}
    Retentions = {90, 95, 99}
    MaxSteps = 2
INVARIANTS TypeOK OneModelOnDevice RowsFitTheRung LadderShrinks FirstFitIsAdmitted ExhaustionIsEarned
PROPERTIES ProgressEndsTheLadder LadderTerminates
