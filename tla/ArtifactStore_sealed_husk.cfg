SPECIFICATION Spec
CONSTANTS
    MaxGen = 3
    MaxFaults = 1
    MaxCrashes = 1
    Platforms = {"linux"}
    Outputs = {"absent"}
    PowerLoss = FALSE
INVARIANTS RecoveryTakesOnlyCommitted
