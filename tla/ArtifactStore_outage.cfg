SPECIFICATION Spec
CONSTANTS
    MaxGen = 4
    MaxFaults = 0
    MaxCrashes = 3
    Platforms = {"linux", "portable"}
    Outputs = {"absent", "torn", "settled_floor"}
    PowerLoss = TRUE
INVARIANTS OutputIsOneGeneration RecoveryTakesOnlyCommitted
