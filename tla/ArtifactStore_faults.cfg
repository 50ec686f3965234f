SPECIFICATION Spec
CONSTANTS
    MaxGen = 3
    MaxFaults = 2
    MaxCrashes = 2
    Platforms = {"linux", "portable"}
    Outputs = {"absent", "torn", "floor"}
    PowerLoss = TRUE
INVARIANTS TypeOK AckedSurvives AckedIsDurable RaisedSaveLeavesOldOrNew
PROPERTIES OutputNeverHidden ReplacesAtomically
