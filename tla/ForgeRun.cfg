SPECIFICATION Spec
CONSTANTS
    Tasks = {"lora", "full", "unknown"}
    Caches = {"safetensors", "bin", "corrupt", "missing"}
    SaveOutcomes = {"ok", "clean", "late", "hidden"}
    MaxFaults = 4
INVARIANTS OneFaultIsAbsorbed RaisedKeepsTrained TruthNeverOverclaims
