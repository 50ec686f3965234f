SPECIFICATION Spec
CONSTANTS
    MaxBatch = 5
    MaxReplicas = 2
    MaxSteps = 2
INVARIANTS UpdatesAreOfOneAttempt RetryIsSmaller
