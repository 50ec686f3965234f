SPECIFICATION Spec
CONSTANTS
    Characters <- MCCharacters
    Merges <- MCMerges
    DocFactor = 2
    EvaluatorCap = 8
    Tasks <- MCTasks
    Limits <- MCLimits
    Requested = 8
    ReducedCaps = {4, 6}
INVARIANTS OnlyAnswersCarryLoss AnswersAreSupervised RowsAreWhole FailureIsEarned
