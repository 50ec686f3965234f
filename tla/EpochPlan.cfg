SPECIFICATION Spec
CONSTANTS
    Budgets = {40, 90, 100, 150, 300, 500, 900}
    Costs = {1, 2, 5, 9}
    Builds = {0, 5, 50}
    EpochSteps = {5, 6, 20, 60, 150, 400, 6000}
    From = 2
    To = 5
    TightBudget = 90
    MinEpochSteps = 6
    ProbeShare = 12
    ProbeFloor = 6
    ProbeCeiling = 40
    LowTime = 60
    Slack = 6
    Margin = 90
INVARIANTS ScheduleCompletesIfAny BudgetIsFilled ProbeIsBounded
