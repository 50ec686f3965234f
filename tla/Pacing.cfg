SPECIFICATION Spec
CONSTANTS
    HardStop = 32
    Reserve = 11
    Window = 3
    MicroCosts = {1, 2, 6}
    AfterCosts = {0, 2}
    ExportCosts = {0, 1}
    Accumulation = {1, 2, 4}
INVARIANTS ExportedBeforeKill
PROPERTIES StraySlowStepIsHarmless TrainingEnds
