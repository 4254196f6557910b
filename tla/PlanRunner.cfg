SPECIFICATION FairSpec
CONSTANTS
    NSteps = 3
    NGates = 2
    AfterStep <- FanGates
    DependsOn <- FanSteps
    Path = {a, b}
    Shown = {a}
    PartialRevise = TRUE
    MaxClicks = 3
INVARIANTS Consistent DependencyRespected ReplayAgrees GateRespected NeverStuck
PROPERTIES ImplementsChain UnflaggedShownKept RunnerSettles SendCompletes
CHECK_DEADLOCK FALSE
