SPECIFICATION Spec
CONSTANTS
    NTasks = 2
    Deps <- SecondLast
    Heavy = {1, 2}
    MaxConcurrent = 2
    MaxHeavy = 1
    Held = {1}
    ActiveLabels = {"todo", "in-progress"}
    Local = TRUE
    Consults = TRUE
    Chats = FALSE
    MayFail = FALSE
    MayStall = FALSE
    MaxRuns = 2
    MaxStops = 1
    StopsBy = {"shutdown"}
INVARIANTS WithinLimits
PROPERTIES DependenciesFirst
