SPECIFICATION FairSpec
CONSTANTS
    NTasks = 1
    Deps <- NoDeps
    Heavy = {}
    MaxConcurrent = 1
    MaxHeavy = 1
    Held = {}
    ActiveLabels = {"todo", "in-progress"}
    Local = TRUE
    Consults = FALSE
    Chats = TRUE
    MayFail = TRUE
    MayStall = TRUE
    MaxRuns = 2
    MaxStops = 0
    StopsBy = {"shutdown", "crash"}
PROPERTIES ClaimReleased
