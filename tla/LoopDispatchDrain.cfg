SPECIFICATION FairSpec
CONSTANTS
    NTasks = 2
    Deps <- NoDeps
    Heavy = {}
    MaxConcurrent = 2
    MaxHeavy = 2
    Held = {}
    ActiveLabels = {"todo", "in-progress"}
    Local = FALSE
    Consults = FALSE
    Chats = FALSE
    MayFail = FALSE
    MayStall = FALSE
    MaxRuns = 2
    MaxStops = 1
    StopsBy = {"crash"}
INVARIANTS AgentIsClaimed
PROPERTIES LeavesQueue
