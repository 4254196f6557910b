SPECIFICATION MCSpec
CONSTANTS
    PrismConns = {p}
    DispatchConns = {d}
    Threads = {t}
    NoThread = NoThread
    NoConn = NoConn
    Order <- DispatchFirst
    QueueCap = 1
    MaxEvents = 1
    MaxRequests = 1
    MaxIndex = 1
    HasFastLLM = TRUE
    HistoryCap = 2
    MaxTurns = 2
    MaxDeltas = 2
INVARIANTS NothingMissed FloorOpen QuestionsLast
PROPERTIES AskerAnswered
CHECK_DEADLOCK FALSE
