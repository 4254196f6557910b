SPECIFICATION MCSpec
CONSTANTS
  Runs <- MCRuns
  AgentOf <- MCAgentOf
  Reports <- MCReports
  Ids = {"x", "y"}
  Listed = {"x"}
  HasTasks = TRUE
  Cache = "cache"
  MaxRows = 2
  MaxAttempts = 1
  MaxEvents = 2
  Guests = {"g"}
  Requests = {"u", "v"}
  Opening <- MCOpening
  Answers <- MCAnswers
  Saved <- MCSaved
INVARIANTS ChangelogWhole Collected PendingNotApplied
PROPERTIES OthersUnchanged
CHECK_DEADLOCK FALSE
