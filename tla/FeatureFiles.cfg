SPECIFICATION FairSpec
CONSTANTS
  Runs <- MCRuns
  AgentOf <- MCAgentOf
  Reports <- MCReports
  Ids = {"x"}
  Listed = {"x"}
  HasTasks = TRUE
  Cache = "cache"
  MaxRows = 2
  MaxAttempts = 1
  MaxEvents = 2
PROPERTIES TaskSettles
CHECK_DEADLOCK FALSE
