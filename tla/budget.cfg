SPECIFICATION Spec
CONSTANTS
  r1 = r1
  r2 = r2
  w1 = w1
  o1 = o1
  Runs <- TwoRuns
  Workers <- OneWorker
  Operators <- OneOperator
  Tasks <- TwoTasks
  BaseCost = 1
  AgentCost <- Agents
  ModeCost <- Modes
  FlagCost <- Flags
  WarningLimit = 2
  HardLimit = 3
  GuardedAgents <- Nothing
  GuardedModes <- Nothing
  GuardedFlags <- GuardedFlag
  GuardedPaths <- Nothing
  Asked <- Requested
  MaxAttempts = 2
  MaxRequests = 2
  MaxCommands = 2
  MaxCrashes = 1
  None = None
CHECK_DEADLOCK FALSE
INVARIANTS GovernedRunsApproved BudgetHeld WaitingHasRequest NotPausedAgain
PROPERTY FollowsLifecycle
