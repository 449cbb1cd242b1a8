SPECIFICATION FairSpec
CONSTANTS
  w1 = w1
  w2 = w2
  o1 = o1
  Jobs = {j1, j2}
  Workers = {w1}
  Operators = {o1}
  Reclaimers = {w1}
  MaxAttempts = 2
  Interventions = {}
  Stalls = FALSE
  MaxLeases = 5
  MaxAlts = 0
  MaxCommands = 3
  MaxCrashes = 1
  NoFile = NoFile
  NoPath = NoPath
  NoBeat = NoBeat
CHECK_DEADLOCK FALSE
INVARIANT RunsWithinBudget
PROPERTIES EveryJobComesToRest ImplementsLifecycle
