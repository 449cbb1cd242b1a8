SPECIFICATION FairSpec
CONSTANTS
  x1 = x1
  x2 = x2
  s1 = s1
  s2 = s2
  Runs = {r1, r2}
  Executors = {x1}
  Senders = {s1}
  Kinds = {"dispatch", "reconcile", "wake"}
  MaxTries = 2
  Serial = TRUE
  MaxExecutions = 2
  MaxSessions = 1
  MaxCrashes = 1
  NoFile = NoFile
  NoSlot = NoSlot
CHECK_DEADLOCK FALSE
INVARIANTS TypeOK HooksAccounted SettledLeftAlone
PROPERTY EveryHookSettles
