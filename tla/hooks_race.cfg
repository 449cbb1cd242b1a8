SPECIFICATION Spec
CONSTANTS
  x1 = x1
  x2 = x2
  s1 = s1
  s2 = s2
  Runs = {r1}
  Executors = {x1}
  Senders = {s1, s2}
  Kinds = {"dispatch", "reconcile", "wake"}
  MaxTries = 2
  Serial = FALSE
  MaxExecutions = 1
  MaxSessions = 2
  MaxCrashes = 0
  NoFile = NoFile
  NoSlot = NoSlot
CHECK_DEADLOCK FALSE
INVARIANT HookKept
