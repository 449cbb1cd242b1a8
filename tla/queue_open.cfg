SPECIFICATION Spec
CONSTANTS
  w1 = w1
  w2 = w2
  o1 = o1
  Jobs = {j1}
  Workers = {w1}
  Operators = {o1}
  Reclaimers = {w1, o1}
  MaxAttempts = 2
  Interventions = {"cancel", "unlock", "drop", "resubmit"}
  Stalls = TRUE
  MaxLeases = 1
  MaxAlts = 1
  MaxCommands = 3
  MaxCrashes = 0
  NoFile = NoFile
  NoPath = NoPath
  NoBeat = NoBeat
SYMMETRY Symmetric
CHECK_DEADLOCK FALSE
INVARIANT NoJobLost
PROPERTY FinalStatesKept
