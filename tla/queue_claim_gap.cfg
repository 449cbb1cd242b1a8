SPECIFICATION Spec
CONSTANTS
  w1 = w1
  w2 = w2
  o1 = o1
  Jobs = {j1}
  Workers = {w1, w2}
  Operators = {o1}
  Reclaimers = {o1}
  MaxAttempts = 2
  Interventions = {}
  Stalls = FALSE
  MaxLeases = 3
  MaxAlts = 1
  MaxCommands = 4
  MaxCrashes = 1
  NoFile = NoFile
  NoPath = NoPath
  NoBeat = NoBeat
SYMMETRY Symmetric
CHECK_DEADLOCK FALSE
PROPERTY ReclaimSparesTheLiving
