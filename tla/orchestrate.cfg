SPECIFICATION Spec
CONSTANTS
  p1 = p1
  p2 = p2
  Procs <- TwoProcs
  Projects <- ThreeProjects
  MaxSteps = 2
  MaxAttempts = 2
  Cadence = 2
  MaxTasks = 3
  MaxRuns = 2
  MaxBatches = 2
  MaxCommands = 2
  MaxCrashes = 1
  None = None
CHECK_DEADLOCK FALSE
SYMMETRY Alike
INVARIANTS TypeOK DependenciesFirst OneTaskAtATime FlaggedReviewed FollowUpKept NoTaskStranded
