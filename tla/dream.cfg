SPECIFICATION Spec
CONSTANTS
  x1 = x1
  o1 = o1
  d1 = d1
  r1 = r1
  r2 = r2
  ProjectNote = ProjectNote
  Executors <- OneExecutor
  Orchestrators <- OneOrchestrator
  Dreamers <- OneDreamer
  Runs <- TwoRuns
  MinRuns = 1
  MaxSeconds = 2
  MaxDreams = 2
  MaxFaults = 1
CHECK_DEADLOCK FALSE
SYMMETRY Alike
INVARIANTS TypeOK MemoryKept NoRunForgotten
