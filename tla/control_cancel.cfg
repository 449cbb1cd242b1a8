SPECIFICATION Spec
CONSTANTS
  w1 = w1
  w2 = w2
  s1 = s1
  s2 = s2
  Workers <- OneWorker
  Stoppers <- OneStopper
  MaxAttempts = 2
  MaxHelpers = 0
  MaxRuns = 2
  MaxStops = 1
  None = None
CHECK_DEADLOCK FALSE
INVARIANTS CancelLands
