SPECIFICATION Spec
CONSTANTS
  a1 = a1
  a2 = a2
  t1 = t1
  x1 = x1
  x2 = x2
  p1 = p1
  p2 = p2
  Agents <- MCAgents
  Tasks <- MCTasks
  Paths <- MCPaths
  Procs <- MCProcs
  Commands = {"claim", "release", "done", "wake", "session", "put"}
  MaxCommands = 3
  MaxCrashes = 1
  None = None
SYMMETRY Symmetric
CHECK_DEADLOCK FALSE
INVARIANTS TypeOK MutualExclusion HoldersAgree UpdatesKept DocsDescribed UndisturbedTask NobodyStuck
