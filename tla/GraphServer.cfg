SPECIFICATION Safety
CONSTANTS
  n1 = n1  n2 = n2  l1 = l1  a = a  b = b
  TxId = {}  Slot = {}  Hash = {}
  None = None
  Main = main
  Project = {main, fork}
  Worker = {w1, w2}
  DefaultPolicy <- EveryOther
  MaxMishaps = 3  MaxSessions = 1  MaxFaults = 1  PollLimit = 2  MaxCommands = 2  MaxSnapshots = 1
  Label = {}
  Looks = {"following", "serving"}
  Script <- Lifecycle
  File <- TwoNodes
  StartGraphs <- OneNode
  MaxGestures = 0
SYMMETRY AnyWorker
CHECK_DEADLOCK FALSE
INVARIANTS
  SnapshotsNotAhead
  PurgeKeepsTail
  ExplorerAgrees
PROPERTY CursorMonotone
