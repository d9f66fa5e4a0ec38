SPECIFICATION Spec
CONSTANTS
  n1 = n1  n2 = n2  l1 = l1  a = a  b = b
  TxId = {}  Slot = {}  Hash = {}
  None = None
  Main = main
  Project = {main, fork}
  Worker = {w1}
  DefaultPolicy <- EveryOther
  MaxMishaps = 0  MaxSessions = 2  MaxFaults = 1  PollLimit = 2  MaxCommands = 3  MaxSnapshots = 1
  Label = {a}
  Looks = {"following", "editing"}
  Script <- Lifecycle
  File <- TwoNodes
  StartGraphs <- OneNode
  MaxGestures = 3
CHECK_DEADLOCK FALSE
INVARIANTS
  ExplorerAgrees
  CacheAgrees
  UndoRestores
  ImportWhole
PROPERTIES
  CursorMonotone
  CatchesUp
