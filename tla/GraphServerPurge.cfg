SPECIFICATION Safety
CONSTANTS
  n1 = n1  n2 = n2  l1 = l1  a = a  b = b
  TxId = {}  Slot = {}  Hash = {}
  None = None
  Main = main
  Project = {main}
  Worker = {w1}
  DefaultPolicy <- EveryOther
  MaxMishaps = 1  MaxSessions = 0  MaxFaults = 0  PollLimit = 2  MaxCommands = 2  MaxSnapshots = 2
  Label = {}
  Looks = {"serving"}
  Script <- Lifecycle
  File <- TwoNodes
  StartGraphs <- OneNode
  MaxGestures = 0
CHECK_DEADLOCK FALSE
INVARIANT SnapshotsFull
