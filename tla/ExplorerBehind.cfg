SPECIFICATION Spec
CONSTANTS
  n1 = n1  n2 = n2  l1 = l1  a = a  b = b
  TxId = {}  Slot = {}  Hash = {}
  None = None
  Main = main
  Project = {main, fork}
  Worker = {w1}
  DefaultPolicy <- EveryOther
  MaxMishaps = 0  MaxSessions = 1  MaxFaults = 0  PollLimit = 2  MaxCommands = 2  MaxSnapshots = 1
  Label = {}
  Looks = {"following"}
  Script <- LabelTwice
  File <- TwoNodes
  StartGraphs <- OneNode
  MaxGestures = 0
CHECK_DEADLOCK FALSE
PROPERTY ComesBack
