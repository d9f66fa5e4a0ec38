\* Three executions at a time over commands that compete for revisions and slots.
SPECIFICATION Spec
CONSTANTS
  t1 = t1  t2 = t2  t3 = t3
  k1 = k1  k2 = k2  k3 = k3
  p1 = p1  p2 = p2
  TxId = {t1, t2, t3}
  Slot = {k1, k2, k3}
  Hash <- Hashes
  None = None
  Executor = {e1, e2, e3}
  Payload = {p1, p2}
  Command <- Commands
  Cutoff = {2}
INVARIANTS
  TypeOK
  CommitsFollowBase
  AnswersMatchLog
  VerdictIsFinal
  OneCommitPerSlot
SYMMETRY Executors
