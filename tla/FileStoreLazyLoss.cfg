\* A read loads the file while the first append commits: the next append drops it.
SPECIFICATION Spec
CONSTANTS
  t1 = t1  t2 = t2  t3 = t3
  k1 = k1  k2 = k2  k3 = k3
  h1 = h1  h2 = h2
  TxId = {t1, t2, t3}
  Slot = {k1, k2, k3}
  Hash = {h1, h2}
  None = None
  Client = {c1, c2}
  Reader = {r1}
  Request <- MixedRequests
  OpenedBeforeUse = FALSE
  MaxFaults = 0
INVARIANTS
  OutcomesDurable
