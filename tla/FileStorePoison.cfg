\* Two writes, the first of which fails: the second is refused without being tried.
SPECIFICATION Spec
CONSTANTS
  t1 = t1  t2 = t2  t3 = t3
  k1 = k1  k2 = k2  k3 = k3
  h1 = h1  h2 = h2
  TxId = {t1, t2, t3}
  Slot = {k1, k2, k3}
  Hash = {h1, h2}
  None = None
  Client = {c1, c2}
  Reader = {}
  Request <- MixedRequests
  OpenedBeforeUse = TRUE
  MaxFaults = 1
PROPERTIES
  FailsOnlyOnOwnFault
