\* The store as `new` hands it out: loaded by the first calls, with compaction.
SPECIFICATION FairSpec
CONSTANTS
  t1 = t1  t2 = t2  t3 = t3
  k1 = k1  k2 = k2  k3 = k3
  h1 = h1  h2 = h2
  TxId = {t1, t2}
  Slot = {k1, k2}
  Hash = {h1}
  None = None
  Client = {c1, c2}
  Reader = {r1}
  Request <- CompactingRequests
  OpenedBeforeUse = FALSE
  MaxFaults = 1
INVARIANTS
  NoTornTransaction
PROPERTIES
  EveryCallSettles
