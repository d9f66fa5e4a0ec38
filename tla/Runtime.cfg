\* One runtime, two readers, three processes under two policies.
SPECIFICATION Spec
CONSTANTS
  t1 = t1  t2 = t2  t3 = t3
  TxId = {t1, t2, t3}
  Slot = {t1, t2, t3}
  Hash = {t1, t2, t3}
  None = None  Torn = Torn  Shared = Shared  Unnamed = Unnamed
  Root = {root}
  Reader = {reader1, reader2}
  Scope = {"acl", "secret"}
  HiddenIn <- HiddenFrom
  MinTx = 1  MaxTx = 0  MaxExits = 2
INVARIANTS
  ViewsAreReplays
  ReadsSeeWrites
  SnapshotFileSound
PROPERTY
  StartsAgain
