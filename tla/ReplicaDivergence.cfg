\* The first transaction also writes the meta stream, as the others do not.
SPECIFICATION Safety
CONSTANTS
  t1 = t1  t2 = t2  t3 = t3  t4 = t4
  note1 = note1  note2 = note2  a = a  b = b
  TxId = {t1, t2, t3, t4}
  Slot = {t1, t2, t3, t4}
  Hash = {t1, t2, t3, t4}
  None = None
  Hidden <- HiddenFromBob
  NoteCommands <- Commands
  Users <- Principals
  LimitTx = 2  Fits = {1, 2}  MaxRounds = 5  MaxUpsets = 2
  Replicator = {w1, w2}  PullLimit = 2  MaxReplicaFaults = 2
  StreamLimit = 2  StreamFits = {2}  NoteLimit = 1  MaxStops = 2
  DbCutoffs = {2, 3}  MetaTxs = {t1}
INVARIANT
  NoFalseDivergence
