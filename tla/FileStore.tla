------------------------------ MODULE FileStore ------------------------------
(***************************************************************************)
(* FileBackedLocalEventStore: the store behind the graph server, the notes *)
(* server and the runtime.  The whole state is one JSON file; the process  *)
(* keeps it in memory (this.state).  Every append and compaction goes      *)
(* through a promise chain (writeQueue), so one runs at a time; reads go   *)
(* around the chain.  A write stages its result in memory, writes a        *)
(* temporary file and renames it over the file, and rolls the memory back  *)
(* when that fails.                                                        *)
(*                                                                         *)
(* Steps are the segments between awaits.  A writer is at                  *)
(*   "idle"      : nothing at the head of the chain has started, or its    *)
(*                 loadState has completed;                                *)
(*   "loading"   : loadState awaits readFile (the contents read are wbuf); *)
(*   "persisting": the result is staged, persistState awaits (the contents *)
(*                 it will write are wbuf, what it rolls back to wprior);  *)
(*   "renamed"   : the file is replaced, the caller has not been told.     *)
(***************************************************************************)
EXTENDS EventLog, FiniteSets

CONSTANTS Client,            \* callers of appendTx and compactUpToCursor
          Reader,            \* callers of the read operations
          Request,           \* the calls they make
          OpenedBeforeUse,   \* TRUE: the store comes from open(); FALSE: from new
          MaxFaults          \* bound on failing I/O operations

ASSUME RequestAssumption ==
  Request \subseteq AppendRequest \cup CompactRequest /\ None \notin Request
ASSUME NoneAssumption == None \notin Entry
ASSUME OpenedAssumption == OpenedBeforeUse \in BOOLEAN
ASSUME FaultsAssumption == MaxFaults \in Nat

VARIABLES
  loaded,    \* this.state is not null
  mem,       \* this.state (EMPTY_STATE stands in for null)
  cache,     \* txIndexBySpace: the index it was built from, or None
  disk,      \* the contents of the file (absent and empty are the same)
  poisoned,  \* persistQueue is a rejected promise
  queue,     \* writeQueue, the head being the running write
  call,      \* each client's pending call, or None
  wpc, wbuf, wprior,
  load,      \* each reader's readFile result on its way into this.state, or None
  reply,     \* the answer of the last settled call, until the next call is made
  acked,     \* history: the outcomes callers were answered as committed
  faults     \* number of I/O failures so far

vars == <<loaded, mem, cache, disk, poisoned, queue, call, wpc, wbuf, wprior,
          load, reply, acked, faults>>

TypeOK ==
  /\ loaded \in BOOLEAN
  /\ mem \in Space
  /\ cache \in Seq(Entry) \cup {None}
  /\ disk \in Space
  /\ poisoned \in BOOLEAN
  /\ queue \in Seq(Client)
  /\ call \in [Client -> Request \cup {None}]
  /\ wpc \in {"idle", "loading", "persisting", "renamed"}
  /\ wbuf \in Space \cup {None}
  /\ wprior \in Space \cup {None}
  /\ load \in [Reader -> Space \cup {None}]
  /\ reply \in {"none", "committed", "rejected", "done", "failed"}
  /\ acked \subseteq Outcome
  /\ faults \in 0 .. MaxFaults

Init ==
  /\ loaded = OpenedBeforeUse
  /\ mem = EmptySpace
  /\ cache = None
  /\ disk = EmptySpace
  /\ poisoned = FALSE
  /\ queue = <<>>
  /\ call = [c \in Client |-> None]
  /\ wpc = "idle" /\ wbuf = None /\ wprior = None
  /\ load = [r \in Reader |-> None]
  /\ reply = "none"
  /\ acked = {}
  /\ faults = 0

-----------------------------------------------------------------------------
(* serializeWrite *)

Submit(c, o) ==
  /\ call[c] = None
  /\ call' = [call EXCEPT ![c] = o]
  /\ queue' = Append(queue, c)
  /\ reply' = "none"
  /\ UNCHANGED <<loaded, mem, cache, disk, poisoned, wpc, wbuf, wprior, load, acked, faults>>

(* The chain goes on after a rejected operation as after a resolved one. *)
Settle(c, answer) ==
  /\ call' = [call EXCEPT ![c] = None]
  /\ queue' = Tail(queue)
  /\ reply' = answer
  /\ wpc' = "idle" /\ wbuf' = None /\ wprior' = None

Acknowledge(sp, slot) == acked' = acked \cup OutcomesAt(sp, slot)

(* A write whose body can run: it is at the head and loadState has returned. *)
AtBody(c, kind) ==
  /\ wpc = "idle"
  /\ queue # <<>> /\ c = Head(queue)
  /\ loaded
  /\ call[c].kind = kind

IOFault == faults < MaxFaults /\ faults' = faults + 1

-----------------------------------------------------------------------------
(* loadState, called by the running write *)

WriterReadFile ==
  /\ wpc = "idle" /\ queue # <<>> /\ ~loaded
  /\ wpc' = "loading" /\ wbuf' = disk
  /\ UNCHANGED <<loaded, mem, cache, disk, poisoned, queue, call, wprior, load, reply, acked, faults>>

WriterInstall ==
  /\ wpc = "loading"
  /\ loaded' = TRUE /\ mem' = wbuf /\ cache' = None
  /\ wpc' = "idle" /\ wbuf' = None
  /\ UNCHANGED <<disk, poisoned, queue, call, wprior, load, reply, acked, faults>>

WriterReadFails ==
  /\ wpc = "loading" /\ IOFault
  /\ Settle(Head(queue), "failed")
  /\ UNCHANGED <<loaded, mem, cache, disk, poisoned, load, acked>>

(* loadState, called by a read: it installs what it read whatever this.state is by then. *)
ReaderReadFile(r) ==
  /\ ~loaded /\ load[r] = None
  /\ load' = [load EXCEPT ![r] = disk]
  /\ UNCHANGED <<loaded, mem, cache, disk, poisoned, queue, call, wpc, wbuf, wprior, reply, acked, faults>>

ReaderInstall(r) ==
  /\ load[r] # None
  /\ loaded' = TRUE /\ mem' = load[r] /\ cache' = None
  /\ load' = [load EXCEPT ![r] = None]
  /\ UNCHANGED <<disk, poisoned, queue, call, wpc, wbuf, wprior, reply, acked, faults>>

(* getTxIndexById: a cached map is used when it has as many ids as the index has entries. *)
IdsOf(index) == {index[i].tx : i \in DOMAIN index}

(* Mutant: a cached map is used without comparing its size. *)
CacheHit_AnySize == cache # None

CacheHit == cache # None /\ Cardinality(IdsOf(cache)) = Len(mem.txIndex)

TxIndexById == IF CacheHit THEN cache ELSE mem.txIndex

ReaderLooksUp ==
  /\ loaded
  /\ cache' = TxIndexById
  /\ UNCHANGED <<loaded, mem, disk, poisoned, queue, call, wpc, wbuf, wprior, load, reply, acked, faults>>

-----------------------------------------------------------------------------
(* appendTx *)

AppendRejected(c) ==
  /\ AtBody(c, "append") /\ Rejects(mem, call[c])
  /\ Settle(c, "rejected")
  /\ UNCHANGED <<loaded, mem, cache, disk, poisoned, load, acked, faults>>

(* A known slot with the same payload: the stored receipt, without a write. *)
AppendReplayed(c) ==
  /\ AtBody(c, "append") /\ IsReplay(mem, call[c])
  /\ Acknowledge(mem, call[c].slot)
  /\ Settle(c, "committed")
  /\ UNCHANGED <<loaded, mem, cache, disk, poisoned, load, faults>>

AppendStaged(c) ==
  /\ AtBody(c, "append") /\ Commits(mem, call[c])
  /\ mem' = AppendTx(mem, call[c])
  /\ wpc' = "persisting" /\ wbuf' = mem' /\ wprior' = mem
  /\ UNCHANGED <<loaded, cache, disk, poisoned, queue, call, load, reply, acked, faults>>

-----------------------------------------------------------------------------
(* compactUpToCursor *)

CompactIdle(c) ==
  /\ AtBody(c, "compact") /\ PrunedTxIds(mem, call[c].cutoff) = {}
  /\ Settle(c, "done")
  /\ UNCHANGED <<loaded, mem, cache, disk, poisoned, load, acked, faults>>

(* The space is changed in place: wprior is never restored. *)
CompactStaged(c) ==
  /\ AtBody(c, "compact") /\ PrunedTxIds(mem, call[c].cutoff) # {}
  /\ mem' = Compact(mem, call[c].cutoff) /\ cache' = None
  /\ wpc' = "persisting" /\ wbuf' = mem' /\ wprior' = mem
  /\ UNCHANGED <<loaded, disk, poisoned, queue, call, load, reply, acked, faults>>

-----------------------------------------------------------------------------
(* persistState *)

(* Mutant: the file gets the space the append started from. *)
PersistRenames_Unstaged ==
  /\ wpc = "persisting" /\ ~poisoned
  /\ disk' = wprior
  /\ wpc' = "renamed"
  /\ UNCHANGED <<loaded, mem, cache, poisoned, queue, call, wbuf, wprior, load, reply, acked, faults>>

PersistRenames ==
  /\ wpc = "persisting" /\ ~poisoned
  /\ disk' = wbuf
  /\ wpc' = "renamed"
  /\ UNCHANGED <<loaded, mem, cache, poisoned, queue, call, wbuf, wprior, load, reply, acked, faults>>

(* Mutant: a failed append leaves its staged space in memory. *)
GiveUp_NoRollback(c) ==
  /\ UNCHANGED mem
  /\ Settle(c, "failed")

(* appendTx puts the previous space back and rethrows; compaction only rethrows. *)
GiveUp(c) ==
  /\ mem' = IF call[c].kind = "append" THEN wprior ELSE mem
  /\ Settle(c, "failed")

(* mkdir, writeFile or rename fails, and persistQueue stays rejected. *)
PersistFails ==
  /\ wpc = "persisting" /\ ~poisoned /\ IOFault
  /\ poisoned' = TRUE
  /\ GiveUp(Head(queue))
  /\ UNCHANGED <<loaded, cache, disk, load, acked>>

(* Mutant: a write behind a rejected persistQueue waits for ever. *)
PersistRefused_Hangs ==
  /\ wpc = "persisting" /\ poisoned
  /\ UNCHANGED vars

(* persistQueue.then(...) of a rejected persistQueue: nothing is written. *)
PersistRefused ==
  /\ wpc = "persisting" /\ poisoned
  /\ GiveUp(Head(queue))
  /\ UNCHANGED <<loaded, cache, disk, poisoned, load, acked, faults>>

AppendCommitted(c) ==
  /\ wpc = "renamed" /\ c = Head(queue) /\ call[c].kind = "append"
  /\ cache' = None
  /\ Acknowledge(wbuf, call[c].slot)
  /\ Settle(c, "committed")
  /\ UNCHANGED <<loaded, mem, disk, poisoned, load, faults>>

CompactDone(c) ==
  /\ wpc = "renamed" /\ c = Head(queue) /\ call[c].kind = "compact"
  /\ Settle(c, "done")
  /\ UNCHANGED <<loaded, mem, cache, disk, poisoned, load, acked, faults>>

-----------------------------------------------------------------------------
(* The process dies and a new one constructs the store; callers lose their calls. *)
Crash ==
  /\ loaded' = OpenedBeforeUse
  /\ mem' = IF OpenedBeforeUse THEN disk ELSE EmptySpace
  /\ cache' = None
  /\ poisoned' = FALSE
  /\ queue' = <<>>
  /\ call' = [c \in Client |-> None]
  /\ wpc' = "idle" /\ wbuf' = None /\ wprior' = None
  /\ load' = [r \in Reader |-> None]
  /\ reply' = "none"
  /\ UNCHANGED <<disk, acked, faults>>

-----------------------------------------------------------------------------
(* What the event loop does with the running write when no I/O fails. *)
WriterStep ==
  \/ WriterReadFile
  \/ WriterInstall
  \/ PersistRenames
  \/ PersistRefused
  \/ \E c \in Client :
       \/ AppendRejected(c)
       \/ AppendReplayed(c)
       \/ AppendStaged(c)
       \/ CompactIdle(c)
       \/ CompactStaged(c)
       \/ AppendCommitted(c)
       \/ CompactDone(c)

ReaderStep(r) == ReaderReadFile(r) \/ ReaderInstall(r)

Next ==
  \/ \E c \in Client, o \in Request : Submit(c, o)
  \/ WriterStep
  \/ WriterReadFails
  \/ PersistFails
  \/ \E r \in Reader : ReaderStep(r)
  \/ ReaderLooksUp
  \/ Crash

Spec == Init /\ [][Next]_vars

(* The event loop goes on with a pending continuation and I/O completes. *)
FairSpec == Spec /\ WF_vars(WriterStep)

-----------------------------------------------------------------------------
(* Safety *)

(* The places of a transaction's events in a stream; whether they are      *)
(* complete and in order.                                                  *)
PlacesOf(evs, tx) == {q \in DOMAIN evs : evs[q].tx = tx}

WholeIn(evs, tx, start, end) ==
  LET own == PlacesOf(evs, tx) IN
  /\ IF own = {} THEN start = end ELSE {evs[q].seq : q \in own} = start .. end
  /\ \A q \in own : evs[q].n = evs[q].seq - start + 1
  /\ \A p, q \in own : p < q => evs[p].n < evs[q].n

(* A transaction is either in the log with all its events or not in it:    *)
(* stored by appendTx, carried by the file, kept or dropped by compaction. *)
(* Every entry's events are there, complete and in order, and no event is  *)
(* without its entry.                                                      *)
WholeTxs(sp) ==
  /\ \A i \in DOMAIN sp.txIndex, s \in Streams :
       LET e == sp.txIndex[i] IN WholeIn(sp.ev[s], e.tx, e.start[s], e.end[s])
  /\ \A s \in Streams : \A k \in DOMAIN sp.ev[s] : sp.ev[s][k].tx \in IdsOf(sp.txIndex)

NoTornTransaction ==
  /\ WholeTxs(disk)
  /\ WholeTxs(mem)

(* Each stream is totally ordered by seq without a gap, and the index tiles *)
(* it: the events between the end of one entry and the end of the next are  *)
(* those of the latter, in their order, and the last entry ends the stream. *)
EndBefore(sp, i, s) == IF i = 1 THEN 0 ELSE sp.txIndex[i - 1].end[s]

TotallyOrdered(sp) ==
  /\ \A s \in Streams : \A q \in DOMAIN sp.ev[s] : sp.ev[s][q].seq = q
  /\ \A i \in DOMAIN sp.txIndex : sp.txIndex[i].txIndex = i
  /\ \A i \in DOMAIN sp.txIndex, s \in Streams :
       /\ EndBefore(sp, i, s) <= sp.txIndex[i].end[s]
       /\ \A q \in EndBefore(sp, i, s) + 1 .. sp.txIndex[i].end[s] :
            /\ sp.ev[s][q].tx = sp.txIndex[i].tx
            /\ sp.ev[s][q].n = q - EndBefore(sp, i, s)
  /\ \A s \in Streams : Len(sp.ev[s]) = EndBefore(sp, Len(sp.txIndex) + 1, s)

StreamsTotallyOrdered == TotallyOrdered(disk)

(* What a caller was told under a slot is what the file says of the slot,  *)
(* from the confirmation on, through failures, crashes and compactions:    *)
(* the receipt of a retry is the receipt of the commit.                    *)
OutcomesDurable ==
  /\ acked \subseteq disk.idem
  /\ \A o, p \in disk.idem : o.slot = p.slot => o = p

(* The receipt names the transaction's place in the stored log and the     *)
(* cursor just after it: readers that resume there skip and repeat nothing. *)
ReceiptsMatchLog ==
  \A o \in disk.idem :
    LET r == o.receipt IN
    /\ r.txIndex \in DOMAIN disk.txIndex
    /\ disk.txIndex[r.txIndex].tx = r.tx
    /\ disk.txIndex[r.txIndex].end = r.cursorAfter

(* Apart from the write in flight, what readers see is what a restart finds. *)
MemoryAgreesWithDisk == wpc # "persisting" => mem = disk

(* A transaction that required a base revision directly follows it. *)
RevisionChecked ==
  \A q \in Request : (q.kind = "append" /\ q.base # None) =>
    \A o \in OutcomesAt(disk, q.slot) :
      o.hash = q.hash => \A s \in Streams : o.receipt.cursorAfter[s] = q.base[s] + q.n[s]

(* While a write waits to be refused by a rejected persistQueue, a map of an *)
(* index with an append that was rolled back can have the size of the index. *)
IsRefusing == poisoned /\ wpc = "persisting"

(* Apart from that, the id map answers readTx and readRange what the index   *)
(* would, also while a write is staged, and after a rollback or a compaction *)
(* (getTxIndexById compares sizes and nothing else).                         *)
CacheSound ==
  loaded /\ ~IsRefusing => \A t \in TxId : LookUp(TxIndexById, t) = LookUp(mem.txIndex, t)

(* Strict tx-closed reads (REMOTE_READINESS.md): a range read that starts   *)
(* and is capped at transaction boundaries returns consecutive events and   *)
(* ends at a boundary, whatever its limit.                                  *)
Boundaries(sp, s) == {0} \cup {sp.txIndex[i].end[s] : i \in DOMAIN sp.txIndex}

StrictTxClosedReads ==
  loaded =>
    \A s \in Streams : \A from, cap \in Boundaries(mem, s) : \A limit \in 1 .. Len(mem.ev[s]) + 1 :
      LET got == ReadRange(mem, TxIndexById, s, from, limit, cap) IN
      /\ \A i \in DOMAIN got : got[i].seq = from + i
      /\ from + Len(got) \in Boundaries(mem, s)
      /\ from < cap => got # <<>>

(* The code keeps that promise (readRange, through getTxIndexById) except    *)
(* while it waits to refuse a write: a map built of an append that was then  *)
(* rolled back has the size that the refused append gives the index, lacks   *)
(* its transaction, and lets a range end inside it.                          *)
RangeReadsTxClosed == ~IsRefusing => StrictTxClosedReads

(* The store implements the transaction log: the file is the log. *)
TxOutcomes(outcomes) ==
  {[slot |-> o.slot, tx |-> o.receipt.tx, digest |-> o.hash, place |-> o.receipt.txIndex] :
     o \in outcomes}

L == INSTANCE TxLog WITH
       Tx <- TxId, SlotName <- Slot, Digest <- Hash,
       log     <- [i \in DOMAIN disk.txIndex |-> disk.txIndex[i].tx],
       outcome <- TxOutcomes(disk.idem),
       told    <- TxOutcomes(acked)

ImplementsTxLog == L!LogSpec

-----------------------------------------------------------------------------
(* A call fails only in the step in which an I/O operation of its own fails. *)
FailsOnlyOnOwnFault ==
  [][(Len(queue') < Len(queue) /\ reply' = "failed") => faults' = faults + 1]_vars

(* Every call made to the store is answered, unless the process dies: a    *)
(* failed write does not block the ones behind it.                         *)
EveryCallSettles == \A c \in Client : call[c] # None ~> call[c] = None
=============================================================================
