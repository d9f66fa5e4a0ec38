--------------------------- MODULE FileStore_proofs ---------------------------
(***************************************************************************)
(* Proofs about FileStore for every set of clients, readers and requests,  *)
(* any number of crashes and any bound on failing I/O.                     *)
(*                                                                         *)
(* 1. TypeCorrect: the variables have their types.                         *)
(* 2. OutcomesAreDurable: what callers were told stays in the file, for a  *)
(*    store that open() loaded before its first use.                       *)
(* 3. NoTransactionIsTorn: memory and file have whole transactions, when   *)
(*    no transaction is appended under two slots.                          *)
(* 4. CacheStaysSound: the map of the index is that of the one in memory,  *)
(*    for a store that open() loaded, but while a write is being refused.  *)
(* 5. BasesAreChecked: a committed append follows the cursor its caller    *)
(*    based it on, when a retry sends what was sent before.                *)
(*                                                                         *)
(* 6. StoreImplementsTxLog and MemoryIsTheFile: a store that open() loaded *)
(*    and that is not compacted implements TxLog.  Between writes memory   *)
(*    and file are equal, and a write in flight carries the file's         *)
(*    contents with one transaction appended (WriteInv).  So a step        *)
(*    changes the file by one append, or tells a caller an outcome that is *)
(*    in the file, or does neither (StepsOfTheLog).                        *)
(* 7. FileIsTotallyOrdered, ReceiptsAreTrue and RangesAreWhole, when       *)
(*    nothing is compacted.                                                *)
(*                                                                         *)
(* 1, 3 and 5 are shown of every space the store holds (HoldsOnly), and so *)
(* need neither open() nor that nothing is compacted; 7 by an induction    *)
(* over appends, where only RangesAreWhole needs open(), for the map.      *)
(***************************************************************************)
EXTENDS FileStore, EventLog_proofs, FiniteSetTheorems

AppendOnly == Request \subseteq AppendRequest

(* An append carries a bundle. *)
LEMMA AppendHasBundle ==
  ASSUME NEW r \in Request, r.kind = "append"
  PROVE  r \in AppendRequest
  BY RequestAssumption DEF AppendRequest, CompactRequest

-----------------------------------------------------------------------------
(* The write queue: a client is in it at most once, with a call, and a     *)
(* write that has started is its head.  The other invariants rest on it.   *)
QueueInv ==
  /\ queue \in Seq(Client)
  /\ call \in [Client -> Request \cup {None}]
  /\ wpc # "idle" => queue # <<>>
  /\ \A i \in 1 .. Len(queue) : call[queue[i]] # None
  /\ \A i, j \in 1 .. Len(queue) : queue[i] = queue[j] => i = j

(* Serving the head of the queue: it has a call, and the others keep theirs. *)
LEMMA HeadOfQueue ==
  ASSUME QueueInv, queue # <<>>
  PROVE  /\ Head(queue) \in Client
         /\ call[Head(queue)] \in Request
         /\ Tail(queue) \in Seq(Client)
         /\ Len(Tail(queue)) = Len(queue) - 1
         /\ \A i \in 1 .. Len(Tail(queue)) :
              Tail(queue)[i] = queue[i + 1] /\ Tail(queue)[i] # Head(queue)
  <1>1. queue \in Seq(Client) /\ call \in [Client -> Request \cup {None}]
    BY DEF QueueInv
  <1>2. Len(queue) \in Nat \ {0} /\ Head(queue) = queue[1] /\ queue[1] \in Client
    BY <1>1
  <1>3. call[Head(queue)] \in Request
    BY <1>1, <1>2 DEF QueueInv
  <1>4. /\ Tail(queue) \in Seq(Client)
        /\ Len(Tail(queue)) = Len(queue) - 1
        /\ \A i \in 1 .. Len(Tail(queue)) : Tail(queue)[i] = queue[i + 1]
    BY <1>1, HeadTailProperties
  <1>5. \A i \in 1 .. Len(Tail(queue)) : Tail(queue)[i] # Head(queue)
    BY <1>2, <1>4 DEF QueueInv
  <1> QED
    BY <1>2, <1>3, <1>4, <1>5

(* Settling the head's call keeps the queue well formed. *)
LEMMA SettleKeepsQueue ==
  ASSUME QueueInv, queue # <<>>, NEW answer, Settle(Head(queue), answer)
  PROVE  QueueInv'
  <1>1. queue' = Tail(queue) /\ call' = [call EXCEPT ![Head(queue)] = None] /\ wpc' = "idle"
    BY DEF Settle
  <1>2. call' \in [Client -> Request \cup {None}] /\ queue' \in Seq(Client)
    BY <1>1, HeadOfQueue DEF QueueInv
  <1>3. \A i \in 1 .. Len(queue') : queue'[i] = queue[i + 1] /\ queue'[i] # Head(queue)
                                     /\ i + 1 \in 1 .. Len(queue)
    BY <1>1, HeadOfQueue DEF QueueInv
  <1>4. \A i \in 1 .. Len(queue') : call'[queue'[i]] # None
    <2> SUFFICES ASSUME NEW i \in 1 .. Len(queue') PROVE call'[queue'[i]] # None
      OBVIOUS
    <2>1. queue'[i] = queue[i + 1] /\ queue'[i] # Head(queue) /\ i + 1 \in 1 .. Len(queue)
      BY <1>3
    <2>2. queue[i + 1] \in Client
      BY <2>1 DEF QueueInv
    <2>3. call'[queue'[i]] = call[queue[i + 1]]
      BY <1>1, <2>1, <2>2 DEF QueueInv
    <2> QED
      BY <2>1, <2>3 DEF QueueInv
  <1>5. \A i, j \in 1 .. Len(queue') : queue'[i] = queue'[j] => i = j
    <2> SUFFICES ASSUME NEW i \in 1 .. Len(queue'), NEW j \in 1 .. Len(queue'), queue'[i] = queue'[j]
                 PROVE  i = j
      OBVIOUS
    <2>1. i + 1 = j + 1
      BY <1>3 DEF QueueInv
    <2> QED
      BY <2>1
  <1> QED
    BY <1>1, <1>2, <1>4, <1>5 DEF QueueInv

(* A new call goes to the end of the queue and leaves the head its call. *)
LEMMA SubmitKeepsQueue ==
  ASSUME QueueInv, NEW c \in Client, NEW o \in Request, Submit(c, o)
  PROVE  /\ QueueInv'
         /\ queue # <<>> => Head(queue') = Head(queue) /\ call'[Head(queue')] = call[Head(queue)]
  <1>1. /\ call[c] = None /\ call' = [call EXCEPT ![c] = o] /\ queue' = Append(queue, c)
        /\ wpc' = wpc /\ o # None
    BY RequestAssumption DEF Submit
  <1>2. /\ Len(queue') = Len(queue) + 1 /\ Len(queue) \in Nat
        /\ \A i \in 1 .. Len(queue) : queue'[i] = queue[i] /\ queue[i] \in Client /\ queue[i] # c
        /\ queue'[Len(queue) + 1] = c
    BY <1>1 DEF QueueInv
  <1>3. queue' \in Seq(Client) /\ call' \in [Client -> Request \cup {None}] /\ queue' # <<>>
    BY <1>1 DEF QueueInv
  <1>4. \A i \in 1 .. Len(queue') : call'[queue'[i]] # None
    BY <1>1, <1>2 DEF QueueInv
  <1>5. \A i, j \in 1 .. Len(queue') : queue'[i] = queue'[j] => i = j
    BY <1>2 DEF QueueInv
  <1>6. queue # <<>> => Head(queue') = Head(queue) /\ call'[Head(queue')] = call[Head(queue)]
    BY <1>1, <1>2, HeadOfQueue DEF QueueInv
  <1> QED
    BY <1>3, <1>4, <1>5, <1>6 DEF QueueInv

(* The queue is well formed at the start and after every step. *)
LEMMA QueueInit == Init => QueueInv
  BY DEF Init, QueueInv

(* Every step keeps the write queue well formed. *)
LEMMA QueueStep == QueueInv /\ [Next]_vars => QueueInv'
  <1> SUFFICES ASSUME QueueInv, [Next]_vars PROVE QueueInv'
    OBVIOUS
  <1>1. ASSUME NEW c \in Client, NEW o \in Request, Submit(c, o) PROVE QueueInv'
    BY <1>1, SubmitKeepsQueue
  \* The writer starts, stages or renames: the queue stays.
  <1>2. CASE \/ WriterReadFile \/ PersistRenames \/ WriterInstall
             \/ \E c \in Client : AppendStaged(c) \/ CompactStaged(c)
    BY <1>2 DEF WriterReadFile, WriterInstall, AppendStaged, CompactStaged, AtBody, PersistRenames, QueueInv
  \* The writer answers its caller.
  <1>3. CASE \/ WriterReadFails \/ PersistFails \/ PersistRefused
             \/ \E c \in Client : \/ AppendRejected(c) \/ AppendReplayed(c) \/ CompactIdle(c)
                                  \/ AppendCommitted(c) \/ CompactDone(c)
    <2>1. queue # <<>>
      BY <1>3 DEF WriterReadFails, PersistFails, PersistRefused, AppendRejected, AppendReplayed,
                  CompactIdle, AppendCommitted, CompactDone, AtBody, QueueInv
    <2>2. \E answer : Settle(Head(queue), answer)
      BY <1>3 DEF WriterReadFails, PersistFails, PersistRefused, GiveUp, AppendRejected,
                  AppendReplayed, CompactIdle, AppendCommitted, CompactDone, AtBody
    <2> QED
      BY <2>1, <2>2, SettleKeepsQueue
  <1>4. CASE (\E r \in Reader : ReaderStep(r)) \/ ReaderLooksUp \/ UNCHANGED vars
    BY <1>4 DEF ReaderStep, ReaderReadFile, ReaderInstall, ReaderLooksUp, vars, QueueInv
  <1>5. CASE Crash
    BY <1>5 DEF Crash, QueueInv
  <1> QED
    BY <1>1, <1>2, <1>3, <1>4, <1>5 DEF Next, WriterStep

-----------------------------------------------------------------------------
(* Type correctness *)

(* Whatever the writer has read or staged is there while it waits for the file. *)
WriterInv ==
  /\ wpc # "idle" => wbuf \in Space
  /\ wpc = "persisting" => wprior \in Space

TypeInv == TypeOK /\ QueueInv /\ WriterInv

(* The initial state. *)
LEMMA TypeInit == Init => TypeInv
  <1> SUFFICES ASSUME Init PROVE TypeInv
    OBVIOUS
  <1>1. TypeOK
    <2>1. loaded \in BOOLEAN /\ mem \in Space /\ disk \in Space /\ poisoned \in BOOLEAN
      BY EmptySpaceType, OpenedAssumption, Zenon DEF Init
    <2>2. faults \in 0 .. MaxFaults
      BY FaultsAssumption DEF Init
    <2>3. queue \in Seq(Client) /\ cache \in Seq(Entry) \cup {None}
      BY DEF Init
    <2>4. call \in [Client -> Request \cup {None}] /\ load \in [Reader -> Space \cup {None}]
      BY DEF Init
    <2> QED
      BY <2>1, <2>2, <2>3, <2>4 DEF Init, TypeOK
  <1>2. QueueInv /\ WriterInv
    BY QueueInit DEF Init, WriterInv
  <1> QED
    BY <1>1, <1>2 DEF TypeInv

(* Every step. *)
LEMMA TypeStep == TypeInv /\ [Next]_vars => TypeInv'
  <1> SUFFICES ASSUME TypeInv, [Next]_vars PROVE TypeInv'
    OBVIOUS
  <1> USE DEF TypeInv
  <1>a. QueueInv /\ QueueInv'
    BY QueueStep
  \* Once the queue is taken care of, what is left of a step that answers.
  <1>b. ASSUME NEW c, NEW answer \in {"committed", "rejected", "done", "failed"},
               Settle(c, answer), loaded' \in BOOLEAN, mem' \in Space,
               cache' \in Seq(Entry) \cup {None}, disk' \in Space, poisoned' \in BOOLEAN,
               load' \in [Reader -> Space \cup {None}], acked' \subseteq Outcome,
               faults' \in 0 .. MaxFaults
        PROVE  TypeInv'
    <2>1. reply' = answer /\ wpc' = "idle" /\ wbuf' = None /\ wprior' = None
      BY <1>b DEF Settle
    <2>2. TypeOK'
      BY <1>a, <1>b, <2>1 DEF TypeOK, QueueInv
    <2> QED
      BY <1>a, <2>1, <2>2 DEF WriterInv
  <1>1. ASSUME NEW c \in Client, NEW o \in Request, Submit(c, o) PROVE TypeInv'
    <2>1. TypeOK'
      BY <1>1, <1>a DEF Submit, TypeOK, QueueInv
    <2> QED
      BY <1>1, <1>a, <2>1 DEF Submit, WriterInv
  <1>2. CASE WriterReadFile
    BY <1>2, <1>a DEF WriterReadFile, TypeOK, WriterInv
  <1>3. CASE WriterInstall
    BY <1>3, <1>a DEF WriterInstall, TypeOK, WriterInv
  <1>4. CASE WriterReadFails
    <2>1. faults' \in 0 .. MaxFaults
      BY <1>4, FaultsAssumption DEF WriterReadFails, IOFault, TypeOK
    <2> QED
      BY <1>4, <1>b, <2>1 DEF WriterReadFails, TypeOK
  <1>5. ASSUME NEW r \in Reader, ReaderStep(r) PROVE TypeInv'
    BY <1>5, <1>a DEF ReaderStep, ReaderReadFile, ReaderInstall, TypeOK, WriterInv
  <1>6. CASE ReaderLooksUp
    <2>1. cache' \in Seq(Entry) \cup {None}
      BY <1>6 DEF ReaderLooksUp, TxIndexById, TypeOK, Space
    <2> QED
      BY <1>6, <1>a, <2>1 DEF ReaderLooksUp, TypeOK, WriterInv
  <1>7. ASSUME NEW c \in Client, AppendRejected(c) PROVE TypeInv'
    BY <1>7, <1>b DEF AppendRejected, TypeOK
  <1>8. ASSUME NEW c \in Client, AppendReplayed(c) PROVE TypeInv'
    <2>1. acked' \subseteq Outcome
      BY <1>8 DEF AppendReplayed, Acknowledge, OutcomesAt, TypeOK, Space
    <2> QED
      BY <1>8, <1>b, <2>1 DEF AppendReplayed, TypeOK
  <1>9. ASSUME NEW c \in Client, AppendStaged(c) PROVE TypeInv'
    <2>1. queue # <<>> /\ c = Head(queue) /\ call[c].kind = "append" /\ mem' = AppendTx(mem, call[c])
          /\ wpc' = "persisting" /\ wbuf' = mem' /\ wprior' = mem
          /\ UNCHANGED <<loaded, cache, disk, poisoned, load, reply, acked, faults>>
      BY <1>9 DEF AppendStaged, AtBody
    <2>2. mem \in Space /\ mem' \in Space
      <3>1. call[c] \in AppendRequest
        BY <1>a, <2>1, HeadOfQueue, AppendHasBundle
      <3> QED
        BY <2>1, <3>1, AppendTxType DEF TypeOK
    <2> QED
      BY <1>a, <2>1, <2>2 DEF TypeOK, QueueInv, WriterInv
  <1>10. ASSUME NEW c \in Client, CompactIdle(c) \/ CompactDone(c) PROVE TypeInv'
    BY <1>10, <1>b DEF CompactIdle, CompactDone, TypeOK
  <1>16. ASSUME NEW c \in Client, CompactStaged(c) PROVE TypeInv'
    <2>1. /\ mem' = Compact(mem, call[c].cutoff) /\ cache' = None
          /\ wpc' = "persisting" /\ wbuf' = mem' /\ wprior' = mem
          /\ UNCHANGED <<loaded, disk, poisoned, queue, call, load, reply, acked, faults>>
      BY <1>16 DEF CompactStaged
    <2>2. mem \in Space /\ mem' \in Space
      BY <2>1, CompactType DEF TypeOK
    <2> QED
      BY <1>a, <2>1, <2>2 DEF TypeOK, QueueInv, WriterInv
  <1>11. CASE PersistRenames
    BY <1>11, <1>a DEF PersistRenames, TypeOK, WriterInv
  <1>12. CASE PersistFails \/ PersistRefused
    <2>1. wprior \in Space /\ GiveUp(Head(queue)) /\ poisoned' \in BOOLEAN
          /\ UNCHANGED <<loaded, cache, disk, load, acked>>
      BY <1>12 DEF PersistFails, PersistRefused, WriterInv, TypeOK
    <2>2. mem' \in Space /\ Settle(Head(queue), "failed")
      BY <2>1 DEF GiveUp, TypeOK
    <2>3. faults' \in 0 .. MaxFaults
      BY <1>12, FaultsAssumption DEF PersistFails, PersistRefused, IOFault, TypeOK
    <2> QED
      BY <1>b, <2>1, <2>2, <2>3 DEF TypeOK
  <1>13. ASSUME NEW c \in Client, AppendCommitted(c) PROVE TypeInv'
    <2>1. wbuf \in Space /\ Acknowledge(wbuf, call[c].slot)
          /\ Settle(c, "committed") /\ cache' = None
          /\ UNCHANGED <<loaded, mem, disk, poisoned, load, faults>>
      BY <1>13 DEF AppendCommitted, WriterInv
    <2>2. acked' \subseteq Outcome
      BY <2>1 DEF Acknowledge, OutcomesAt, TypeOK, Space
    <2> QED
      BY <1>b, <2>1, <2>2 DEF TypeOK
  <1>14. CASE Crash
    <2>1. loaded' \in BOOLEAN /\ mem' \in Space
      BY <1>14, OpenedAssumption, EmptySpaceType, Zenon DEF Crash, TypeOK
    <2>2. load' \in [Reader -> Space \cup {None}]
      BY <1>14 DEF Crash
    <2>3. TypeOK'
      BY <1>14, <1>a, <2>1, <2>2 DEF Crash, TypeOK, QueueInv
    <2> QED
      BY <1>14, <1>a, <2>3 DEF Crash, WriterInv
  <1>15. CASE UNCHANGED vars
    BY <1>15, <1>a DEF vars, TypeOK, WriterInv
  <1> QED
    BY <1>1, <1>2, <1>3, <1>4, <1>5, <1>6, <1>7, <1>8, <1>9, <1>10, <1>11, <1>12, <1>13, <1>14,
       <1>15, <1>16 DEF Next, WriterStep

(* Every variable keeps its type, in every reachable state: this.state and *)
(* the file are always spaces, also while a write is staged and after its  *)
(* rollback, and what the callers were told are outcomes of slots.         *)
THEOREM TypeCorrect == Spec => []TypeOK
  <1>1. Init => TypeInv
    BY TypeInit
  <1>2. TypeInv /\ [Next]_vars => TypeInv'
    BY TypeStep
  <1>3. TypeInv => TypeOK
    BY DEF TypeInv
  <1> QED
    BY <1>1, <1>2, <1>3, PTL DEF Spec

-----------------------------------------------------------------------------
(* The spaces the store holds *)

(* A set of spaces that the operations on a space do not leave. *)
Closed(G) ==
  /\ EmptySpace \in G
  /\ \A sp \in G : \A r \in Request :
       /\ r.kind = "append" /\ Commits(sp, r) => AppendTx(sp, r) \in G
       /\ r.kind = "compact" => Compact(sp, r.cutoff) \in G

(* The memory, the file, what a write has read or staged and what it falls *)
(* back to, what a read has loaded.                                        *)
HoldsOnly(G) ==
  /\ mem \in G /\ disk \in G
  /\ wpc # "idle" => wbuf \in G
  /\ wpc = "persisting" => wprior \in G
  /\ \A r \in Reader : load[r] # None => load[r] \in G

(* The store holds nothing else, whatever fails and crashes. *)
LEMMA HeldInit ==
  ASSUME NEW G, Closed(G), Init
  PROVE  HoldsOnly(G)
  BY DEF Init, Closed, HoldsOnly

(* A store holds only spaces of a set G that appends and compactions do not leave:
   in memory, in the file, staged, kept for a rollback, or read and not yet installed. *)
LEMMA HeldStep ==
  ASSUME NEW G, Closed(G), TypeInv, HoldsOnly(G), [Next]_vars
  PROVE  HoldsOnly(G)'
  \* Reads, calls and answers change no space.
  <1>1. CASE \/ ReaderLooksUp \/ UNCHANGED vars \/ \E c \in Client, o \in Request : Submit(c, o)
    BY <1>1 DEF ReaderLooksUp, vars, Submit, HoldsOnly
  <1>2. CASE \E c \in Client : \/ AppendRejected(c) \/ AppendReplayed(c) \/ CompactIdle(c)
                               \/ AppendCommitted(c) \/ CompactDone(c)
    BY <1>2 DEF AppendRejected, AppendReplayed, CompactIdle, AppendCommitted, CompactDone,
                Settle, HoldsOnly
  \* Loading copies the file.
  <1>3. CASE WriterReadFile \/ WriterInstall
    BY <1>3 DEF WriterReadFile, WriterInstall, HoldsOnly
  <1>4. CASE WriterReadFails
    BY <1>4 DEF WriterReadFails, Settle, HoldsOnly
  <1>5. ASSUME NEW r \in Reader, ReaderStep(r) PROVE HoldsOnly(G)'
    <2>1. load \in [Reader -> Space \cup {None}]
      BY DEF TypeInv, TypeOK
    <2>2. CASE ReaderReadFile(r)
      <3>1. \A x \in Reader : load'[x] = load[x] \/ load'[x] = disk
        BY <2>1, <2>2 DEF ReaderReadFile
      <3> QED
        BY <2>2, <3>1 DEF ReaderReadFile, HoldsOnly
    <2>3. CASE ReaderInstall(r)
      <3>1. \A x \in Reader : load'[x] = load[x] \/ load'[x] = None
        BY <2>1, <2>3 DEF ReaderInstall
      <3> QED
        BY <2>3, <3>1 DEF ReaderInstall, HoldsOnly
    <2> QED
      BY <1>5, <2>2, <2>3 DEF ReaderStep
  \* Staging.
  <1>6. ASSUME NEW c \in Client, AppendStaged(c) PROVE HoldsOnly(G)'
    <2>1. /\ queue # <<>> /\ c = Head(queue) /\ call[c].kind = "append" /\ Commits(mem, call[c])
          /\ mem' = AppendTx(mem, call[c]) /\ wpc' = "persisting" /\ wbuf' = mem' /\ wprior' = mem
          /\ UNCHANGED <<disk, load>>
      BY <1>6 DEF AppendStaged, AtBody
    <2>2. call[c] \in Request
      BY <2>1, HeadOfQueue DEF TypeInv
    <2>3. mem' \in G
      BY <2>1, <2>2 DEF Closed, HoldsOnly
    <2> QED
      BY <2>1, <2>3 DEF HoldsOnly
  <1>7. ASSUME NEW c \in Client, CompactStaged(c) PROVE HoldsOnly(G)'
    <2>1. /\ queue # <<>> /\ c = Head(queue) /\ call[c].kind = "compact"
          /\ mem' = Compact(mem, call[c].cutoff) /\ wpc' = "persisting" /\ wbuf' = mem' /\ wprior' = mem
          /\ UNCHANGED <<disk, load>>
      BY <1>7 DEF CompactStaged, AtBody
    <2>2. call[c] \in Request
      BY <2>1, HeadOfQueue DEF TypeInv
    <2>3. mem' \in G
      BY <2>1, <2>2 DEF Closed, HoldsOnly
    <2> QED
      BY <2>1, <2>3 DEF HoldsOnly
  \* The file takes what was staged, or the memory goes back.
  <1>8. CASE PersistRenames
    BY <1>8 DEF PersistRenames, HoldsOnly
  <1>9. CASE PersistFails \/ PersistRefused
    BY <1>9 DEF PersistFails, PersistRefused, GiveUp, Settle, HoldsOnly
  <1>10. CASE Crash
    BY <1>10 DEF Crash, Closed, HoldsOnly
  <1> QED
    BY <1>1, <1>2, <1>3, <1>4, <1>5, <1>6, <1>7, <1>8, <1>9, <1>10 DEF Next, WriterStep

-----------------------------------------------------------------------------
(* Durability of outcomes *)

(* A store that open() loaded never loads again; between writes its memory *)
(* has the outcomes of the file, and a staged write adds at most one, under *)
(* a slot that has none.  The memory itself may differ from the file: a    *)
(* compaction that failed to persist is not rolled back.                   *)
OneNewSlot(before, after) ==
  \/ after = before
  \/ \E o : after = before \cup {o} /\ \A p \in before : p.slot # o.slot

NoLoading ==
  /\ loaded
  /\ wpc \in {"idle", "persisting", "renamed"}
  /\ \A r \in Reader : load[r] = None

OutcomesStaged ==
  /\ wpc # "persisting" => mem.idem = disk.idem
  /\ wpc = "persisting" =>
       /\ mem.idem = wbuf.idem /\ wprior.idem = disk.idem
       /\ OneNewSlot(disk.idem, wbuf.idem)
       /\ call[Head(queue)].kind # "append" => wbuf.idem = disk.idem
  /\ wpc = "renamed" => wbuf.idem = disk.idem

DurableInv == QueueInv /\ NoLoading /\ OutcomesStaged /\ OutcomesDurable

(* The initial state. *)
LEMMA DurableInit == OpenedBeforeUse /\ Init => DurableInv
  <1> SUFFICES ASSUME OpenedBeforeUse, Init PROVE DurableInv
    OBVIOUS
  <1>1. NoLoading
    BY DEF Init, NoLoading
  <1>2. OutcomesStaged /\ OutcomesDurable
    BY DEF Init, OutcomesStaged, OutcomesDurable, EmptySpace
  <1> QED
    BY <1>1, <1>2, QueueInit DEF DurableInv

(* Every step. *)
LEMMA DurableStep == OpenedBeforeUse /\ DurableInv /\ [Next]_vars => DurableInv'
  <1> SUFFICES ASSUME OpenedBeforeUse, DurableInv, [Next]_vars PROVE DurableInv'
    OBVIOUS
  <1> USE DEF DurableInv
  <1>a. QueueInv'
    BY QueueStep
  <1>1. ASSUME NEW c \in Client, NEW o \in Request, Submit(c, o) PROVE DurableInv'
    <2>1. UNCHANGED <<loaded, mem, disk, wpc, wbuf, wprior, load, acked>>
      BY <1>1 DEF Submit
    <2>2. wpc = "persisting" => call'[Head(queue')] = call[Head(queue)]
      BY <1>1, SubmitKeepsQueue DEF QueueInv
    <2> QED
      BY <1>a, <2>1, <2>2 DEF NoLoading, OutcomesStaged, OutcomesDurable
  \* No step of loadState is taken.
  <1>2. CASE WriterReadFile \/ WriterInstall \/ WriterReadFails \/ \E r \in Reader : ReaderStep(r)
    BY <1>2 DEF WriterReadFile, WriterInstall, WriterReadFails, ReaderStep, ReaderReadFile,
                ReaderInstall, NoLoading
  \* Answers without a write, and writes that fail: the file stays, the memory goes back to it.
  <1>3. ASSUME NEW c \in Client, AppendRejected(c) \/ CompactIdle(c) PROVE DurableInv'
    BY <1>3, <1>a DEF AppendRejected, CompactIdle, AtBody, Settle, NoLoading, OutcomesStaged, OutcomesDurable
  <1>4. ASSUME NEW c \in Client, AppendReplayed(c) PROVE DurableInv'
    BY <1>4, <1>a DEF AppendReplayed, AtBody, Acknowledge, OutcomesAt, Settle,
                      NoLoading, OutcomesStaged, OutcomesDurable
  <1>5. CASE PersistFails \/ PersistRefused
    <2>1. /\ wpc = "persisting" /\ wpc' = "idle"
          /\ mem' = IF call[Head(queue)].kind = "append" THEN wprior ELSE mem
          /\ UNCHANGED <<loaded, disk, load, acked>>
      BY <1>5 DEF PersistFails, PersistRefused, GiveUp, Settle
    <2>2. mem'.idem = disk.idem
      BY <2>1 DEF OutcomesStaged
    <2> QED
      BY <1>a, <2>1, <2>2 DEF NoLoading, OutcomesStaged, OutcomesDurable
  \* A write is staged in memory.
  <1>6. ASSUME NEW c \in Client, AppendStaged(c) PROVE DurableInv'
    <2>1. /\ wpc = "idle" /\ c = Head(queue) /\ call[c].kind = "append" /\ ~IsKnown(mem, call[c])
          /\ mem' = AppendTx(mem, call[c]) /\ wpc' = "persisting" /\ wbuf' = mem' /\ wprior' = mem
          /\ UNCHANGED <<loaded, disk, queue, call, load, acked>>
      BY <1>6 DEF AppendStaged, AtBody, Commits
    <2>2. /\ wbuf'.idem = disk.idem \cup {OutcomeOf(mem, call[c])}
          /\ OutcomeOf(mem, call[c]).slot = call[c].slot
      BY <2>1 DEF AppendTx, OutcomeOf, OutcomesStaged
    <2>3. \A p \in disk.idem : p.slot # call[c].slot
      BY <2>1 DEF IsKnown, OutcomesAt, OutcomesStaged
    <2>4. OneNewSlot(disk'.idem, wbuf'.idem)
      BY <2>1, <2>2, <2>3 DEF OneNewSlot
    <2> QED
      BY <1>a, <2>1, <2>4 DEF NoLoading, OutcomesStaged, OutcomesDurable
  <1>7. ASSUME NEW c \in Client, CompactStaged(c) PROVE DurableInv'
    <2>1. /\ wpc = "idle" /\ wpc' = "persisting" /\ wbuf' = mem' /\ wprior' = mem
          /\ mem'.idem = mem.idem
          /\ UNCHANGED <<loaded, disk, queue, call, load, acked>>
      BY <1>7 DEF CompactStaged, AtBody, Compact
    <2> QED
      BY <1>a, <2>1 DEF NoLoading, OutcomesStaged, OutcomesDurable, OneNewSlot
  \* The file is replaced: it keeps what it had, and slots keep one outcome each.
  <1>8. CASE PersistRenames
    <2>1. /\ wpc = "persisting" /\ wpc' = "renamed" /\ disk' = wbuf
          /\ UNCHANGED <<loaded, mem, wbuf, wprior, queue, call, load, acked>>
      BY <1>8 DEF PersistRenames
    <2>2. OneNewSlot(disk.idem, disk'.idem)
      BY <2>1 DEF OutcomesStaged
    <2>3. OutcomesDurable'
      BY <2>1, <2>2 DEF OneNewSlot, OutcomesDurable
    <2> QED
      BY <1>a, <2>1, <2>3 DEF NoLoading, OutcomesStaged
  <1>9. ASSUME NEW c \in Client, AppendCommitted(c) PROVE DurableInv'
    BY <1>9, <1>a DEF AppendCommitted, Acknowledge, OutcomesAt, Settle, NoLoading, OutcomesStaged,
                      OutcomesDurable
  <1>10. ASSUME NEW c \in Client, CompactDone(c) PROVE DurableInv'
    BY <1>10, <1>a DEF CompactDone, Settle, NoLoading, OutcomesStaged, OutcomesDurable
  <1>11. CASE ReaderLooksUp \/ UNCHANGED vars
    BY <1>11, <1>a DEF ReaderLooksUp, vars, NoLoading, OutcomesStaged, OutcomesDurable
  <1>12. CASE Crash
    <2>1. loaded' /\ mem' = disk /\ wpc' = "idle" /\ load' = [r \in Reader |-> None]
          /\ UNCHANGED <<disk, acked>>
      BY <1>12 DEF Crash
    <2> QED
      BY <1>a, <2>1 DEF NoLoading, OutcomesStaged, OutcomesDurable
  <1> QED
    BY <1>1, <1>2, <1>3, <1>4, <1>5, <1>6, <1>7, <1>8, <1>9, <1>10, <1>11, <1>12 DEF Next, WriterStep

(* Idempotency survives: once a caller has been answered "committed", the  *)
(* file holds that outcome, and no other, under its slot, whatever appends, *)
(* compactions, I/O failures and crashes follow.                           *)
THEOREM OutcomesAreDurable == ASSUME OpenedBeforeUse PROVE Spec => []OutcomesDurable
  <1>1. Init => DurableInv
    BY DurableInit
  <1>2. DurableInv /\ [Next]_vars => DurableInv'
    BY DurableStep
  <1>3. DurableInv => OutcomesDurable
    BY DEF DurableInv
  <1> QED
    BY <1>1, <1>2, <1>3, PTL DEF Spec

-----------------------------------------------------------------------------
(* Whole transactions *)

(* A transaction is appended under one slot. *)
OneSlotPerTx ==
  \A p, q \in Request : p.kind = "append" /\ q.kind = "append" /\ p.tx = q.tx => p.slot = q.slot

(* No id is twice in the index, and the slot of each is taken. *)
IdsOnce(sp) ==
  \A i, j \in 1 .. Len(sp.txIndex) : sp.txIndex[i].tx = sp.txIndex[j].tx => i = j

SlotsTaken(sp) ==
  \A i \in 1 .. Len(sp.txIndex) :
    \E q \in Request : q.kind = "append" /\ q.tx = sp.txIndex[i].tx /\ IsKnown(sp, q)

GoodSpace(sp) == sp \in Space /\ WholeTxs(sp) /\ IdsOnce(sp) /\ SlotsTaken(sp)

(* The empty space has whole transactions. *)
LEMMA EmptySpaceGood == GoodSpace(EmptySpace)
  <1>1. /\ EmptySpace \in Space /\ DOMAIN EmptySpace.txIndex = {} /\ Len(EmptySpace.txIndex) = 0
        /\ \A s \in Streams : DOMAIN EmptySpace.ev[s] = {}
    BY EmptySpaceType DEF EmptySpace
  <1> QED
    BY <1>1 DEF GoodSpace, WholeTxs, IdsOnce, SlotsTaken

(* Events of others at the end of a stream change nothing. *)
LEMMA WholeBeforeOthers ==
  ASSUME NEW evs \in Seq(Event), NEW more \in Seq(Event), NEW tx, NEW start, NEW end,
         WholeIn(evs, tx, start, end), Len(evs) <= Len(more),
         \A q \in 1 .. Len(evs) : more[q] = evs[q],
         \A q \in Len(evs) + 1 .. Len(more) : more[q].tx # tx
  PROVE  WholeIn(more, tx, start, end)
  <1>1. /\ DOMAIN evs = 1 .. Len(evs) /\ DOMAIN more = 1 .. Len(more)
        /\ Len(evs) \in Nat /\ Len(more) \in Nat
    OBVIOUS
  <1>2. PlacesOf(more, tx) = PlacesOf(evs, tx)
    <2>1. \A q \in 1 .. Len(more) : q \in 1 .. Len(evs) \/ q \in Len(evs) + 1 .. Len(more)
      BY <1>1
    <2>2. \A q \in 1 .. Len(evs) : q \in 1 .. Len(more)
      BY <1>1
    <2> QED
      BY <1>1, <2>1, <2>2 DEF PlacesOf
  <1>3. \A q \in PlacesOf(evs, tx) : more[q] = evs[q]
    BY <1>1 DEF PlacesOf
  <1>4. {more[q].seq : q \in PlacesOf(evs, tx)} = {evs[q].seq : q \in PlacesOf(evs, tx)}
    BY <1>3
  <1> QED
    BY <1>2, <1>3, <1>4 DEF WholeIn

(* What is appended is whole. *)
LEMMA BatchIsWhole ==
  ASSUME NEW sp \in Space, NEW r \in AppendRequest, NEW s \in Streams,
         \A q \in 1 .. Len(sp.ev[s]) : sp.ev[s][q].tx # r.tx
  PROVE  WholeIn(AppendTx(sp, r).ev[s], r.tx, EntryOf(sp, r).start[s], EntryOf(sp, r).end[s])
  <1> DEFINE evs == AppendTx(sp, r).ev[s]
             h   == Len(sp.ev[s])
             n   == r.n[s]
  <1>1. h \in Nat /\ n \in Nat
    BY BatchProperties
  <1>2. evs \in Seq(Event) /\ Len(evs) = h + n
    BY AppendTxType, AppendTxEffect DEF Space
  <1>3. \A q \in 1 .. h : evs[q] = sp.ev[s][q]
    BY AppendTxEvents
  <1>4. \A q \in h + 1 .. h + n : evs[q] = [seq |-> q, tx |-> r.tx, n |-> q - h]
    BY AppendTxEvents
  <1>5. /\ EntryOf(sp, r).start[s] = IF n > 0 THEN h + 1 ELSE h
        /\ EntryOf(sp, r).end[s] = h + n
    BY DEF EntryOf
  <1>6. \A q \in 1 .. h : sp.ev[s][q].tx # r.tx
    OBVIOUS
  <1> HIDE DEF evs, h, n
  <1>8. ASSUME NEW q \in h + 1 .. h + n PROVE evs[q].seq = q /\ evs[q].n = q - h /\ evs[q].tx = r.tx
    <2>1. evs[q] = [seq |-> q, tx |-> r.tx, n |-> q - h]
      BY <1>4
    <2> QED
      BY <2>1
  <1>7. PlacesOf(evs, r.tx) = h + 1 .. h + n
    <2>1. DOMAIN evs = 1 .. h + n
      BY <1>2
    <2>2. \A q \in 1 .. h + n : q \in 1 .. h \/ q \in h + 1 .. h + n
      BY <1>1
    <2>3. \A q \in h + 1 .. h + n : q \in 1 .. h + n
      BY <1>1
    <2>4. \A q \in 1 .. h : evs[q].tx # r.tx
      BY <1>3, <1>6
    <2>5. \A q \in h + 1 .. h + n : evs[q].tx = r.tx
      BY <1>8
    <2> QED
      BY <2>1, <2>2, <2>3, <2>4, <2>5 DEF PlacesOf
  <1>9. {evs[q].seq : q \in h + 1 .. h + n} = h + 1 .. h + n
    BY <1>8
  <1>10. CASE n = 0
    <2>1. h + 1 .. h + n = {}
      BY <1>1, <1>10
    <2>2. EntryOf(sp, r).start[s] = EntryOf(sp, r).end[s]
      BY <1>1, <1>5, <1>10
    <2> QED
      BY <1>7, <2>1, <2>2 DEF WholeIn, evs
  <1>11. CASE n # 0
    <2>1. h + 1 \in h + 1 .. h + n /\ EntryOf(sp, r).start[s] = h + 1 /\ EntryOf(sp, r).end[s] = h + n
      BY <1>1, <1>5, <1>11
    <2>2. \A q \in h + 1 .. h + n : evs[q].n = evs[q].seq - (h + 1) + 1
      BY <1>1, <1>8
    <2>3. \A p, q \in h + 1 .. h + n : p < q => evs[p].n < evs[q].n
      BY <1>1, <1>8
    <2> QED
      BY <1>7, <1>9, <2>1, <2>2, <2>3 DEF WholeIn, evs
  <1> QED
    BY <1>10, <1>11

(* What is new is not in the index yet. *)
LEMMA IdIsNew ==
  ASSUME OneSlotPerTx, NEW sp, GoodSpace(sp),
         NEW r \in Request, r.kind = "append", ~IsKnown(sp, r)
  PROVE  r.tx \notin IdsOf(sp.txIndex)
  <1>0. DOMAIN sp.txIndex = 1 .. Len(sp.txIndex)
    BY DEF GoodSpace, Space
  <1> SUFFICES ASSUME NEW i \in 1 .. Len(sp.txIndex), sp.txIndex[i].tx = r.tx PROVE FALSE
    BY <1>0, Zenon DEF IdsOf
  <1>1. PICK q \in Request : q.kind = "append" /\ q.tx = r.tx /\ IsKnown(sp, q)
    BY DEF GoodSpace, SlotsTaken
  <1>2. q.slot = r.slot
    BY <1>1 DEF OneSlotPerTx
  <1> QED
    BY <1>1, <1>2 DEF IsKnown, OutcomesAt

(* An append of a new transaction adds it whole, with its own entry, and keeps the
   others whole. *)
LEMMA AppendKeepsGood ==
  ASSUME OneSlotPerTx, NEW sp, GoodSpace(sp),
         NEW r \in Request, r.kind = "append", ~IsKnown(sp, r)
  PROVE  GoodSpace(AppendTx(sp, r))
  <1> DEFINE new == AppendTx(sp, r)
             k   == Len(sp.txIndex)
  <1>1. sp \in Space /\ r \in AppendRequest /\ r.tx \notin IdsOf(sp.txIndex)
    BY IdIsNew, AppendHasBundle DEF GoodSpace
  <1>2. /\ new \in Space /\ k \in Nat /\ DOMAIN sp.txIndex = 1 .. k /\ DOMAIN new.txIndex = 1 .. k + 1
        /\ Len(new.txIndex) = k + 1
        /\ \A i \in 1 .. k : new.txIndex[i] = sp.txIndex[i]
        /\ new.txIndex[k + 1] = EntryOf(sp, r) /\ new.txIndex[k + 1].tx = r.tx
        /\ new.idem = sp.idem \cup {OutcomeOf(sp, r)} /\ OutcomeOf(sp, r).slot = r.slot
    <2>1. new \in Space /\ k \in Nat /\ DOMAIN sp.txIndex = 1 .. k
      BY <1>1, AppendTxType DEF Space
    <2>2. /\ Len(new.txIndex) = k + 1
          /\ \A i \in 1 .. k : new.txIndex[i] = sp.txIndex[i]
          /\ new.txIndex[k + 1] = EntryOf(sp, r)
          /\ new.idem = sp.idem \cup {OutcomeOf(sp, r)}
      BY <1>1, AppendTxEffect
    <2>3. EntryOf(sp, r).tx = r.tx /\ OutcomeOf(sp, r).slot = r.slot
      BY DEF EntryOf, OutcomeOf
    <2>4. DOMAIN new.txIndex = 1 .. k + 1
      <3> HIDE DEF new, k
      <3> QED
        BY <2>1, <2>2 DEF Space
    <2> HIDE DEF new, k
    <2> QED
      BY <2>1, <2>2, <2>3, <2>4
  <1>3. \A i \in 1 .. k : sp.txIndex[i].tx # r.tx
    BY <1>1, <1>2 DEF IdsOf
  <1>4. \A s \in Streams : /\ sp.ev[s] \in Seq(Event) /\ new.ev[s] \in Seq(Event)
                           /\ Len(new.ev[s]) = Len(sp.ev[s]) + r.n[s] /\ r.n[s] \in Nat
                           /\ \A q \in 1 .. Len(sp.ev[s]) : new.ev[s][q] = sp.ev[s][q]
    <2> SUFFICES ASSUME NEW s \in Streams
                 PROVE  /\ sp.ev[s] \in Seq(Event) /\ new.ev[s] \in Seq(Event)
                        /\ Len(new.ev[s]) = Len(sp.ev[s]) + r.n[s] /\ r.n[s] \in Nat
                        /\ \A q \in 1 .. Len(sp.ev[s]) : new.ev[s][q] = sp.ev[s][q]
      OBVIOUS
    <2>1. Len(new.ev[s]) = Len(sp.ev[s]) + r.n[s]
      BY <1>1, AppendTxEffect
    <2>2. \A q \in 1 .. Len(sp.ev[s]) : new.ev[s][q] = sp.ev[s][q]
      BY <1>1, AppendTxEvents
    <2>3. r.n[s] \in Nat
      BY <1>1, BatchProperties
    <2> HIDE DEF new
    <2>4. sp.ev[s] \in Seq(Event) /\ new.ev[s] \in Seq(Event)
      BY <1>1, <1>2 DEF Space
    <2> QED
      BY <2>1, <2>2, <2>3, <2>4
  <1>5. \A s \in Streams : \A q \in Len(sp.ev[s]) + 1 .. Len(sp.ev[s]) + r.n[s] : new.ev[s][q].tx = r.tx
    <2> SUFFICES ASSUME NEW s \in Streams, NEW q \in Len(sp.ev[s]) + 1 .. Len(sp.ev[s]) + r.n[s]
                 PROVE  new.ev[s][q].tx = r.tx
      OBVIOUS
    <2>1. new.ev[s][q] = [seq |-> q, tx |-> r.tx, n |-> q - Len(sp.ev[s])]
      BY <1>1, AppendTxEvents
    <2> HIDE DEF new
    <2> QED
      BY <2>1
  <1>6. \A s \in Streams : \A q \in 1 .. Len(sp.ev[s]) :
           sp.ev[s][q].tx \in IdsOf(sp.txIndex) /\ sp.ev[s][q].tx # r.tx
    BY <1>1, <1>4 DEF GoodSpace, WholeTxs
  <1>7. \A s \in Streams : WholeIn(new.ev[s], r.tx, EntryOf(sp, r).start[s], EntryOf(sp, r).end[s])
    BY <1>1, <1>6, BatchIsWhole
  <1> HIDE DEF new, k
  <1>8. ASSUME NEW i \in 1 .. k + 1, NEW s \in Streams
        PROVE  WholeIn(new.ev[s], new.txIndex[i].tx, new.txIndex[i].start[s], new.txIndex[i].end[s])
    <2>1. CASE i \in 1 .. k
      <3> DEFINE e == sp.txIndex[i]
      <3>1. WholeIn(sp.ev[s], e.tx, e.start[s], e.end[s])
        BY <1>2, <2>1 DEF GoodSpace, WholeTxs
      <3>2. e.tx # r.tx /\ new.txIndex[i] = e
        BY <1>2, <1>3, <2>1
      <3>3. /\ \A q \in Len(sp.ev[s]) + 1 .. Len(new.ev[s]) : new.ev[s][q].tx # e.tx
            /\ Len(sp.ev[s]) <= Len(new.ev[s])
        <4>1. Len(new.ev[s]) = Len(sp.ev[s]) + r.n[s] /\ Len(sp.ev[s]) \in Nat /\ r.n[s] \in Nat
          BY <1>4
        <4> QED
          BY <1>5, <3>2, <4>1
      <3> HIDE DEF e
      <3>4. WholeIn(new.ev[s], e.tx, e.start[s], e.end[s])
        BY <1>4, <3>1, <3>3, WholeBeforeOthers
      <3> QED
        BY <3>2, <3>4
    <2>2. CASE i = k + 1
      BY <1>2, <1>7, <2>2
    <2> QED
      BY <1>2, <2>1, <2>2
  <1>9. ASSUME NEW s \in Streams, NEW q \in DOMAIN new.ev[s] PROVE new.ev[s][q].tx \in IdsOf(new.txIndex)
    <2>1. \A i \in 1 .. k + 1 : new.txIndex[i].tx \in IdsOf(new.txIndex)
      BY <1>2 DEF IdsOf
    <2>2. q \in 1 .. Len(sp.ev[s]) \/ q \in Len(sp.ev[s]) + 1 .. Len(sp.ev[s]) + r.n[s]
      BY <1>4
    <2>3. CASE q \in 1 .. Len(sp.ev[s])
      <3>1. sp.ev[s][q].tx \in IdsOf(sp.txIndex) /\ new.ev[s][q] = sp.ev[s][q]
        BY <1>4, <1>6, <2>3
      <3>2. PICK i \in 1 .. k : sp.txIndex[i].tx = sp.ev[s][q].tx
        BY <1>2, <3>1 DEF IdsOf
      <3>3. i \in 1 .. k + 1
        BY <1>2
      <3> QED
        BY <1>2, <2>1, <3>1, <3>2, <3>3
    <2>4. CASE q \in Len(sp.ev[s]) + 1 .. Len(sp.ev[s]) + r.n[s]
      <3>1. new.ev[s][q].tx = r.tx /\ k + 1 \in 1 .. k + 1
        BY <1>2, <1>5, <2>4
      <3> QED
        BY <1>2, <2>1, <3>1
    <2> QED
      BY <2>2, <2>3, <2>4
  <1>10. WholeTxs(new)
    BY <1>2, <1>8, <1>9 DEF WholeTxs
  <1>11. IdsOnce(new)
    <2>1. \A i \in 1 .. k + 1 : i \in 1 .. k \/ i = k + 1
      BY <1>2
    <2>2. \A i, j \in 1 .. k : sp.txIndex[i].tx = sp.txIndex[j].tx => i = j
      BY DEF GoodSpace, IdsOnce, k
    <2> SUFFICES ASSUME NEW i \in 1 .. k + 1, NEW j \in 1 .. k + 1,
                        new.txIndex[i].tx = new.txIndex[j].tx
                 PROVE  i = j
      BY <1>2 DEF IdsOnce
    <2>3. CASE i \in 1 .. k /\ j \in 1 .. k
      BY <1>2, <2>2, <2>3
    <2>4. CASE i = k + 1 /\ j \in 1 .. k
      BY <1>2, <1>3, <2>4
    <2>5. CASE i \in 1 .. k /\ j = k + 1
      BY <1>2, <1>3, <2>5
    <2> QED
      BY <2>1, <2>3, <2>4, <2>5
  <1>12. SlotsTaken(new)
    <2> SUFFICES ASSUME NEW i \in 1 .. k + 1
                 PROVE  \E q \in Request : q.kind = "append" /\ q.tx = new.txIndex[i].tx /\ IsKnown(new, q)
      BY <1>2 DEF SlotsTaken
    <2>1. \A q : IsKnown(sp, q) => IsKnown(new, q)
      BY <1>2 DEF IsKnown, OutcomesAt
    <2>2. CASE i \in 1 .. k
      BY <1>2, <2>1, <2>2 DEF GoodSpace, SlotsTaken, k
    <2>3. CASE i = k + 1
      <3>1. IsKnown(new, r)
        BY <1>2 DEF IsKnown, OutcomesAt
      <3> QED
        BY <1>2, <2>3, <3>1
    <2> QED
      BY <1>2, <2>2, <2>3
  <1> QED
    BY <1>2, <1>10, <1>11, <1>12 DEF GoodSpace, new

(* Dropping others' events changes nothing either. *)
LEMMA WholeAfterFilter ==
  ASSUME NEW evs \in Seq(Event), NEW pruned, NEW tx, tx \notin pruned, NEW start, NEW end,
         WholeIn(evs, tx, start, end)
  PROVE  WholeIn(Kept(evs, pruned), tx, start, end)
  <1> DEFINE kept == Kept(evs, pruned)
             own  == PlacesOf(evs, tx)
             left == PlacesOf(kept, tx)
  <1>1. PICK p : FilterPlaces(p, kept, evs, KeptAt(evs, pruned), Len(evs))
    BY KeptProperties
  <1>2. kept \in Seq(Event) /\ DOMAIN kept = 1 .. Len(kept) /\ DOMAIN evs = 1 .. Len(evs) /\ Len(evs) \in Nat
    BY KeptProperties
  <1> HIDE DEF kept
  <1>3. \A k \in left : p[k] \in own /\ kept[k] = evs[p[k]]
    BY <1>1, <1>2 DEF FilterPlaces, PlacesOf
  <1>4. \A q \in own : \E k \in left : p[k] = q
    <2> SUFFICES ASSUME NEW q \in own PROVE \E k \in left : p[k] = q
      OBVIOUS
    <2>1. q \in 1 .. Len(evs) /\ q \in Nat /\ evs[q].tx = tx
      BY <1>2 DEF PlacesOf
    <2>2. q \in KeptAt(evs, pruned)
      BY <2>1 DEF KeptAt
    <2>3. PICK k \in 1 .. Len(kept) : p[k] = q
      BY <1>1, <2>1, <2>2 DEF FilterPlaces
    <2>4. kept[k] = evs[q]
      BY <1>1, <2>3 DEF FilterPlaces
    <2> QED
      BY <1>2, <2>1, <2>3, <2>4 DEF PlacesOf
  <1>5. left \subseteq 1 .. Len(kept)
    BY <1>2 DEF PlacesOf
  <1>6. \A k, l \in left : k < l => p[k] < p[l]
    BY <1>1, <1>5 DEF FilterPlaces
  <1>7. /\ own = {} => start = end
        /\ own # {} => {evs[q].seq : q \in own} = start .. end
        /\ \A q \in own : evs[q].n = evs[q].seq - start + 1
        /\ \A k, l \in own : k < l => evs[k].n < evs[l].n
    BY DEF WholeIn
  <1> HIDE DEF own, left
  <1>8. left = {} <=> own = {}
    BY <1>3, <1>4
  <1>9. {kept[k].seq : k \in left} = {evs[q].seq : q \in own}
    BY <1>3, <1>4
  <1>10. \A k \in left : kept[k].n = kept[k].seq - start + 1
    BY <1>3, <1>7
  <1>11. \A k, l \in left : k < l => kept[k].n < kept[l].n
    BY <1>3, <1>6, <1>7
  <1>12. /\ IF left = {} THEN start = end ELSE {kept[k].seq : k \in left} = start .. end
    BY <1>7, <1>8, <1>9
  <1> QED
    BY <1>10, <1>11, <1>12 DEF WholeIn, left, kept

(* A compaction keeps or drops whole transactions. *)
LEMMA CompactKeepsGood ==
  ASSUME NEW sp, GoodSpace(sp), NEW cutoff
  PROVE  GoodSpace(Compact(sp, cutoff))
  <1> DEFINE new    == Compact(sp, cutoff)
             pruned == PrunedTxIds(sp, cutoff)
             index  == Kept(sp.txIndex, pruned)
  <1>1. sp \in Space /\ sp.txIndex \in Seq(Entry) /\ DOMAIN sp.txIndex = 1 .. Len(sp.txIndex)
        /\ \A s \in Streams : sp.ev[s] \in Seq(Event) /\ DOMAIN sp.ev[s] = 1 .. Len(sp.ev[s])
    BY DEF GoodSpace, Space
  <1>2. /\ new \in Space /\ new.idem = sp.idem /\ new.txIndex = index
        /\ \A s \in Streams : new.ev[s] = Kept(sp.ev[s], pruned)
    BY <1>1, CompactType
  <1> HIDE DEF new, pruned
  <1>3. PICK p : FilterPlaces(p, index, sp.txIndex, KeptAt(sp.txIndex, pruned), Len(sp.txIndex))
    BY <1>1, KeptProperties
  <1>4. index \in Seq(Entry) /\ DOMAIN index = 1 .. Len(index)
    BY <1>1, KeptProperties
  <1> HIDE DEF index
  <1>5. \A i \in 1 .. Len(index) : /\ p[i] \in 1 .. Len(sp.txIndex) /\ index[i] = sp.txIndex[p[i]]
                                   /\ index[i].tx \notin pruned
    BY <1>3 DEF FilterPlaces, KeptAt
  <1>6. \A i \in 1 .. Len(sp.txIndex) : sp.txIndex[i].tx \notin pruned =>
           \E k \in 1 .. Len(index) : p[k] = i
    BY <1>3 DEF FilterPlaces, KeptAt
  <1>7. ASSUME NEW i \in 1 .. Len(index), NEW s \in Streams
        PROVE  WholeIn(new.ev[s], index[i].tx, index[i].start[s], index[i].end[s])
    <2> DEFINE e == index[i]
    <2>1. WholeIn(sp.ev[s], e.tx, e.start[s], e.end[s]) /\ e.tx \notin pruned
      BY <1>1, <1>5 DEF GoodSpace, WholeTxs
    <2> HIDE DEF e
    <2>2. WholeIn(Kept(sp.ev[s], pruned), e.tx, e.start[s], e.end[s])
      BY <1>1, <2>1, WholeAfterFilter
    <2> QED
      BY <1>2, <2>2 DEF e
  <1>8. ASSUME NEW s \in Streams, NEW q \in DOMAIN new.ev[s] PROVE new.ev[s][q].tx \in IdsOf(index)
    <2>1. PICK g : FilterPlaces(g, new.ev[s], sp.ev[s], KeptAt(sp.ev[s], pruned), Len(sp.ev[s]))
      BY <1>1, <1>2, KeptProperties
    <2>2. q \in 1 .. Len(new.ev[s])
      BY <1>2 DEF Space
    <2>3. g[q] \in 1 .. Len(sp.ev[s]) /\ new.ev[s][q] = sp.ev[s][g[q]] /\ new.ev[s][q].tx \notin pruned
      BY <2>1, <2>2 DEF FilterPlaces, KeptAt
    <2>4. sp.ev[s][g[q]].tx \in IdsOf(sp.txIndex)
      BY <1>1, <2>3 DEF GoodSpace, WholeTxs
    <2>5. PICK i \in 1 .. Len(sp.txIndex) : sp.txIndex[i].tx = new.ev[s][q].tx
      BY <1>1, <2>3, <2>4 DEF IdsOf
    <2>6. PICK k \in 1 .. Len(index) : p[k] = i
      BY <1>6, <2>3, <2>5
    <2>7. index[k].tx = new.ev[s][q].tx
      BY <1>5, <2>5, <2>6
    <2> QED
      BY <1>4, <2>7 DEF IdsOf
  <1>9. WholeTxs(new)
    BY <1>2, <1>4, <1>7, <1>8 DEF WholeTxs
  <1>10. IdsOnce(new)
    <2> SUFFICES ASSUME NEW i \in 1 .. Len(index), NEW j \in 1 .. Len(index), index[i].tx = index[j].tx
                 PROVE  i = j
      BY <1>2 DEF IdsOnce
    <2>0. IdsOnce(sp)
      BY DEF GoodSpace
    <2>1. p[i] = p[j]
      <3>1. p[i] \in 1 .. Len(sp.txIndex) /\ p[j] \in 1 .. Len(sp.txIndex)
        BY <1>5
      <3>2. sp.txIndex[p[i]].tx = sp.txIndex[p[j]].tx
        BY <1>5
      <3> QED
        BY <2>0, <3>1, <3>2 DEF IdsOnce
    <2>2. p[i] \in Nat /\ p[j] \in Nat /\ i \in Nat /\ j \in Nat /\ (i < j => p[i] < p[j]) /\ (j < i => p[j] < p[i])
      BY <1>3 DEF FilterPlaces
    <2> QED
      BY <2>1, <2>2
  <1>11. SlotsTaken(new)
    <2>1. \A q : IsKnown(sp, q) <=> IsKnown(new, q)
      BY <1>2 DEF IsKnown, OutcomesAt
    <2> QED
      BY <1>2, <1>5, <2>1 DEF GoodSpace, SlotsTaken
  <1> QED
    BY <1>2, <1>9, <1>10, <1>11 DEF GoodSpace, new

(* Every space the store holds is good. *)
GoodSpaces == {sp \in Space : GoodSpace(sp)}

GoodInv == TypeInv /\ HoldsOnly(GoodSpaces)

(* Appends and compactions keep the transactions of a space whole. *)
LEMMA GoodClosed == OneSlotPerTx => Closed(GoodSpaces)
  <1> SUFFICES ASSUME OneSlotPerTx PROVE Closed(GoodSpaces)
    OBVIOUS
  <1>1. EmptySpace \in GoodSpaces
    BY EmptySpaceGood, EmptySpaceType DEF GoodSpaces
  <1>2. ASSUME NEW sp \in GoodSpaces, NEW r \in Request, r.kind = "append", Commits(sp, r)
        PROVE  AppendTx(sp, r) \in GoodSpaces
    <2>1. GoodSpace(sp) /\ ~IsKnown(sp, r)
      BY <1>2 DEF GoodSpaces, Commits
    <2>2. GoodSpace(AppendTx(sp, r))
      BY <1>2, <2>1, AppendKeepsGood
    <2> QED
      BY <2>2 DEF GoodSpaces, GoodSpace
  <1>3. ASSUME NEW sp \in GoodSpaces, NEW cutoff PROVE Compact(sp, cutoff) \in GoodSpaces
    <2>1. GoodSpace(Compact(sp, cutoff))
      BY CompactKeepsGood DEF GoodSpaces
    <2> QED
      BY <2>1 DEF GoodSpaces, GoodSpace
  <1> QED
    BY <1>1, <1>2, <1>3 DEF Closed

(* The initial state. *)
LEMMA GoodInit == OneSlotPerTx /\ Init => GoodInv
  BY TypeInit, GoodClosed, HeldInit DEF GoodInv

(* Every step. *)
LEMMA GoodStep == OneSlotPerTx /\ GoodInv /\ [Next]_vars => GoodInv'
  <1> SUFFICES ASSUME OneSlotPerTx, GoodInv, [Next]_vars PROVE GoodInv'
    OBVIOUS
  <1>1. TypeInv'
    BY TypeStep DEF GoodInv
  <1>2. HoldsOnly(GoodSpaces)'
    BY GoodClosed, HeldStep DEF GoodInv
  <1> QED
    BY <1>1, <1>2 DEF GoodInv

(* Neither the memory nor the file ever holds part of a transaction, be the *)
(* store opened or loaded on first use: whatever appends, compactions, late *)
(* loads, I/O failures, rollbacks and crashes come, each indexed entry has  *)
(* all its events in their order, and there is no event without an entry.   *)
(* The callers must append a transaction under one slot: the store compares *)
(* slots, not ids.                                                          *)
THEOREM NoTransactionIsTorn == ASSUME OneSlotPerTx PROVE Spec => []NoTornTransaction
  <1>1. Init => GoodInv
    BY GoodInit
  <1>2. GoodInv /\ [Next]_vars => GoodInv'
    BY GoodStep
  <1>3. GoodInv => NoTornTransaction
    BY DEF GoodInv, HoldsOnly, GoodSpaces, GoodSpace, NoTornTransaction
  <1> QED
    BY <1>1, <1>2, <1>3, PTL DEF Spec

-----------------------------------------------------------------------------
(* The cached map of the index *)

(* A map has as many ids as the index it was built from has entries. *)
LEMMA IdsCounted ==
  ASSUME NEW index \in Seq(Entry),
         \A i, j \in 1 .. Len(index) : index[i].tx = index[j].tx => i = j
  PROVE  Cardinality(IdsOf(index)) = Len(index)
  <1> DEFINE id == [i \in 1 .. Len(index) |-> index[i].tx]
  <1>1. DOMAIN index = 1 .. Len(index) /\ Len(index) \in Nat
    OBVIOUS
  <1>2. \A i \in 1 .. Len(index) : id[i] = index[i].tx /\ index[i].tx \in IdsOf(index)
    BY <1>1 DEF IdsOf
  <1>3. id \in [1 .. Len(index) -> IdsOf(index)]
    BY <1>2
  <1>4. \A i, j \in 1 .. Len(index) : id[i] = id[j] => i = j
    BY <1>2
  <1>5. \A t \in IdsOf(index) : \E i \in 1 .. Len(index) : id[i] = t
    BY <1>1, <1>2 DEF IdsOf
  <1> HIDE DEF id
  <1> QED
    BY <1>1, <1>3, <1>4, <1>5, NumberedSet

(* A map that a refused append left behind has one id more than the index   *)
(* it was rolled back to, so that its size gives it away. The next append   *)
(* brings the index to that size again, and it is refused as well: once an  *)
(* append was rolled back, persistQueue is rejected and none ever succeeds. *)
OneMore(index, than) ==
  /\ index \in Seq(Entry)
  /\ \A i, j \in 1 .. Len(index) : index[i].tx = index[j].tx => i = j
  /\ Len(index) = Len(than) + 1

Current(index, than) == index = None \/ index = than

AppendAtHead == call[Head(queue)].kind = "append"

CacheStates ==
  /\ wpc = "idle" => Current(cache, mem.txIndex) \/ (poisoned /\ OneMore(cache, mem.txIndex))
  /\ wpc # "idle" /\ ~AppendAtHead => Current(cache, mem.txIndex)
  /\ wpc # "idle" /\ AppendAtHead =>
       /\ GoodSpace(wprior) /\ OneMore(mem.txIndex, wprior.txIndex)
       /\ \/ Current(cache, mem.txIndex)
          \/ Current(cache, wprior.txIndex)
          \/ poisoned /\ OneMore(cache, wprior.txIndex)
  /\ wpc = "renamed" => ~poisoned

CacheInv == GoodInv /\ DurableInv /\ CacheStates

(* The initial state. *)
LEMMA CacheInit == OneSlotPerTx /\ OpenedBeforeUse /\ Init => CacheInv
  BY GoodInit, DurableInit DEF Init, CacheInv, CacheStates, Current

(* Every step: the map stays that of the index in memory, or has a size that no
   index it could be asked about will have. *)
LEMMA CacheStep == OneSlotPerTx /\ OpenedBeforeUse /\ CacheInv /\ [Next]_vars => CacheInv'
  <1> SUFFICES ASSUME OneSlotPerTx, OpenedBeforeUse, CacheInv, [Next]_vars PROVE CacheInv'
    OBVIOUS
  <1>a. GoodInv /\ GoodInv' /\ DurableInv /\ DurableInv' /\ CacheStates
    BY GoodStep, DurableStep DEF CacheInv
  <1>b. SUFFICES CacheStates'
    BY <1>a DEF CacheInv
  <1>c. loaded /\ wpc \in {"idle", "persisting", "renamed"} /\ QueueInv /\ \A r \in Reader : load[r] = None
    BY <1>a DEF DurableInv, NoLoading
  <1>1. ASSUME NEW c \in Client, NEW o \in Request, Submit(c, o) PROVE CacheStates'
    <2>1. UNCHANGED <<mem, cache, wpc, wprior, poisoned>>
      BY <1>1 DEF Submit
    <2>2. wpc # "idle" => (AppendAtHead' <=> AppendAtHead)
      BY <1>1, <1>c, SubmitKeepsQueue DEF QueueInv, AppendAtHead
    <2> QED
      BY <1>a, <2>1, <2>2 DEF CacheStates
  \* The map is rebuilt from the index, or kept.
  <1>2. CASE ReaderLooksUp
    <2>1. cache' = cache \/ cache' = mem.txIndex
      BY <1>2 DEF ReaderLooksUp, TxIndexById
    <2>2. /\ UNCHANGED <<mem, wpc, wprior, poisoned>> /\ (AppendAtHead' <=> AppendAtHead)
      BY <1>2 DEF ReaderLooksUp, AppendAtHead
    <2> QED
      BY <1>a, <2>1, <2>2 DEF CacheStates, Current
  <1>3. CASE UNCHANGED vars
    BY <1>3, <1>a DEF vars, CacheStates, AppendAtHead
  \* An open store does not load.
  <1>4. CASE \/ WriterReadFile \/ WriterInstall \/ WriterReadFails
             \/ \E r \in Reader : ReaderStep(r)
    BY <1>4, <1>c DEF WriterReadFile, WriterInstall, WriterReadFails, ReaderStep, ReaderReadFile,
                      ReaderInstall
  <1>5. CASE \E c \in Client : AppendRejected(c) \/ AppendReplayed(c) \/ CompactIdle(c)
    <2>1. wpc = "idle" /\ wpc' = "idle" /\ UNCHANGED <<mem, cache, poisoned>>
      BY <1>5 DEF AppendRejected, AppendReplayed, CompactIdle, AtBody, Settle
    <2> QED
      BY <1>a, <2>1 DEF CacheStates
  <1>6. ASSUME NEW c \in Client, AppendStaged(c) PROVE CacheStates'
    <2>1. /\ wpc = "idle" /\ wpc' = "persisting" /\ wprior' = mem /\ mem' = AppendTx(mem, call[c])
          /\ queue # <<>> /\ c = Head(queue) /\ call[c].kind = "append"
          /\ UNCHANGED <<cache, poisoned, queue, call>>
      BY <1>6 DEF AppendStaged, AtBody
    <2>2. call[c] \in AppendRequest /\ mem \in Space
      BY <1>a, <1>c, <2>1, HeadOfQueue, AppendHasBundle DEF GoodInv, HoldsOnly, GoodSpaces
    <2>3. Len(mem'.txIndex) = Len(mem.txIndex) + 1
      BY <2>1, <2>2, AppendTxEffect
    <2>4. GoodSpace(mem') /\ GoodSpace(wprior')
      BY <1>a, <2>1 DEF GoodInv, HoldsOnly, GoodSpaces
    <2>5. OneMore(mem'.txIndex, wprior'.txIndex)
      BY <2>1, <2>3, <2>4 DEF GoodSpace, Space, IdsOnce, OneMore
    <2>6. AppendAtHead'
      BY <2>1 DEF AppendAtHead
    <2>7. Current(cache, mem.txIndex) \/ (poisoned /\ OneMore(cache, mem.txIndex))
      BY <1>a, <2>1 DEF CacheStates
    <2>8. Current(cache', wprior'.txIndex) \/ (poisoned' /\ OneMore(cache', wprior'.txIndex))
      BY <2>1, <2>7
    <2> QED
      BY <2>1, <2>4, <2>5, <2>6, <2>8 DEF CacheStates
  <1>7. ASSUME NEW c \in Client, CompactStaged(c) PROVE CacheStates'
    <2>1. /\ wpc' = "persisting" /\ cache' = None /\ ~AppendAtHead'
      BY <1>7 DEF CompactStaged, AtBody, AppendAtHead
    <2> QED
      BY <2>1 DEF CacheStates, Current
  <1>8. CASE PersistRenames
    <2>1. wpc = "persisting" /\ wpc' = "renamed" /\ ~poisoned /\ (AppendAtHead' <=> AppendAtHead)
          /\ UNCHANGED <<mem, cache, poisoned, wprior>>
      BY <1>8 DEF PersistRenames, AppendAtHead
    <2> QED
      BY <1>a, <2>1 DEF CacheStates
  \* Rolled back: a map of the staged index has one id more.
  <1>9. CASE PersistFails \/ PersistRefused
    <2>1. wpc = "persisting" /\ wpc' = "idle" /\ poisoned' /\ cache' = cache
          /\ mem' = IF AppendAtHead THEN wprior ELSE mem
      BY <1>9 DEF PersistFails, PersistRefused, GiveUp, Settle, AppendAtHead
    <2>2. CASE AppendAtHead
      <3>1. Current(cache, wprior.txIndex) \/ OneMore(cache, wprior.txIndex)
        BY <1>a, <2>1, <2>2 DEF CacheStates, Current
      <3> QED
        BY <2>1, <2>2, <3>1 DEF CacheStates
    <2>3. CASE ~AppendAtHead
      BY <1>a, <2>1, <2>3 DEF CacheStates
    <2> QED
      BY <2>2, <2>3
  <1>10. ASSUME NEW c \in Client, AppendCommitted(c) PROVE CacheStates'
    BY <1>10 DEF AppendCommitted, Settle, CacheStates, Current
  <1>11. ASSUME NEW c \in Client, CompactDone(c) PROVE CacheStates'
    <2>1. wpc = "renamed" /\ ~AppendAtHead /\ wpc' = "idle" /\ UNCHANGED <<mem, cache, poisoned>>
      BY <1>11 DEF CompactDone, Settle, AppendAtHead
    <2> QED
      BY <1>a, <2>1 DEF CacheStates
  <1>12. CASE Crash
    BY <1>12 DEF Crash, CacheStates, Current
  <1> QED
    BY <1>1, <1>2, <1>3, <1>4, <1>5, <1>6, <1>7, <1>8, <1>9, <1>10, <1>11, <1>12 DEF Next, WriterStep

(* Then a map that has the size of the index is the index, unless a write   *)
(* waits to be refused: a map of another index has another size.            *)
LEMMA MapIsCurrent == CacheInv /\ ~IsRefusing => TxIndexById = mem.txIndex
  <1> SUFFICES ASSUME CacheInv, ~IsRefusing, CacheHit PROVE cache = mem.txIndex
    BY DEF TxIndexById
  <1>1. GoodSpace(mem) /\ wpc \in {"idle", "persisting", "renamed"} /\ cache # None
        /\ Cardinality(IdsOf(cache)) = Len(mem.txIndex)
    BY DEF CacheInv, GoodInv, HoldsOnly, GoodSpaces, DurableInv, NoLoading, CacheHit
  <1>2. mem.txIndex \in Seq(Entry) /\ Len(mem.txIndex) \in Nat
    BY <1>1 DEF GoodSpace, Space
  <1>3. ASSUME OneMore(cache, mem.txIndex) PROVE FALSE
    <2>1. Cardinality(IdsOf(cache)) = Len(cache) /\ Len(cache) = Len(mem.txIndex) + 1
      BY <1>3, IdsCounted DEF OneMore
    <2> QED
      BY <1>1, <1>2, <2>1
  <1>4. ASSUME GoodSpace(wprior), OneMore(mem.txIndex, wprior.txIndex), cache = wprior.txIndex
        PROVE  FALSE
    <2>1. wprior.txIndex \in Seq(Entry) /\ Len(wprior.txIndex) \in Nat
          /\ \A i, j \in 1 .. Len(wprior.txIndex) : wprior.txIndex[i].tx = wprior.txIndex[j].tx => i = j
      BY <1>4 DEF GoodSpace, Space, IdsOnce
    <2>2. Cardinality(IdsOf(wprior.txIndex)) = Len(wprior.txIndex)
      BY <2>1, IdsCounted
    <2> QED
      BY <1>1, <1>4, <2>1, <2>2 DEF OneMore
  <1>5. CASE wpc = "idle"
    BY <1>1, <1>3, <1>5 DEF CacheInv, CacheStates, Current
  <1>6. CASE wpc # "idle" /\ AppendAtHead
    <2>1. ~poisoned
      BY <1>1, <1>6 DEF CacheInv, CacheStates, IsRefusing
    <2> QED
      BY <1>1, <1>4, <1>6, <2>1 DEF CacheInv, CacheStates, Current
  <1>7. CASE wpc # "idle" /\ ~AppendAtHead
    BY <1>1, <1>7 DEF CacheInv, CacheStates, Current
  <1> QED
    BY <1>5, <1>6, <1>7

(* readTx and readRange look an id up in a map of the index that is rebuilt  *)
(* only when its size differs, yet no lookup finds a rolled-back or pruned   *)
(* transaction or misses one that is in memory, staged or stored, in a store *)
(* that open() loaded, except while a write waits to be refused by a         *)
(* rejected persistQueue.  (A store loaded on first use has no such guarantee: *)
(* a late load may bring an index of the same size back under the map.)      *)
THEOREM CacheStaysSound == ASSUME OneSlotPerTx, OpenedBeforeUse PROVE Spec => []CacheSound
  <1>1. Init => CacheInv
    BY CacheInit
  <1>2. CacheInv /\ [Next]_vars => CacheInv'
    BY CacheStep
  <1>3. CacheInv => CacheSound
    BY MapIsCurrent DEF CacheSound
  <1> QED
    BY <1>1, <1>2, <1>3, PTL DEF Spec

-----------------------------------------------------------------------------
(* Base revisions *)

(* The payload hash covers the base revision: requests of one slot and hash *)
(* are the same append, sent again.                                         *)
RetriesResend ==
  \A p, q \in Request :
    p.kind = "append" /\ q.kind = "append" /\ p.slot = q.slot /\ p.hash = q.hash =>
      p.base = q.base /\ p.n = q.n

(* An outcome is that of a request, and follows its base if it has one. *)
FollowsBase(o) ==
  \E r \in Request :
    /\ r.kind = "append" /\ r.slot = o.slot /\ r.hash = o.hash
    /\ r.base # None => \A s \in Streams : o.receipt.cursorAfter[s] = r.base[s] + r.n[s]

BasedSpaces == {sp \in Space : \A o \in sp.idem : FollowsBase(o)}

(* An append checks its base against the very space it is added to, and a retry is
   answered without being added; a compaction keeps the outcomes. *)
LEMMA BasedClosed == Closed(BasedSpaces)
  <1>1. EmptySpace \in BasedSpaces
    BY EmptySpaceType DEF BasedSpaces, EmptySpace
  <1>2. ASSUME NEW sp \in BasedSpaces, NEW r \in Request, r.kind = "append", Commits(sp, r)
        PROVE  AppendTx(sp, r) \in BasedSpaces
    <2> DEFINE o == OutcomeOf(sp, r)
    <2>1. sp \in Space /\ r \in AppendRequest /\ AppendTx(sp, r) \in Space
          /\ AppendTx(sp, r).idem = sp.idem \cup {o}
      BY <1>2, AppendHasBundle, AppendTxType, AppendTxEffect DEF BasedSpaces
    <2>2. o.slot = r.slot /\ o.hash = r.hash
          /\ \A s \in Streams : o.receipt.cursorAfter[s] = Len(sp.ev[s]) + r.n[s]
      BY DEF OutcomeOf, ReceiptOf
    <2>3. r.base # None => \A s \in Streams : r.base[s] = Len(sp.ev[s])
      BY <1>2 DEF Commits, IsStale, CursorHead
    <2>4. FollowsBase(o)
      BY <1>2, <2>2, <2>3 DEF FollowsBase
    <2> HIDE DEF o
    <2> QED
      BY <2>1, <2>4 DEF BasedSpaces
  <1>3. ASSUME NEW sp \in BasedSpaces, NEW cutoff PROVE Compact(sp, cutoff) \in BasedSpaces
    BY CompactType DEF BasedSpaces
  <1> QED
    BY <1>1, <1>2, <1>3 DEF Closed

BasedInv == TypeInv /\ HoldsOnly(BasedSpaces)

(* A transaction that required a base revision is in the log directly after *)
(* that base, and no append that came in between, nor the late loads of a   *)
(* store that loads on first use, slips past the check.                     *)
THEOREM BasesAreChecked == ASSUME RetriesResend PROVE Spec => []RevisionChecked
  <1>1. Init => BasedInv
    BY TypeInit, BasedClosed, HeldInit DEF BasedInv
  <1>2. BasedInv /\ [Next]_vars => BasedInv'
    <2> SUFFICES ASSUME BasedInv, [Next]_vars PROVE BasedInv'
      OBVIOUS
    <2>1. TypeInv'
      BY TypeStep DEF BasedInv
    <2>2. HoldsOnly(BasedSpaces)'
      BY BasedClosed, HeldStep DEF BasedInv
    <2> QED
      BY <2>1, <2>2 DEF BasedInv
  <1>3. BasedInv => RevisionChecked
    <2> SUFFICES ASSUME BasedInv, NEW q \in Request, q.kind = "append", q.base # None,
                        NEW o \in OutcomesAt(disk, q.slot), o.hash = q.hash, NEW s \in Streams
                 PROVE  o.receipt.cursorAfter[s] = q.base[s] + q.n[s]
      BY DEF RevisionChecked
    <2>1. FollowsBase(o) /\ o.slot = q.slot
      BY DEF BasedInv, HoldsOnly, BasedSpaces, OutcomesAt
    <2> QED
      BY <2>1 DEF FollowsBase, RetriesResend
  <1> QED
    BY <1>1, <1>2, <1>3, PTL DEF Spec

-----------------------------------------------------------------------------
(* Memory, file and the write in flight *)

WriteInv ==
  /\ wpc # "persisting" => mem = disk
  /\ wpc = "persisting" =>
       /\ wprior = disk /\ mem = wbuf
       /\ Commits(disk, call[Head(queue)])
       /\ wbuf = AppendTx(disk, call[Head(queue)])
  /\ wpc = "renamed" => wbuf = disk

LogInv == TypeInv /\ DurableInv /\ WriteInv

(* The initial state. *)
LEMMA LogInvInit == AppendOnly /\ OpenedBeforeUse /\ Init => LogInv
  BY TypeInit, DurableInit DEF LogInv, WriteInv, Init

(* Every step. *)
LEMMA LogInvStep == AppendOnly /\ OpenedBeforeUse /\ LogInv /\ [Next]_vars => LogInv'
  <1> SUFFICES ASSUME AppendOnly, OpenedBeforeUse, LogInv, [Next]_vars PROVE WriteInv'
    BY TypeStep, DurableStep DEF LogInv
  <1>a. QueueInv /\ NoLoading
    BY DEF LogInv, TypeInv, DurableInv
  <1>b. WriteInv
    BY DEF LogInv
  <1>1. ASSUME NEW c \in Client, NEW o \in Request, Submit(c, o) PROVE WriteInv'
    <2>1. UNCHANGED <<mem, disk, wpc, wbuf, wprior>>
      BY <1>1 DEF Submit
    <2>2. wpc = "persisting" => call'[Head(queue')] = call[Head(queue)]
      BY <1>1, <1>a, SubmitKeepsQueue DEF QueueInv
    <2> QED
      BY <1>b, <2>1, <2>2 DEF WriteInv
  \* No step of loadState is taken.
  <1>2. CASE WriterReadFile \/ WriterInstall \/ WriterReadFails \/ \E r \in Reader : ReaderStep(r)
    BY <1>2, <1>a DEF WriterReadFile, WriterInstall, WriterReadFails, ReaderStep, ReaderReadFile,
                      ReaderInstall, NoLoading
  \* Answers that leave memory and file as they are.
  <1>3. ASSUME NEW c \in Client,
               AppendRejected(c) \/ AppendReplayed(c) \/ AppendCommitted(c) \/ CompactIdle(c) \/ CompactDone(c)
        PROVE  WriteInv'
    BY <1>3, <1>b DEF AppendRejected, AppendReplayed, AppendCommitted, CompactIdle, CompactDone,
                      AtBody, Settle, WriteInv
  <1>4. ASSUME NEW c \in Client, AppendStaged(c) PROVE WriteInv'
    <2>1. /\ wpc = "idle" /\ c = Head(queue) /\ Commits(mem, call[c])
          /\ mem' = AppendTx(mem, call[c]) /\ wpc' = "persisting" /\ wbuf' = mem' /\ wprior' = mem
          /\ UNCHANGED <<disk, queue, call>>
      BY <1>4 DEF AppendStaged, AtBody
    <2> QED
      BY <1>b, <2>1 DEF WriteInv
  <1>5. ASSUME NEW c \in Client, CompactStaged(c) PROVE FALSE
    <2>1. queue # <<>> /\ c = Head(queue) /\ call[c].kind = "compact"
      BY <1>5 DEF CompactStaged, AtBody
    <2> QED
      BY <1>a, <2>1, HeadOfQueue DEF AppendOnly, AppendRequest
  <1>6. CASE PersistRenames
    BY <1>6, <1>b DEF PersistRenames, WriteInv
  \* A write fails: the memory goes back to the file's contents.
  <1>7. CASE PersistFails \/ PersistRefused
    <2>1. /\ wpc = "persisting" /\ wpc' = "idle"
          /\ mem' = IF call[Head(queue)].kind = "append" THEN wprior ELSE mem
          /\ UNCHANGED disk
      BY <1>7 DEF PersistFails, PersistRefused, GiveUp, Settle
    <2>2. call[Head(queue)].kind = "append"
      BY <1>a, <2>1, HeadOfQueue DEF AppendOnly, AppendRequest, QueueInv
    <2> QED
      BY <1>b, <2>1, <2>2 DEF WriteInv
  <1>8. CASE ReaderLooksUp \/ UNCHANGED vars
    BY <1>8, <1>b DEF ReaderLooksUp, vars, WriteInv
  <1>9. CASE Crash
    BY <1>9 DEF Crash, WriteInv
  <1> QED
    BY <1>1, <1>2, <1>3, <1>4, <1>5, <1>6, <1>7, <1>8, <1>9 DEF Next, WriterStep

(* Apart from the write in flight, what readers see is what a restart      *)
(* finds: a write that fails, or is refused, leaves nothing in this.state. *)
THEOREM MemoryIsTheFile ==
  ASSUME AppendOnly, OpenedBeforeUse PROVE Spec => []MemoryAgreesWithDisk
  <1>1. AppendOnly /\ OpenedBeforeUse
    OBVIOUS
  <1>2. Init => LogInv
    BY <1>1, LogInvInit
  <1>3. LogInv /\ [Next]_vars => LogInv'
    BY <1>1, LogInvStep
  <1>4. LogInv => MemoryAgreesWithDisk
    BY DEF LogInv, WriteInv, MemoryAgreesWithDisk
  <1> QED
    BY <1>2, <1>3, <1>4, PTL DEF Spec

-----------------------------------------------------------------------------
(* Steps of the log *)

(* The file takes one more transaction, under a slot that has none. *)
FileAppends ==
  \E r \in AppendRequest :
    /\ Commits(disk, r) /\ disk' = AppendTx(disk, r)
    /\ acked' = acked

(* A caller is told the outcome of its slot. *)
CallerIsTold ==
  \E k \in Slot :
    /\ disk' = disk
    /\ OutcomesAt(disk, k) # {} /\ acked' = acked \cup OutcomesAt(disk, k)

(* All a step does to the file and to what callers know. *)
LEMMA StepsOfTheLog ==
  ASSUME AppendOnly, LogInv, [Next]_vars
  PROVE  FileAppends \/ CallerIsTold \/ UNCHANGED <<disk, acked>>
  <1>a. QueueInv /\ NoLoading /\ WriteInv
    BY DEF LogInv, TypeInv, DurableInv
  <1>b. queue # <<>> => call[Head(queue)] \in AppendRequest
    BY <1>a, HeadOfQueue DEF AppendOnly
  <1>1. CASE PersistRenames
    <2>1. /\ wpc = "persisting" /\ disk' = wbuf /\ acked' = acked /\ queue # <<>>
      BY <1>1, <1>a DEF PersistRenames, QueueInv
    <2>2. Commits(disk, call[Head(queue)]) /\ disk' = AppendTx(disk, call[Head(queue)])
      BY <1>a, <2>1 DEF WriteInv
    <2> QED
      BY <1>b, <2>1, <2>2 DEF FileAppends
  <1>2. ASSUME NEW c \in Client, AppendReplayed(c) PROVE CallerIsTold
    <2>1. /\ wpc = "idle" /\ queue # <<>> /\ c = Head(queue) /\ IsKnown(mem, call[c])
          /\ acked' = acked \cup OutcomesAt(mem, call[c].slot) /\ disk' = disk
      BY <1>2 DEF AppendReplayed, AtBody, IsReplay, Acknowledge
    <2>2. mem = disk /\ call[c].slot \in Slot
      BY <1>a, <1>b, <2>1 DEF WriteInv, AppendRequest
    <2> QED
      BY <2>1, <2>2 DEF CallerIsTold, IsKnown
  <1>3. ASSUME NEW c \in Client, AppendCommitted(c) PROVE CallerIsTold \/ UNCHANGED <<disk, acked>>
    <2>1. /\ wpc = "renamed" /\ c = Head(queue) /\ queue # <<>>
          /\ acked' = acked \cup OutcomesAt(wbuf, call[c].slot) /\ disk' = disk
      BY <1>3, <1>a DEF AppendCommitted, Acknowledge, QueueInv
    <2>2. wbuf = disk /\ call[c].slot \in Slot
      BY <1>a, <1>b, <2>1 DEF WriteInv, AppendRequest
    <2>3. CASE OutcomesAt(disk, call[c].slot) = {}
      BY <2>1, <2>2, <2>3
    <2>4. CASE OutcomesAt(disk, call[c].slot) # {}
      BY <2>1, <2>2, <2>4 DEF CallerIsTold
    <2> QED
      BY <2>3, <2>4
  \* The other steps.
  <1>4. CASE \/ WriterReadFile \/ WriterInstall \/ WriterReadFails \/ \E r \in Reader : ReaderStep(r)
             \/ \E c \in Client, o \in Request : Submit(c, o)
             \/ \E c \in Client : \/ AppendRejected(c) \/ AppendStaged(c)
                                  \/ CompactIdle(c) \/ CompactStaged(c) \/ CompactDone(c)
             \/ PersistFails \/ PersistRefused \/ ReaderLooksUp \/ Crash \/ UNCHANGED vars
    BY <1>4 DEF WriterReadFile, WriterInstall, WriterReadFails, ReaderStep, ReaderReadFile,
                ReaderInstall, Submit, AppendRejected, AppendStaged, CompactIdle, CompactStaged,
                CompactDone, PersistFails, PersistRefused, ReaderLooksUp, Crash, vars
  <1> QED
    BY <1>1, <1>2, <1>3, <1>4 DEF Next, WriterStep

-----------------------------------------------------------------------------
(* The refinement *)

(* The transactions of an index, in their order. *)
TxsOf(index) == [i \in DOMAIN index |-> index[i].tx]

(* The ids of an index are those its entries name. *)
LEMMA TxsOfIndex ==
  ASSUME NEW index \in Seq(Entry)
  PROVE  /\ TxsOf(index) \in Seq(TxId) /\ Len(TxsOf(index)) = Len(index)
         /\ \A i \in 1 .. Len(index) : TxsOf(index)[i] = index[i].tx
  <1>1. DOMAIN index = 1 .. Len(index) /\ Len(index) \in Nat
    OBVIOUS
  <1>2. \A i \in 1 .. Len(index) : index[i].tx \in TxId
    <2>1. \A i \in 1 .. Len(index) : index[i] \in Entry
      BY <1>1
    <2>2. \A e \in Entry : e.tx \in TxId
      BY DEF Entry
    <2> QED
      BY <2>1, <2>2
  <1>3. TxsOf(index) \in [1 .. Len(index) -> TxId]
    BY <1>1, <1>2 DEF TxsOf
  <1>4. \A i \in 1 .. Len(index) : TxsOf(index)[i] = index[i].tx
    BY <1>1 DEF TxsOf
  <1> QED
    BY <1>1, <1>3, <1>4, FunctionIsSeq

(* The log that an appended space stands for: one transaction longer.      *)
LEMMA AppendExtendsLog ==
  ASSUME NEW sp \in Space, NEW r \in AppendRequest
  PROVE  TxsOf(AppendTx(sp, r).txIndex) = Append(TxsOf(sp.txIndex), r.tx)
  <1> DEFINE before == TxsOf(sp.txIndex)
             after  == TxsOf(AppendTx(sp, r).txIndex)
             n      == Len(sp.txIndex)
  <1>1. sp.txIndex \in Seq(Entry) /\ n \in Nat /\ r.tx \in TxId
    BY DEF Space, AppendRequest
  <1>2. AppendTx(sp, r).txIndex \in Seq(Entry)
    BY AppendTxType DEF Space
  <1>3. /\ Len(AppendTx(sp, r).txIndex) = n + 1
        /\ \A i \in 1 .. n : AppendTx(sp, r).txIndex[i] = sp.txIndex[i]
        /\ AppendTx(sp, r).txIndex[n + 1] = EntryOf(sp, r)
    BY AppendTxEffect
  <1>4. EntryOf(sp, r).tx = r.tx
    BY DEF EntryOf
  <1>5. before \in Seq(TxId) /\ Len(before) = n /\ \A i \in 1 .. n : before[i] = sp.txIndex[i].tx
    BY <1>1, TxsOfIndex
  <1>6. after \in Seq(TxId) /\ Len(after) = n + 1
        /\ \A i \in 1 .. n + 1 : after[i] = AppendTx(sp, r).txIndex[i].tx
    BY <1>2, <1>3, TxsOfIndex
  <1> HIDE DEF before, after
  <1>7. /\ Append(before, r.tx) \in Seq(TxId) /\ Len(Append(before, r.tx)) = n + 1
        /\ \A i \in 1 .. n : Append(before, r.tx)[i] = before[i]
        /\ Append(before, r.tx)[n + 1] = r.tx
    BY <1>1, <1>5
  <1>8. \A i \in 1 .. n + 1 : i \in 1 .. n \/ i = n + 1
    BY <1>1
  <1>9. \A i \in 1 .. n + 1 : after[i] = Append(before, r.tx)[i]
    BY <1>3, <1>4, <1>5, <1>6, <1>7, <1>8
  <1>10. after = Append(before, r.tx)
    BY <1>6, <1>7, <1>9, SeqEqual
  <1> QED
    BY <1>10 DEF before, after

(* One more outcome is one more outcome of the log. *)
LEMMA TxOutcomesGrow ==
  ASSUME NEW A, NEW o
  PROVE  TxOutcomes(A \cup {o})
           = TxOutcomes(A) \cup
               {[slot |-> o.slot, tx |-> o.receipt.tx, digest |-> o.hash, place |-> o.receipt.txIndex]}
  BY DEF TxOutcomes

(* An append of the file is a commit of the log. *)
LEMMA AppendIsCommit ==
  ASSUME LogInv, FileAppends
  PROVE  L!LogNext
  <1>1. PICK r \in AppendRequest :
           Commits(disk, r) /\ disk' = AppendTx(disk, r) /\ acked' = acked
    BY DEF FileAppends
  <1>2. disk \in Space /\ r.slot \in Slot /\ r.tx \in TxId /\ r.hash \in Hash
    BY DEF LogInv, TypeInv, TypeOK, AppendRequest
  <1>3. \A o \in TxOutcomes(disk.idem) : o.slot # r.slot
    BY <1>1 DEF Commits, IsKnown, OutcomesAt, TxOutcomes
  <1>4. disk'.idem = disk.idem \cup {OutcomeOf(disk, r)}
    BY <1>1, <1>2, AppendTxEffect
  <1>5. Len(TxsOf(disk.txIndex)) = Len(disk.txIndex)
    BY <1>2, TxsOfIndex DEF Space
  <1>6. LET o == OutcomeOf(disk, r) IN
        o.slot = r.slot /\ o.receipt.tx = r.tx /\ o.hash = r.hash
        /\ o.receipt.txIndex = Len(disk.txIndex) + 1
    BY DEF OutcomeOf, ReceiptOf
  <1>7. TxOutcomes(disk'.idem)
          = TxOutcomes(disk.idem) \cup
              {[slot |-> r.slot, tx |-> r.tx, digest |-> r.hash, place |-> Len(disk.txIndex) + 1]}
    BY <1>4, <1>6, TxOutcomesGrow
  <1>8. TxsOf(disk'.txIndex) = Append(TxsOf(disk.txIndex), r.tx)
    BY <1>1, <1>2, AppendExtendsLog
  <1>9. L!Commit(r.slot)
    BY <1>1, <1>2, <1>3, <1>5, <1>7, <1>8 DEF L!Commit, TxsOf
  <1> QED
    BY <1>2, <1>9 DEF L!LogNext

(* Telling a caller the outcome of its slot is a confirmation of the log. *)
LEMMA TellIsConfirm ==
  ASSUME LogInv, CallerIsTold
  PROVE  L!LogNext
  <1>1. PICK k \in Slot :
           disk' = disk /\ OutcomesAt(disk, k) # {} /\ acked' = acked \cup OutcomesAt(disk, k)
    BY DEF CallerIsTold
  <1>2. PICK o \in disk.idem : o.slot = k
    BY <1>1 DEF OutcomesAt
  <1>3. OutcomesAt(disk, k) = {o}
    BY <1>2 DEF OutcomesAt, LogInv, DurableInv, OutcomesDurable
  <1> DEFINE p == [slot |-> o.slot, tx |-> o.receipt.tx, digest |-> o.hash, place |-> o.receipt.txIndex]
  <1>4. p \in TxOutcomes(disk.idem) /\ p.slot = k
    BY <1>2 DEF TxOutcomes
  <1>5. TxOutcomes(acked') = TxOutcomes(acked) \cup {p}
    BY <1>1, <1>3 DEF TxOutcomes
  <1>6. L!Confirm(k)
    BY <1>1, <1>4, <1>5 DEF L!Confirm
  <1> QED
    BY <1>6 DEF L!LogNext

(* The store implements the transaction log: through queueing, staging,    *)
(* failing and retried writes and crashes, the file grows by one committed *)
(* transaction at a time, a slot keeps the outcome of its commit, and a    *)
(* caller is told nothing that is not in the file.                         *)
THEOREM StoreImplementsTxLog ==
  ASSUME AppendOnly, OpenedBeforeUse PROVE Spec => ImplementsTxLog
  <1>1. AppendOnly /\ OpenedBeforeUse
    OBVIOUS
  <1>2. Init => LogInv
    BY <1>1, LogInvInit
  <1>3. LogInv /\ [Next]_vars => LogInv'
    BY <1>1, LogInvStep
  <1>4. Init => L!LogInit
    BY DEF Init, EmptySpace, L!LogInit, TxOutcomes
  <1>5. LogInv /\ [Next]_vars => [L!LogNext]_L!logVars
    <2> SUFFICES ASSUME LogInv, [Next]_vars PROVE L!LogNext \/ UNCHANGED L!logVars
      OBVIOUS
    <2>1. CASE UNCHANGED <<disk, acked>>
      BY <2>1 DEF L!logVars
    <2> QED
      BY <1>1, <2>1, StepsOfTheLog, AppendIsCommit, TellIsConfirm
  <1> QED
    BY <1>2, <1>3, <1>4, <1>5, PTL DEF Spec, ImplementsTxLog, L!LogSpec

-----------------------------------------------------------------------------
(* The order of the file, and its receipts *)

(* The entries lie within the streams; with it the order is inductive. *)
Ordered(sp) ==
  /\ TotallyOrdered(sp)
  /\ \A i \in DOMAIN sp.txIndex, s \in Streams : sp.txIndex[i].end[s] <= Len(sp.ev[s])

(* The empty space is ordered, and an append keeps a space ordered.        *)
LEMMA EmptyOrdered == Ordered(EmptySpace)
  BY DEF Ordered, TotallyOrdered, EndBefore, EmptySpace

(* One append keeps the numbering of the streams and the tiling of the index. *)
LEMMA AppendKeepsOrder ==
  ASSUME NEW sp \in Space, NEW r \in AppendRequest, Ordered(sp)
  PROVE  Ordered(AppendTx(sp, r))
  <1> DEFINE new == AppendTx(sp, r)
             k   == Len(sp.txIndex)
  <1>1. /\ k \in Nat /\ DOMAIN sp.txIndex = 1 .. k
        /\ \A s \in Streams : Len(sp.ev[s]) \in Nat /\ DOMAIN sp.ev[s] = 1 .. Len(sp.ev[s])
        /\ \A i \in 1 .. k, s \in Streams : sp.txIndex[i].end[s] \in Nat
    <2>1. \A i \in 1 .. k : sp.txIndex[i] \in Entry
      BY DEF Space
    <2>2. \A e \in Entry, s \in Streams : e.end[s] \in Nat
      BY DEF Entry, Cursor
    <2> QED
      BY <2>1, <2>2 DEF Space
  <1>2. \A s \in Streams : r.n[s] \in Nat
    BY DEF AppendRequest, Cursor
  <1>3. /\ Len(new.txIndex) = k + 1 /\ DOMAIN new.txIndex = 1 .. k + 1
        /\ \A i \in 1 .. k : new.txIndex[i] = sp.txIndex[i]
        /\ new.txIndex[k + 1].tx = r.tx /\ new.txIndex[k + 1].txIndex = k + 1
        /\ \A s \in Streams : new.txIndex[k + 1].end[s] = Len(sp.ev[s]) + r.n[s]
    <2>1. /\ Len(new.txIndex) = k + 1
          /\ \A i \in 1 .. k : new.txIndex[i] = sp.txIndex[i]
          /\ new.txIndex[k + 1] = EntryOf(sp, r)
      BY AppendTxEffect
    <2>2. new.txIndex \in Seq(Entry)
      BY AppendTxType DEF Space
    <2>3. DOMAIN new.txIndex = 1 .. k + 1
      BY <2>1, <2>2
    <2>4. /\ EntryOf(sp, r).tx = r.tx /\ EntryOf(sp, r).txIndex = k + 1
          /\ \A s \in Streams : EntryOf(sp, r).end[s] = Len(sp.ev[s]) + r.n[s]
      BY DEF EntryOf
    <2> QED
      BY <2>1, <2>3, <2>4
  <1>4. \A s \in Streams : /\ Len(new.ev[s]) = Len(sp.ev[s]) + r.n[s]
                           /\ DOMAIN new.ev[s] = 1 .. Len(sp.ev[s]) + r.n[s]
    BY AppendTxType, AppendTxEffect DEF Space
  <1>5. \A s \in Streams : \A q \in 1 .. Len(sp.ev[s]) : new.ev[s][q] = sp.ev[s][q]
    BY AppendTxEvents
  <1>6. \A s \in Streams : \A q \in Len(sp.ev[s]) + 1 .. Len(sp.ev[s]) + r.n[s] :
           /\ new.ev[s][q].seq = q /\ new.ev[s][q].tx = r.tx
           /\ new.ev[s][q].n = q - Len(sp.ev[s])
    <2> SUFFICES ASSUME NEW s \in Streams, NEW q \in Len(sp.ev[s]) + 1 .. Len(sp.ev[s]) + r.n[s]
                 PROVE  /\ new.ev[s][q].seq = q /\ new.ev[s][q].tx = r.tx
                        /\ new.ev[s][q].n = q - Len(sp.ev[s])
      OBVIOUS
    <2>1. new.ev[s][q] = [seq |-> q, tx |-> r.tx, n |-> q - Len(sp.ev[s])]
      BY AppendTxEvents
    <2> HIDE DEF new
    <2> QED
      BY <2>1
  <1> HIDE DEF new, k
  \* What ends before an entry: as it was, and the old head before the new entry.
  <1>7. /\ \A i \in 1 .. k + 1, s \in Streams : EndBefore(new, i, s) = EndBefore(sp, i, s)
        /\ \A s \in Streams : EndBefore(sp, k + 1, s) = Len(sp.ev[s])
        /\ \A s \in Streams : EndBefore(new, k + 2, s) = Len(sp.ev[s]) + r.n[s]
    <2>1. \A i \in 1 .. k + 1, s \in Streams : EndBefore(new, i, s) = EndBefore(sp, i, s)
      <3> SUFFICES ASSUME NEW i \in 1 .. k + 1, NEW s \in Streams
                   PROVE  EndBefore(new, i, s) = EndBefore(sp, i, s)
        OBVIOUS
      <3>1. i = 1 \/ i - 1 \in 1 .. k
        BY <1>1
      <3>2. i # 1 => new.txIndex[i - 1] = sp.txIndex[i - 1]
        BY <1>3, <3>1
      <3> QED
        BY <3>2 DEF EndBefore
    <2>2. \A s \in Streams : EndBefore(sp, k + 1, s) = Len(sp.ev[s])
      BY DEF Ordered, TotallyOrdered, k
    <2>3. \A s \in Streams : EndBefore(new, k + 2, s) = new.txIndex[k + 1].end[s]
      BY <1>1 DEF EndBefore
    <2> QED
      BY <1>3, <2>1, <2>2, <2>3
  <1>8. \A s \in Streams : \A q \in DOMAIN new.ev[s] : new.ev[s][q].seq = q
    <2> SUFFICES ASSUME NEW s \in Streams, NEW q \in 1 .. Len(sp.ev[s]) + r.n[s]
                 PROVE  new.ev[s][q].seq = q
      BY <1>4
    <2>1. CASE q <= Len(sp.ev[s])
      <3>1. q \in 1 .. Len(sp.ev[s])
        BY <1>1, <1>2, <2>1
      <3>2. sp.ev[s][q].seq = q
        BY <1>1, <3>1 DEF Ordered, TotallyOrdered
      <3> QED
        BY <1>5, <3>1, <3>2
    <2>2. CASE ~(q <= Len(sp.ev[s]))
      <3>1. q \in Len(sp.ev[s]) + 1 .. Len(sp.ev[s]) + r.n[s]
        BY <1>1, <1>2, <2>2
      <3> QED
        BY <1>6, <3>1
    <2> QED
      BY <2>1, <2>2
  <1>9. \A i \in DOMAIN new.txIndex : new.txIndex[i].txIndex = i
    BY <1>1, <1>3 DEF Ordered, TotallyOrdered
  <1>10. \A i \in DOMAIN new.txIndex, s \in Streams :
            /\ EndBefore(new, i, s) <= new.txIndex[i].end[s]
            /\ \A q \in EndBefore(new, i, s) + 1 .. new.txIndex[i].end[s] :
                 new.ev[s][q].tx = new.txIndex[i].tx /\ new.ev[s][q].n = q - EndBefore(new, i, s)
    <2> SUFFICES ASSUME NEW i \in 1 .. k + 1, NEW s \in Streams
                 PROVE  /\ EndBefore(new, i, s) <= new.txIndex[i].end[s]
                        /\ \A q \in EndBefore(new, i, s) + 1 .. new.txIndex[i].end[s] :
                             /\ new.ev[s][q].tx = new.txIndex[i].tx
                             /\ new.ev[s][q].n = q - EndBefore(new, i, s)
      BY <1>3
    <2>1. CASE i \in 1 .. k
      <3>1. /\ EndBefore(sp, i, s) <= sp.txIndex[i].end[s]
            /\ \A q \in EndBefore(sp, i, s) + 1 .. sp.txIndex[i].end[s] :
                 sp.ev[s][q].tx = sp.txIndex[i].tx /\ sp.ev[s][q].n = q - EndBefore(sp, i, s)
            /\ sp.txIndex[i].end[s] <= Len(sp.ev[s])
        BY <1>1, <2>1 DEF Ordered, TotallyOrdered
      <3>2. EndBefore(sp, i, s) \in Nat
        <4>1. i = 1 \/ i - 1 \in 1 .. k
          BY <1>1, <2>1
        <4> QED
          BY <1>1, <4>1 DEF EndBefore
      <3>3. \A q \in EndBefore(sp, i, s) + 1 .. sp.txIndex[i].end[s] : q \in 1 .. Len(sp.ev[s])
        BY <1>1, <2>1, <3>1, <3>2
      <3> QED
        BY <1>3, <1>5, <1>7, <2>1, <3>1, <3>3
    <2>2. CASE i = k + 1
      <3>1. EndBefore(new, i, s) = Len(sp.ev[s]) /\ new.txIndex[i].end[s] = Len(sp.ev[s]) + r.n[s]
        BY <1>3, <1>7, <2>2
      <3> QED
        BY <1>1, <1>2, <1>3, <1>6, <2>2, <3>1
    <2> QED
      BY <1>1, <2>1, <2>2
  <1>11. \A s \in Streams : Len(new.ev[s]) = EndBefore(new, Len(new.txIndex) + 1, s)
    BY <1>1, <1>3, <1>4, <1>7
  <1>12. \A i \in DOMAIN new.txIndex, s \in Streams : new.txIndex[i].end[s] <= Len(new.ev[s])
    <2> SUFFICES ASSUME NEW i \in 1 .. k + 1, NEW s \in Streams
                 PROVE  new.txIndex[i].end[s] <= Len(new.ev[s])
      BY <1>3
    <2>1. CASE i \in 1 .. k
      <3>1. sp.txIndex[i].end[s] <= Len(sp.ev[s])
        BY <1>1, <2>1 DEF Ordered
      <3>2. /\ new.txIndex[i].end[s] = sp.txIndex[i].end[s] /\ Len(new.ev[s]) = Len(sp.ev[s]) + r.n[s]
            /\ Len(sp.ev[s]) \in Nat /\ r.n[s] \in Nat /\ sp.txIndex[i].end[s] \in Nat
        BY <1>1, <1>2, <1>3, <1>4, <2>1
      <3> QED
        BY <3>1, <3>2
    <2>2. CASE i = k + 1
      BY <1>1, <1>2, <1>3, <1>4, <2>2
    <2> QED
      BY <1>1, <2>1, <2>2
  <1> QED
    BY <1>8, <1>9, <1>10, <1>11, <1>12 DEF Ordered, TotallyOrdered, new

(* Receipts stay true when the log grows, and the new one is. *)
ReceiptsIn(sp) ==
  \A o \in sp.idem :
    LET r == o.receipt IN
    /\ r.txIndex \in DOMAIN sp.txIndex
    /\ sp.txIndex[r.txIndex].tx = r.tx
    /\ sp.txIndex[r.txIndex].end = r.cursorAfter

(* One append keeps every stored receipt true and adds a true one. *)
LEMMA AppendKeepsReceipts ==
  ASSUME NEW sp \in Space, NEW r \in AppendRequest, ReceiptsIn(sp)
  PROVE  ReceiptsIn(AppendTx(sp, r))
  <1> DEFINE k   == Len(sp.txIndex)
             new == AppendTx(sp, r)
  <1>2. new \in Space
    BY AppendTxType
  <1>3. k \in Nat /\ DOMAIN sp.txIndex = 1 .. k
    BY DEF Space
  <1>4. /\ DOMAIN new.txIndex = 1 .. k + 1
        /\ \A i \in 1 .. k : new.txIndex[i] = sp.txIndex[i]
        /\ new.txIndex[k + 1] = EntryOf(sp, r)
        /\ new.idem = sp.idem \cup {OutcomeOf(sp, r)}
    <2>1. /\ Len(new.txIndex) = k + 1
          /\ \A i \in 1 .. k : new.txIndex[i] = sp.txIndex[i]
          /\ new.txIndex[k + 1] = EntryOf(sp, r)
          /\ new.idem = sp.idem \cup {OutcomeOf(sp, r)}
      BY AppendTxEffect
    <2>2. new.txIndex \in Seq(Entry)
      BY <1>2 DEF Space
    <2> QED
      BY <1>3, <2>1, <2>2
  <1>5. LET o == OutcomeOf(sp, r) IN
        /\ o.receipt.txIndex = k + 1
        /\ EntryOf(sp, r).tx = o.receipt.tx
        /\ EntryOf(sp, r).end = o.receipt.cursorAfter
    BY DEF OutcomeOf, ReceiptOf, EntryOf
  <1> HIDE DEF k, new
  <1>6. \A o \in sp.idem :
           /\ o.receipt.txIndex \in 1 .. k
           /\ sp.txIndex[o.receipt.txIndex].tx = o.receipt.tx
           /\ sp.txIndex[o.receipt.txIndex].end = o.receipt.cursorAfter
    BY <1>3 DEF ReceiptsIn
  <1>7. \A o \in new.idem :
           /\ o.receipt.txIndex \in 1 .. k + 1
           /\ new.txIndex[o.receipt.txIndex].tx = o.receipt.tx
           /\ new.txIndex[o.receipt.txIndex].end = o.receipt.cursorAfter
    BY <1>3, <1>4, <1>5, <1>6
  <1> QED
    BY <1>4, <1>7 DEF ReceiptsIn, new

(* Appends lead from logs to logs; this needs no store that open() loaded. *)
LogSpaces == {sp \in Space : Ordered(sp) /\ ReceiptsIn(sp)}

(* Appends lead from an ordered space with true receipts to another: these are the
   spaces a store without compaction goes through. *)
LEMMA LogClosed == AppendOnly => Closed(LogSpaces)
  <1> SUFFICES ASSUME AppendOnly PROVE Closed(LogSpaces)
    OBVIOUS
  <1>1. EmptySpace \in LogSpaces
    BY EmptySpaceType, EmptyOrdered DEF LogSpaces, ReceiptsIn, EmptySpace
  <1>2. ASSUME NEW sp \in LogSpaces, NEW r \in Request PROVE AppendTx(sp, r) \in LogSpaces
    <2>1. sp \in Space /\ Ordered(sp) /\ ReceiptsIn(sp) /\ r \in AppendRequest
      BY DEF LogSpaces, AppendOnly
    <2>2. AppendTx(sp, r) \in Space /\ Ordered(AppendTx(sp, r)) /\ ReceiptsIn(AppendTx(sp, r))
      BY <2>1, AppendTxType, AppendKeepsOrder, AppendKeepsReceipts
    <2> QED
      BY <2>2 DEF LogSpaces
  <1>3. \A r \in Request : r.kind # "compact"
    BY DEF AppendOnly, AppendRequest
  <1> QED
    BY <1>1, <1>2, <1>3 DEF Closed

FileInv == TypeInv /\ HoldsOnly(LogSpaces)

(* The invariant of memory and file, at the start and after every step. *)
LEMMA FileInvInit == AppendOnly /\ Init => FileInv
  BY TypeInit, LogClosed, HeldInit DEF FileInv

(* Every step, of a store opened or not, keeps the spaces it holds in LogSpaces. *)
LEMMA FileInvStep == AppendOnly /\ FileInv /\ [Next]_vars => FileInv'
  <1> SUFFICES ASSUME AppendOnly, FileInv, [Next]_vars PROVE FileInv'
    OBVIOUS
  <1>1. TypeInv'
    BY TypeStep DEF FileInv
  <1>2. HoldsOnly(LogSpaces)'
    BY LogClosed, HeldStep DEF FileInv
  <1> QED
    BY <1>1, <1>2 DEF FileInv

(* Each stream of the file is numbered from one without a gap, and the     *)
(* index cuts it into the transactions in their order, whatever failed and *)
(* was retried in between.                                                 *)
THEOREM FileIsTotallyOrdered == ASSUME AppendOnly PROVE Spec => []StreamsTotallyOrdered
  <1>1. Init => FileInv
    BY FileInvInit
  <1>2. FileInv /\ [Next]_vars => FileInv'
    BY FileInvStep
  <1>3. FileInv => StreamsTotallyOrdered
    BY DEF FileInv, HoldsOnly, LogSpaces, Ordered, StreamsTotallyOrdered
  <1> QED
    BY <1>1, <1>2, <1>3, PTL DEF Spec

(* A receipt names the place of its transaction in the file and the cursor *)
(* just after it, for as long as the file exists.                          *)
THEOREM ReceiptsAreTrue == ASSUME AppendOnly PROVE Spec => []ReceiptsMatchLog
  <1>1. Init => FileInv
    BY FileInvInit
  <1>2. FileInv /\ [Next]_vars => FileInv'
    BY FileInvStep
  <1>3. FileInv => ReceiptsMatchLog
    BY DEF FileInv, HoldsOnly, LogSpaces, ReceiptsIn, ReceiptsMatchLog
  <1> QED
    BY <1>1, <1>2, <1>3, PTL DEF Spec

-----------------------------------------------------------------------------
(* Range reads *)

(* In an ordered space every position of a stream belongs to an entry. *)
LEMMA EntryAt ==
  ASSUME NEW sp \in Space, Ordered(sp), NEW s \in Streams, NEW q \in 1 .. Len(sp.ev[s])
  PROVE  \E i \in 1 .. Len(sp.txIndex) :
           sp.ev[s][q].tx = sp.txIndex[i].tx /\ q <= sp.txIndex[i].end[s]
  <1> DEFINE k    == Len(sp.txIndex)
             past == {i \in 1 .. k : q <= sp.txIndex[i].end[s]}
  <1>1. /\ k \in Nat /\ DOMAIN sp.txIndex = 1 .. k /\ Len(sp.ev[s]) \in Nat
        /\ \A i \in 1 .. k : sp.txIndex[i].end[s] \in Nat
    <2>1. \A i \in 1 .. k : sp.txIndex[i] \in Entry
      BY DEF Space
    <2>2. \A e \in Entry : e.end[s] \in Nat
      BY DEF Entry, Cursor
    <2> QED
      BY <2>1, <2>2 DEF Space
  <1>2. Len(sp.ev[s]) = EndBefore(sp, k + 1, s)
    BY DEF Ordered, TotallyOrdered
  <1>3. k \in past
    <2>1. k # 0 /\ Len(sp.ev[s]) = sp.txIndex[k].end[s]
      BY <1>1, <1>2 DEF EndBefore
    <2> QED
      BY <1>1, <2>1
  <1>4. PICK i \in past : \A j \in past : i <= j
    <2>1. past \in SUBSET Nat /\ past # {}
      BY <1>1, <1>3
    <2> QED
      BY <2>1, LeastOf
  <1>5. EndBefore(sp, i, s) \in Nat /\ EndBefore(sp, i, s) < q
    <2>1. CASE i = 1
      BY <2>1 DEF EndBefore
    <2>2. CASE i # 1
      <3>1. i - 1 \in 1 .. k /\ ~(i <= i - 1) /\ EndBefore(sp, i, s) = sp.txIndex[i - 1].end[s]
        BY <1>1, <2>2 DEF EndBefore
      <3>2. ~(q <= sp.txIndex[i - 1].end[s])
        BY <1>4, <3>1
      <3> QED
        BY <1>1, <3>1, <3>2
    <2> QED
      BY <2>1, <2>2
  <1>6. q \in EndBefore(sp, i, s) + 1 .. sp.txIndex[i].end[s]
    BY <1>1, <1>5
  <1>7. sp.ev[s][q].tx = sp.txIndex[i].tx
    BY <1>1, <1>6 DEF Ordered, TotallyOrdered
  <1> QED
    BY <1>7

(* Later entries end later. *)
LEMMA EndsIncrease ==
  ASSUME NEW sp \in Space, Ordered(sp), NEW s \in Streams, NEW i \in 1 .. Len(sp.txIndex)
  PROVE  \A j \in i .. Len(sp.txIndex) : sp.txIndex[i].end[s] <= sp.txIndex[j].end[s]
  <1> DEFINE k == Len(sp.txIndex)
             S == {d \in Nat : i + d <= k => sp.txIndex[i].end[s] <= sp.txIndex[i + d].end[s]}
  <1>1. k \in Nat /\ DOMAIN sp.txIndex = 1 .. k /\ \A j \in 1 .. k : sp.txIndex[j].end[s] \in Nat
    <2>1. \A j \in 1 .. k : sp.txIndex[j] \in Entry
      BY DEF Space
    <2>2. \A e \in Entry : e.end[s] \in Nat
      BY DEF Entry, Cursor
    <2> QED
      BY <2>1, <2>2 DEF Space
  <1>2. 0 \in S
    BY <1>1
  <1>3. ASSUME NEW d \in Nat, d \in S PROVE d + 1 \in S
    <2> SUFFICES ASSUME i + (d + 1) <= k
                 PROVE  sp.txIndex[i].end[s] <= sp.txIndex[i + (d + 1)].end[s]
      OBVIOUS
    <2>1. i + d \in 1 .. k /\ i + (d + 1) \in 1 .. k /\ i + (d + 1) # 1 /\ (i + (d + 1)) - 1 = i + d
      BY <1>1
    <2>2. sp.txIndex[i].end[s] <= sp.txIndex[i + d].end[s]
      BY <1>3, <2>1
    <2>3. EndBefore(sp, i + (d + 1), s) = sp.txIndex[i + d].end[s]
      BY <2>1 DEF EndBefore
    <2>4. EndBefore(sp, i + (d + 1), s) <= sp.txIndex[i + (d + 1)].end[s]
      BY <1>1, <2>1 DEF Ordered, TotallyOrdered
    <2>5. /\ sp.txIndex[i].end[s] \in Nat /\ sp.txIndex[i + d].end[s] \in Nat
          /\ sp.txIndex[i + (d + 1)].end[s] \in Nat
      BY <1>1, <2>1
    <2> DEFINE a == sp.txIndex[i].end[s]
               b == sp.txIndex[i + d].end[s]
               c == sp.txIndex[i + (d + 1)].end[s]
    <2>6. a \in Nat /\ b \in Nat /\ c \in Nat /\ a <= b /\ b <= c
      BY <2>2, <2>3, <2>4, <2>5
    <2> HIDE DEF a, b, c
    <2>7. a <= c
      BY <2>6
    <2> QED
      BY <2>7 DEF a, c
  <1> HIDE DEF S
  <1>4. \A d \in Nat : d \in S
    BY <1>2, <1>3, NatInduct
  <1> SUFFICES ASSUME NEW j \in i .. k PROVE sp.txIndex[i].end[s] <= sp.txIndex[j].end[s]
    OBVIOUS
  <1>5. j - i \in Nat /\ i + (j - i) = j /\ j <= k
    BY <1>1
  <1>6. j - i \in S
    BY <1>4, <1>5
  <1> QED
    BY <1>5, <1>6 DEF S

(* So a lookup of the id at a position finds an entry that ends no earlier. *)
LEMMA EntryLookedUp ==
  ASSUME NEW sp \in Space, Ordered(sp), NEW s \in Streams, NEW q \in 1 .. Len(sp.ev[s])
  PROVE  \E j \in 1 .. Len(sp.txIndex) : /\ LookUp(sp.txIndex, sp.ev[s][q].tx) = sp.txIndex[j]
                                         /\ sp.txIndex[j] # None
                                         /\ sp.txIndex[j].end[s] \in q .. Len(sp.ev[s])
  <1>1. sp.txIndex \in Seq(Entry) /\ sp.ev[s] \in Seq(Event)
    BY DEF Space
  <1>2. PICK i \in 1 .. Len(sp.txIndex) :
           sp.ev[s][q].tx = sp.txIndex[i].tx /\ q <= sp.txIndex[i].end[s]
    BY EntryAt
  <1>3. PICK j \in 1 .. Len(sp.txIndex) :
           i <= j /\ LookUp(sp.txIndex, sp.txIndex[i].tx) = sp.txIndex[j]
    BY <1>1, LookUpProperties
  <1>4. sp.txIndex[i].end[s] <= sp.txIndex[j].end[s]
    BY <1>3, EndsIncrease
  <1>5. sp.txIndex[j].end[s] <= Len(sp.ev[s])
    BY <1>1 DEF Ordered
  <1>6. /\ sp.txIndex[i].end[s] \in Nat /\ sp.txIndex[j].end[s] \in Nat /\ Len(sp.ev[s]) \in Nat
        /\ sp.txIndex[j] # None
    <2>1. sp.txIndex[i] \in Entry /\ sp.txIndex[j] \in Entry
      BY <1>1
    <2>2. \A e \in Entry : e.end[s] \in Nat
      BY DEF Entry, Cursor
    <2> QED
      BY <1>1, <2>1, <2>2, NoneAssumption
  <1> QED
    BY <1>2, <1>3, <1>4, <1>5, <1>6

(* A slice between two boundaries, cut nowhere, is consecutive. *)
WholeRange(sp, s, from, cap, got) ==
  /\ \A i \in DOMAIN got : got[i].seq = from + i
  /\ from + Len(got) \in Boundaries(sp, s)
  /\ from < cap => got # <<>>

(* A range read of an ordered space ends between transactions and skips none. *)
LEMMA RangeIsWhole ==
  ASSUME NEW sp \in Space, Ordered(sp), NEW s \in Streams,
         NEW from \in Boundaries(sp, s), NEW cap \in Boundaries(sp, s),
         NEW limit \in 1 .. Len(sp.ev[s]) + 1
  PROVE  WholeRange(sp, s, from, cap, ReadRange(sp, sp.txIndex, s, from, limit, cap))
  <1> DEFINE evs     == sp.ev[s]
             n       == Len(sp.ev[s])
             bounded == SliceBySeqRange(sp.ev[s], from + 1, cap)
             last    == bounded[limit]
             e       == LookUp(sp.txIndex, last.tx)
  <1>1. /\ evs \in Seq(Event) /\ n \in Nat /\ DOMAIN evs = 1 .. n
        /\ DOMAIN sp.txIndex = 1 .. Len(sp.txIndex)
        /\ \A q \in 1 .. n : evs[q].seq = q
    BY DEF Space, Ordered, TotallyOrdered
  <1>2. Boundaries(sp, s) \subseteq 0 .. n
    <2>1. \A i \in 1 .. Len(sp.txIndex) : sp.txIndex[i].end[s] \in 0 .. n
      <3>1. \A i \in 1 .. Len(sp.txIndex) : sp.txIndex[i] \in Entry
        BY DEF Space
      <3>2. \A x \in Entry : x.end[s] \in Nat
        BY DEF Entry, Cursor
      <3>3. \A i \in 1 .. Len(sp.txIndex) : sp.txIndex[i].end[s] <= n
        BY <1>1 DEF Ordered
      <3> QED
        BY <1>1, <3>1, <3>2, <3>3
    <2> QED
      BY <1>1, <2>1 DEF Boundaries
  <1>3. from \in 0 .. n /\ cap \in 0 .. n /\ from \in Nat /\ cap \in Nat /\ limit \in Nat \ {0}
    BY <1>1, <1>2
  \* A slice that ends at a boundary, or is empty.
  <1>4. ASSUME NEW end \in Boundaries(sp, s), from < cap => from < end
        PROVE  WholeRange(sp, s, from, cap, SliceBySeqRange(sp.ev[s], from + 1, end))
    <2> DEFINE got == SliceBySeqRange(sp.ev[s], from + 1, end)
    <2>1. end \in 0 .. n /\ end \in Nat
      BY <1>1, <1>2
    <2>2. /\ got \in Seq(Event)
          /\ from <= end => Len(got) = end - from
          /\ ~(from <= end) => Len(got) = 0
          /\ \A i \in 1 .. end - from : got[i] = evs[from + i]
      <3>1. sp.ev[s] \in Seq(Event) /\ from \in 0 .. Len(sp.ev[s]) /\ end \in 0 .. Len(sp.ev[s])
        BY <1>1, <1>3, <2>1
      <3> QED
        BY <3>1, SliceProperties
    <2> HIDE DEF got, evs, n
    <2>3. \A i \in 1 .. end - from : got[i].seq = from + i
      <3>1. \A i \in 1 .. end - from : from + i \in 1 .. n
        BY <1>1, <1>3, <2>1
      <3> QED
        BY <1>1, <2>2, <3>1
    <2>4. DOMAIN got = 1 .. Len(got)
      BY <2>2
    <2>5. CASE from <= end
      <3>1. from + Len(got) = end /\ DOMAIN got = 1 .. end - from
        BY <1>3, <2>1, <2>2, <2>4, <2>5
      <3>2. from < end => Len(got) # 0
        BY <1>3, <2>1, <2>2, <2>5
      <3>3. from < cap => got # <<>>
        BY <1>4, <3>2
      <3> QED
        BY <2>3, <3>1, <3>3 DEF WholeRange, got
    <2>6. CASE ~(from <= end)
      <3>1. Len(got) = 0 /\ DOMAIN got = {} /\ from + Len(got) = from /\ ~(from < cap)
        BY <1>3, <1>4, <2>1, <2>2, <2>4, <2>6
      <3> QED
        BY <3>1 DEF WholeRange, got
    <2> QED
      BY <2>5, <2>6
  <1>5. WholeRange(sp, s, from, cap, bounded)
    BY <1>4
  <1>6. CASE Len(bounded) <= limit
    <2>1. ReadRange(sp, sp.txIndex, s, from, limit, cap) = bounded
      BY <1>6 DEF ReadRange
    <2> QED
      BY <1>5, <2>1
  \* The read stops at its limit, or at the end of the transaction there.
  <1>7. CASE ~(Len(bounded) <= limit)
    <2>1. /\ bounded \in Seq(Event)
          /\ from <= cap => Len(bounded) = cap - from
          /\ ~(from <= cap) => Len(bounded) = 0
          /\ \A i \in 1 .. cap - from : bounded[i] = evs[from + i]
      <3>1. sp.ev[s] \in Seq(Event) /\ from \in 0 .. Len(sp.ev[s]) /\ cap \in 0 .. Len(sp.ev[s])
        BY <1>1, <1>3
      <3> QED
        BY <3>1, SliceProperties
    <2>a. ReadRange(sp, sp.txIndex, s, from, limit, cap)
            = IF e = None \/ last.seq >= e.end[s] THEN SubSeq(bounded, 1, limit)
              ELSE SliceBySeqRange(sp.ev[s], from + 1, Least(cap, e.end[s]))
      BY <1>3, <1>7 DEF ReadRange
    <2> HIDE DEF bounded, evs, n, e
    <2>2. from + limit \in 1 .. n /\ from + limit < cap /\ limit \in 1 .. cap - from
          /\ limit \in 0 .. Len(bounded)
      BY <1>1, <1>3, <1>7, <2>1
    <2>3. last = evs[from + limit] /\ last.seq = from + limit
      BY <1>1, <2>1, <2>2
    <2>4. PICK j \in 1 .. Len(sp.txIndex) :
             /\ e = sp.txIndex[j] /\ e # None
             /\ sp.txIndex[j].end[s] \in from + limit .. n
      BY <2>2, <2>3, EntryLookedUp DEF e, evs, n
    <2>5. e.end[s] \in Boundaries(sp, s) /\ e.end[s] \in Nat /\ from + limit <= e.end[s]
      <3>1. e.end[s] = sp.txIndex[j].end[s] /\ j \in DOMAIN sp.txIndex
        BY <1>1, <2>4
      <3>2. e.end[s] \in Boundaries(sp, s)
        BY <3>1 DEF Boundaries
      <3> QED
        BY <1>1, <1>3, <2>2, <2>4, <3>1, <3>2
    <2>6. CASE last.seq >= e.end[s]
      <3> DEFINE got == SubSeq(bounded, 1, limit)
      <3>1. got \in Seq(Event) /\ Len(got) = limit /\ \A i \in 1 .. limit : got[i] = bounded[i]
        BY <2>1, <2>2, PrefixProperties
      <3>2. ReadRange(sp, sp.txIndex, s, from, limit, cap) = got
        BY <2>a, <2>6
      <3>3. from + limit = e.end[s]
        BY <1>3, <2>3, <2>5, <2>6
      <3> HIDE DEF got
      <3>4. DOMAIN got = 1 .. limit /\ got # <<>>
        BY <1>3, <3>1
      <3>5. \A i \in 1 .. limit : got[i].seq = from + i
        <4>1. \A i \in 1 .. limit : i \in 1 .. cap - from /\ from + i \in 1 .. n
          BY <1>1, <1>3, <2>2
        <4> QED
          BY <1>1, <2>1, <3>1, <4>1
      <3> QED
        BY <2>5, <3>1, <3>2, <3>3, <3>4, <3>5 DEF WholeRange
    <2>7. CASE ~(last.seq >= e.end[s])
      <3>1. ReadRange(sp, sp.txIndex, s, from, limit, cap) = SliceBySeqRange(sp.ev[s], from + 1, Least(cap, e.end[s]))
        BY <2>a, <2>4, <2>7
      <3>2. Least(cap, e.end[s]) \in Boundaries(sp, s) /\ from < Least(cap, e.end[s])
        BY <1>3, <2>2, <2>5 DEF Least
      <3> QED
        BY <1>4, <3>1, <3>2
    <2> QED
      BY <2>6, <2>7
  <1> QED
    BY <1>6, <1>7

(* A range read between transaction boundaries, which finds the end of the  *)
(* last transaction in the cached id map, returns consecutive events, ends  *)
(* at a boundary whatever its limit, and makes progress: pages that a       *)
(* reader fetches one after the other neither skip, repeat nor split.  Of   *)
(* staged writes too, but not while one waits to be refused by a rejected   *)
(* persistQueue, when the code does return half a transaction.              *)
THEOREM RangesAreWhole ==
  ASSUME AppendOnly, OneSlotPerTx, OpenedBeforeUse PROVE Spec => []RangeReadsTxClosed
  <1>1. Init => FileInv /\ CacheInv
    BY FileInvInit, CacheInit
  <1>2. FileInv /\ CacheInv /\ [Next]_vars => FileInv' /\ CacheInv'
    BY FileInvStep, CacheStep
  <1>3. FileInv /\ CacheInv => RangeReadsTxClosed
    <2> SUFFICES ASSUME FileInv, CacheInv, ~IsRefusing, NEW s \in Streams,
                        NEW from \in Boundaries(mem, s), NEW cap \in Boundaries(mem, s),
                        NEW limit \in 1 .. Len(mem.ev[s]) + 1
                 PROVE  WholeRange(mem, s, from, cap, ReadRange(mem, TxIndexById, s, from, limit, cap))
      BY DEF RangeReadsTxClosed, StrictTxClosedReads, WholeRange
    <2>1. TxIndexById = mem.txIndex
      BY MapIsCurrent
    <2>2. mem \in Space /\ Ordered(mem)
      BY DEF FileInv, HoldsOnly, LogSpaces
    <2>3. WholeRange(mem, s, from, cap, ReadRange(mem, mem.txIndex, s, from, limit, cap))
      BY <2>2, RangeIsWhole
    <2> QED
      BY <2>1, <2>3
  <1> QED
    BY <1>1, <1>2, <1>3, PTL DEF Spec
===============================================================================
