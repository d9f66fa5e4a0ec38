----------------------------- MODULE IndexedDb ------------------------------
(***************************************************************************)
(* IndexedDbLocalEventStore (in Node: a map in the process): the contents  *)
(* of a space are those of EventLog and every write is one step, but the   *)
(* heads of the streams are counted apart from the arrays, so that a       *)
(* compaction does not bring sequence numbers back.                        *)
(***************************************************************************)
EXTENDS Gateway

(* undefined is neither an entry nor the events of a transaction. *)
ASSUME NoneIsNoEntry == None \notin Entry /\ None \notin [Streams -> Seq(Event)]

VARIABLE db  \* [space, heads]

EmptyDb == [space |-> EmptySpace, heads |-> Origin]

DbInit == db = EmptyDb

-----------------------------------------------------------------------------
(* appendTx *)

(* Mutant: the next number is taken from the array, as the other stores do. *)
DbBatch_ByLength(d, r, s) ==
  [i \in 1 .. r.n[s] |-> [seq |-> Len(d.space.ev[s]) + i, tx |-> r.tx, n |-> i]]

DbBatch(d, r, s) == [i \in 1 .. r.n[s] |-> [seq |-> d.heads[s] + i, tx |-> r.tx, n |-> i]]

DbHeadsAfter(d, r) == [s \in Streams |-> d.heads[s] + r.n[s]]

DbEntry(d, r) ==
  [tx      |-> r.tx,
   txIndex |-> Len(d.space.txIndex) + 1,
   start   |-> [s \in Streams |-> IF r.n[s] > 0 THEN d.heads[s] + 1 ELSE d.heads[s]],
   end     |-> DbHeadsAfter(d, r)]

DbOutcome(d, r) ==
  [slot |-> r.slot, hash |-> r.hash,
   receipt |-> [tx |-> r.tx, txIndex |-> Len(d.space.txIndex) + 1, cursorAfter |-> DbHeadsAfter(d, r)]]

DbAppend(d, r) ==
  [space |-> [ev      |-> [s \in Streams |-> d.space.ev[s] \o DbBatch(d, r, s)],
              txIndex |-> Append(d.space.txIndex, DbEntry(d, r)),
              idem    |-> d.space.idem \cup {DbOutcome(d, r)}],
   heads |-> DbHeadsAfter(d, r)]

DbIsStale(d, r) == r.base # None /\ r.base # d.heads

DbCommits(d, r) == ~IsEmptyTx(r) /\ ~IsKnown(d.space, r) /\ ~DbIsStale(d, r)

DbWrite(r) == DbCommits(db, r) /\ db' = DbAppend(db, r)

-----------------------------------------------------------------------------
(* compactUpToCursor, deleteDatabase *)

DbCompact(cutoff) ==
  /\ PrunedTxIds(db.space, cutoff) # {}
  /\ db' = [db EXCEPT !.space = Compact(@, cutoff)]

DbDelete == db # EmptyDb /\ db' = EmptyDb

-----------------------------------------------------------------------------
(* readTx, readTxForPrincipal, readRange, getCursorHead and the principal's  *)
(* range and head: the arrays are cut at the positions the numbers name.     *)

DbReadTx(d, tx) == ReadTx(d.space, d.space.txIndex, tx)

(* Events, as a policy tells them apart. *)
EventId(s, event) == <<s, event.tx, event.n>>

(* decideTxVisibility, where masks are the events a principal may not see.   *)
Masked(bundle, masks) ==
  \E s \in Streams : \E i \in DOMAIN bundle[s] : EventId(s, bundle[s][i]) \in masks

OwnEvents(d, tx, s) == EventsOfTx(d.space.ev[s], tx)

HiddenTxs(d, masks) == {tx \in TxId : Masked([s \in Streams |-> OwnEvents(d, tx, s)], masks)}

(* What is decided upon is what readTx has sliced, also of other transactions. *)
DbReadTxForPrincipal(d, tx, masks) ==
  LET got == DbReadTx(d, tx) IN IF got = None \/ Masked(got, masks) THEN None ELSE got

DbReadRange(d, s, from, limit) ==
  ReadRange(d.space, d.space.txIndex, s, from, limit, Len(d.space.ev[s]))

DbCursorHead(d) == d.heads

DbPrincipalHead(d, hid) == CountVisibleTxs(d.space, hid)

-----------------------------------------------------------------------------

(* Whatever was compacted, a stored event never has the number of an earlier *)
(* one (appendTx counts on from heads, which compactUpToCursor keeps), none  *)
(* is beyond the head that is reported, and an index entry's range covers    *)
(* the events of its transaction.                                            *)
DbOrdered ==
  \A s \in Streams :
    LET evs == db.space.ev[s] IN
    /\ \A i, j \in DOMAIN evs : i < j => evs[i].seq < evs[j].seq
    /\ \A i \in DOMAIN evs : evs[i].seq <= DbCursorHead(db)[s]
    /\ \A k \in DOMAIN db.space.txIndex, i \in DOMAIN evs :
         LET e == db.space.txIndex[k] IN
         evs[i].tx = e.tx => evs[i].seq \in e.start[s] .. e.end[s]

Latest(evs) == evs[Len(evs)]

EventIds(d) == UNION {{EventId(s, d.space.ev[s][i]) : i \in DOMAIN d.space.ev[s]} : s \in Streams}

(* As long as nothing was compacted, the three ways to read agree: through   *)
(* the index (readTx), of each stream a transaction wrote; through a range,  *)
(* which ends where a transaction ends; and as a principal, who can read one *)
(* by one no transaction its head does not count, and all it counts but such *)
(* as left a stream alone: of that stream readTxForPrincipal decides upon an *)
(* event of an earlier transaction, which may be masked.                     *)
DbReadsAgree ==
  db.heads = CursorHead(db.space) =>
    /\ \A k \in DOMAIN db.space.txIndex, s \in Streams :
         LET tx == db.space.txIndex[k].tx IN
         OwnEvents(db, tx, s) # <<>> => DbReadTx(db, tx)[s] = OwnEvents(db, tx, s)
    /\ \A s \in Streams : \A from \in 0 .. db.heads[s], limit \in 1 .. 2 :
         LET read == DbReadRange(db, s, from, limit) IN
         read # <<>> => Latest(OwnEvents(db, Latest(read).tx, s)) = Latest(read)
    /\ \A masks \in SUBSET EventIds(db) :
         LET hid      == HiddenTxs(db, masks)
             visible  == {db.space.txIndex[k].tx : k \in DOMAIN db.space.txIndex} \ hid
             readable == {tx \in TxId : DbReadTxForPrincipal(db, tx, masks) # None}
         IN  /\ DbPrincipalHead(db, hid) = Cardinality(visible)
             /\ readable \subseteq visible
             /\ \A tx \in visible \ readable : \E s \in Streams : OwnEvents(db, tx, s) = <<>>
=============================================================================
