------------------------------ MODULE EventLog ------------------------------
(***************************************************************************)
(* The contents of one graph space of a local event store, and what the    *)
(* store's operations compute from it.  The in-memory and the file-backed  *)
(* store share these definitions line by line; they differ in when the     *)
(* result becomes visible, and in what survives a crash.                   *)
(*                                                                         *)
(* A space keeps two streams of events ("meta" and "graph"), an index with *)
(* one entry per committed transaction, and the idempotency table that     *)
(* maps a slot (actor::idempotencyKey) to the payload hash and receipt of  *)
(* the transaction committed under it.  Payloads are abstracted: an event  *)
(* is its sequence number, its transaction and its place in it, which is   *)
(* what eventId (`txId-m-n`, `txId-g-n`) is made of.                       *)
(***************************************************************************)
EXTENDS Integers, Sequences

CONSTANTS TxId, Slot, Hash,
          None         \* undefined / null

Streams == {"meta", "graph"}

Cursor == [Streams -> Nat]
Event  == [seq : Nat, tx : TxId, n : Nat]
Entry  == [tx : TxId, txIndex : Nat, start : Cursor, end : Cursor]

Receipt == [tx : TxId, txIndex : Nat, cursorAfter : Cursor]
Outcome == [slot : Slot, hash : Hash, receipt : Receipt]

Space == [ev      : [Streams -> Seq(Event)],
          txIndex : Seq(Entry),
          idem    : SUBSET Outcome]

(* An append: txBundle and IdempotencyCtx, with the number of events the   *)
(* bundle carries on each stream and requiredBaseCursor (None if absent).  *)
AppendRequest == [kind : {"append"}, tx : TxId, slot : Slot, hash : Hash,
                  n : Cursor, base : Cursor \cup {None}]

CompactRequest == [kind : {"compact"}, cutoff : Nat]

EmptySpace == [ev      |-> [s \in Streams |-> <<>>],
               txIndex |-> <<>>,
               idem    |-> {}]

CursorHead(sp) == [s \in Streams |-> Len(sp.ev[s])]

-----------------------------------------------------------------------------
(* appendTx *)

(* Mutant: sequence numbers counted from the array index. *)
Batch_FromZero(sp, r, s) ==
  [i \in 1 .. r.n[s] |-> [seq |-> Len(sp.ev[s]) + i - 1, tx |-> r.tx, n |-> i]]

Batch(sp, r, s) == [i \in 1 .. r.n[s] |-> [seq |-> Len(sp.ev[s]) + i, tx |-> r.tx, n |-> i]]

(* Mutant: the end of a range is the position before the next event's index. *)
EntryOf_EndTooLow(sp, r) ==
  [tx      |-> r.tx,
   txIndex |-> Len(sp.txIndex) + 1,
   start   |-> [s \in Streams |-> Len(sp.ev[s])],
   end     |-> [s \in Streams |-> Len(sp.ev[s]) + r.n[s] - 1]]

EntryOf(sp, r) ==
  [tx      |-> r.tx,
   txIndex |-> Len(sp.txIndex) + 1,
   start   |-> [s \in Streams |-> IF r.n[s] > 0 THEN Len(sp.ev[s]) + 1 ELSE Len(sp.ev[s])],
   end     |-> [s \in Streams |-> Len(sp.ev[s]) + r.n[s]]]

(* Mutant: the cursor of the receipt is the head the append started from. *)
ReceiptOf_CursorBefore(sp, r) ==
  [tx |-> r.tx, txIndex |-> Len(sp.txIndex) + 1, cursorAfter |-> CursorHead(sp)]

ReceiptOf(sp, r) ==
  [tx          |-> r.tx,
   txIndex     |-> Len(sp.txIndex) + 1,
   cursorAfter |-> [s \in Streams |-> Len(sp.ev[s]) + r.n[s]]]

OutcomeOf(sp, r) == [slot |-> r.slot, hash |-> r.hash, receipt |-> ReceiptOf(sp, r)]

AppendTx(sp, r) ==
  [ev      |-> [s \in Streams |-> sp.ev[s] \o Batch(sp, r, s)],
   txIndex |-> Append(sp.txIndex, EntryOf(sp, r)),
   idem    |-> sp.idem \cup {OutcomeOf(sp, r)}]

(* The early returns of appendTx, in their order. *)
IsEmptyTx(r) == \A s \in Streams : r.n[s] = 0

(* Mutant: the idempotency table is not consulted. *)
IsKnown_Never(sp, r) == FALSE

OutcomesAt(sp, slot) == {o \in sp.idem : o.slot = slot}

IsKnown(sp, r) == OutcomesAt(sp, r.slot) # {}

(* Mutant: a base that the log has already passed is accepted. *)
IsStale_OnlyAhead(sp, r) ==
  r.base # None /\ \E s \in Streams : r.base[s] > Len(sp.ev[s])

IsStale(sp, r) == r.base # None /\ r.base # CursorHead(sp)

(* Mutant: the base is compared before the idempotency table is consulted. *)
IsReplay_AfterBaseCheck(sp, r) ==
  /\ ~IsEmptyTx(r) /\ IsKnown(sp, r) /\ ~IsStale(sp, r)
  /\ \A o \in OutcomesAt(sp, r.slot) : o.hash = r.hash

IsReplay(sp, r) ==
  ~IsEmptyTx(r) /\ IsKnown(sp, r) /\ \A o \in OutcomesAt(sp, r.slot) : o.hash = r.hash

Commits(sp, r) == ~IsEmptyTx(r) /\ ~IsKnown(sp, r) /\ ~IsStale(sp, r)
Rejects(sp, r) == ~Commits(sp, r) /\ ~IsReplay(sp, r)

-----------------------------------------------------------------------------
(* compactUpToCursor: entries below the cutoff go, with the events that    *)
(* carry their ids; nothing is renumbered and idempotency stays.           *)

PrunedTxIds(sp, cutoff) ==
  {sp.txIndex[i].tx : i \in {j \in DOMAIN sp.txIndex : sp.txIndex[j].txIndex < cutoff}}

(* filter (the provers know nothing of SelectSeq) *)
Kept(seq, pruned) ==
  LET upTo[i \in Nat] ==
        IF i = 0 THEN <<>>
        ELSE IF seq[i].tx \notin pruned THEN Append(upTo[i - 1], seq[i]) ELSE upTo[i - 1]
  IN  upTo[Len(seq)]

(* Mutant: the meta stream is not pruned. *)
Compact_KeepsMeta(sp, cutoff) ==
  LET pruned == PrunedTxIds(sp, cutoff) IN
  [ev      |-> [sp.ev EXCEPT !["graph"] = Kept(@, pruned)],
   txIndex |-> Kept(sp.txIndex, pruned),
   idem    |-> sp.idem]

(* Mutant: the outcomes of pruned transactions go with them. *)
Compact_DropsOutcomes(sp, cutoff) ==
  LET pruned == PrunedTxIds(sp, cutoff) IN
  [ev      |-> [s \in Streams |-> Kept(sp.ev[s], pruned)],
   txIndex |-> Kept(sp.txIndex, pruned),
   idem    |-> {o \in sp.idem : o.receipt.tx \notin pruned}]

Compact(sp, cutoff) ==
  LET pruned == PrunedTxIds(sp, cutoff) IN
  [ev      |-> [s \in Streams |-> Kept(sp.ev[s], pruned)],
   txIndex |-> Kept(sp.txIndex, pruned),
   idem    |-> sp.idem]

-----------------------------------------------------------------------------
(* Reads.  Sequence numbers are used as array positions. *)

Least(a, b)    == IF a < b THEN a ELSE b
Greatest(a, b) == IF a > b THEN a ELSE b

SliceBySeqRange(evs, start, end) ==
  SubSeq(evs, Greatest(1, start), Least(Len(evs), end))

(* Map(txIndex.map(entry => [entry.txId, entry])): the last entry of an id wins. *)
EntriesOf(index, tx) == {i \in DOMAIN index : index[i].tx = tx}

LookUp(index, tx) ==
  IF EntriesOf(index, tx) = {} THEN None
  ELSE index[CHOOSE i \in EntriesOf(index, tx) : \A j \in EntriesOf(index, tx) : j <= i]

ReadTx(sp, index, tx) ==
  LET e == LookUp(index, tx) IN
  IF e = None THEN None
  ELSE [s \in Streams |-> SliceBySeqRange(sp.ev[s], e.start[s], e.end[s])]

(* Mutant: a range read stops at its limit inside a transaction. *)
ReadRange_NotExtended(sp, index, s, from, limit, cap) ==
  LET bounded == SliceBySeqRange(sp.ev[s], from + 1, cap)
  IN  SubSeq(bounded, 1, Least(limit, Len(bounded)))

(* readRange with a snapshot cap (the stream's length when absent): at most  *)
(* limit events, extended to the end of the last one's transaction, if the   *)
(* index in which it is looked up has it.                                    *)
ReadRange(sp, index, s, from, limit, cap) ==
  LET bounded == SliceBySeqRange(sp.ev[s], from + 1, cap)
      last    == bounded[limit]
      e       == LookUp(index, last.tx)
  IN  IF Len(bounded) <= limit THEN bounded
      ELSE IF limit = 0 THEN <<>>
      ELSE IF e = None \/ last.seq >= e.end[s] THEN SubSeq(bounded, 1, limit)
      ELSE SliceBySeqRange(sp.ev[s], from + 1, Least(cap, e.end[s]))

(* Revision tokens: "rev:root", or "rev:tx:<id>" of a retained transaction. *)
ResolveRevision(sp, token) ==
  IF token = "root" THEN [s \in Streams |-> 0]
  ELSE LET at == EntriesOf(sp.txIndex, token) IN
       IF at = {} THEN None
       ELSE sp.txIndex[CHOOSE i \in at : \A j \in at : i <= j].end
=============================================================================
