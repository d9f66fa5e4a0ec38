------------------------------ MODULE Gateway -------------------------------
(***************************************************************************)
(* What a principal can read of a graph space: the transactions visible to *)
(* it (txVisibility), and the three reads of LocalSyncGateway that serve   *)
(* them: syncPull by number of visible transactions, syncPoll by a cursor  *)
(* on the two streams of visible events, eventsRead by one of them.        *)
(*                                                                         *)
(* A visibility policy decides per transaction, from its events and the    *)
(* principal; here it is the set hid of the transactions with an event     *)
(* that the principal is not allowed to see.  A limit in bytes stops a     *)
(* read after some number of transactions, at least one: that number is    *)
(* the parameter fits.                                                     *)
(***************************************************************************)
EXTENDS EventLog, FiniteSets
LOCAL INSTANCE SequencesExt

Bundle == [tx : TxId, txIndex : Nat, ev : [Streams -> Seq(Event)]]

(* groupByTx, of one transaction: the stream without the events of the others. *)
EventsOfTx(evs, tx) == Kept(evs, {evs[i].tx : i \in DOMAIN evs} \ {tx})

(* buildTxBundles, of one index entry *)
BundleOf(sp, entry) ==
  [tx |-> entry.tx, txIndex |-> entry.txIndex,
   ev |-> [s \in Streams |-> EventsOfTx(sp.ev[s], entry.tx)]]

VisibleTxs(sp, hid) ==
  LET upTo[i \in Nat] ==
        IF i = 0 THEN <<>>
        ELSE IF sp.txIndex[i].tx \notin hid
               THEN Append(upTo[i - 1], BundleOf(sp, sp.txIndex[i])) ELSE upTo[i - 1]
  IN  upTo[Len(sp.txIndex)]

CountVisibleTxs(sp, hid) == Len(VisibleTxs(sp, hid))

(* Visible transactions are numbered by their place among the visible ones. *)
FilterVisibleTxs(sp, hid, from, limit) ==
  LET visible == VisibleTxs(sp, hid)
      slice   == SubSeq(visible, from + 1, Least(Len(visible), from + limit))
  IN  [txs    |-> [i \in DOMAIN slice |-> [slice[i] EXCEPT !.txIndex = from + i]],
       cursor |-> from + Len(slice)]

ReadPrincipalTxRange(sp, hid, from, limit) == FilterVisibleTxs(sp, hid, from, limit)

-----------------------------------------------------------------------------
(* syncPull *)

(* What is sent of a transaction: its principal cursor and what it is. *)
Delta(from, txs) == [i \in DOMAIN txs |-> [cursor |-> from + i, tx |-> txs[i].tx]]

SyncPull(sp, hid, from, limitTx, fits) ==
  LET txs  == ReadPrincipalTxRange(sp, hid, from, Greatest(1, limitTx)).txs
      sent == SubSeq(Delta(from, txs), 1, Least(fits, Len(txs)))
  IN  [txs |-> sent, after |-> from + Len(sent)]

-----------------------------------------------------------------------------
(* syncPoll *)

Origin == [s \in Streams |-> 0]

PollStart == [seq |-> Origin, out |-> [s \in Streams |-> <<>>], count |-> 0, stop |-> FALSE]

(* One transaction: already covered by the cursor, or taken, or the end.   *)
(* Mutant: a transaction over a limit is skipped, not the end. *)
PollTx_Skips(acc, b, cursor, limit, fits) ==
  LET end      == [s \in Streams |-> acc.seq[s] + Len(b.ev[s])]
      Wants(s) == b.ev[s] # <<>> /\ end[s] > cursor[s]
      numbered == [s \in Streams |->
                     [i \in DOMAIN b.ev[s] |-> [b.ev[s][i] EXCEPT !.seq = acc.seq[s] + i]]]
  IN  IF \/ \A s \in Streams : ~Wants(s)
         \/ acc.count > 0 /\ \E s \in Streams : Len(acc.out[s]) + Len(b.ev[s]) > limit[s]
      THEN [acc EXCEPT !.seq = end]
      ELSE [acc EXCEPT !.seq = end, !.count = @ + 1,
                       !.out = [s \in Streams |-> @[s] \o numbered[s]]]

PollTx(acc, b, cursor, limit, fits) ==
  LET end      == [s \in Streams |-> acc.seq[s] + Len(b.ev[s])]
      Has(s)   == b.ev[s] # <<>>
      Wants(s) == Has(s) /\ end[s] > cursor[s]
      numbered == [s \in Streams |->
                     [i \in DOMAIN b.ev[s] |-> [b.ev[s][i] EXCEPT !.seq = acc.seq[s] + i]]]
      torn     == \E s, u \in Streams : Wants(s) /\ Has(u) /\ ~Wants(u)
      zero     == \E s \in Streams : limit[s] = 0 /\ Has(s)
      full     == \/ acc.count >= fits
                  \/ \E s \in Streams : Len(acc.out[s]) + Len(b.ev[s]) > limit[s]
      first    == \A s \in Streams : acc.out[s] = <<>>
  IN  IF acc.stop THEN acc
      ELSE IF \A s \in Streams : ~Wants(s) THEN [acc EXCEPT !.seq = end]
      ELSE IF torn \/ zero \/ (~first /\ full) THEN [acc EXCEPT !.stop = TRUE]
      ELSE [acc EXCEPT !.seq = end, !.count = @ + 1,
                       !.out = [s \in Streams |-> @[s] \o numbered[s]]]

SyncPoll(sp, hid, cursor, limit, fits) ==
  LET txs == VisibleTxs(sp, hid)
      polled[i \in 0 .. Len(txs)] ==
        IF i = 0 THEN PollStart ELSE PollTx(polled[i - 1], txs[i], cursor, limit, fits)
      out == polled[Len(txs)].out
  IN  [out   |-> out,
       after |-> [s \in Streams |-> IF out[s] = <<>> THEN cursor[s] ELSE Last(out[s]).seq]]

-----------------------------------------------------------------------------
(* eventsRead: whole transactions of one stream, from any sequence number. *)

VisibleEvents(sp, hid, s) ==
  LET txs == VisibleTxs(sp, hid)
      all == FlattenSeq([i \in DOMAIN txs |-> txs[i].ev[s]])
  IN  [i \in DOMAIN all |-> [all[i] EXCEPT !.seq = i]]

EventsRead(sp, hid, s, from, limit, fits) ==
  LET all  == VisibleEvents(sp, hid, s)
      rest == SubSeq(all, from + 1, Len(all))
      \* the positions after which the read may stop: where a transaction ends
      ends == {i \in DOMAIN rest : i = Len(rest) \/ rest[i + 1].tx # rest[i].tx}
      TxsUpTo(i) == Cardinality({j \in ends : j <= i})
      fine == {i \in ends : TxsUpTo(i) = 1 \/ (i <= Greatest(1, limit) /\ TxsUpTo(i) <= fits)}
  IN  IF rest = <<>> THEN <<>>
      ELSE SubSeq(rest, 1, CHOOSE i \in fine : \A j \in fine : j <= i)
-----------------------------------------------------------------------------

Joined(txs, s) == LET Join(acc, b) == acc \o [i \in DOMAIN b.ev[s] |-> <<b.tx, i>>]
                  IN  FoldLeft(Join, <<>>, txs)

NamesOf(evs) == [i \in DOMAIN evs |-> <<evs[i].tx, evs[i].n>>]

(* The position after the first k visible transactions. *)
Boundary(txs, k) == [s \in Streams |-> Len(Joined(SubSeq(txs, 1, k), s))]

(* A client that goes on from where the last answer left it gets every       *)
(* visible event once, in whole transactions on both streams, and something  *)
(* new each time, whatever the limits, if they are positive (syncPoll and    *)
(* eventsRead: the limits, the cursor on two streams, the renumbering).      *)
ReadsWhole(sp, hid) ==
  LET txs == VisibleTxs(sp, hid) IN
  \A k \in 0 .. Len(txs), limit \in [Streams -> 1 .. 2], fits \in 1 .. 2 :
    LET got == SyncPoll(sp, hid, Boundary(txs, k), limit, fits) IN
    /\ \E j \in Least(k + 1, Len(txs)) .. Len(txs) :
         /\ got.after = Boundary(txs, j)
         /\ \A s \in Streams : NamesOf(got.out[s]) = Joined(SubSeq(txs, k + 1, j), s)
    /\ \A s \in Streams :
         LET read == EventsRead(sp, hid, s, Boundary(txs, k)[s], limit[s], fits) IN
         /\ \E j \in k .. Len(txs) : NamesOf(read) = Joined(SubSeq(txs, k + 1, j), s)
         /\ read = <<>> => Joined(SubSeq(txs, k + 1, Len(txs)), s) = <<>>
=============================================================================
