--------------------------- MODULE Gateway_proofs ----------------------------
(* Lemmas about what a principal sees of a space, and the pulls that read it. *)
EXTENDS Gateway, EventLog_proofs

-----------------------------------------------------------------------------
(* The visible transactions *)

(* The bundles of a space, and the positions of those a principal may see. *)
Bundles(sp) == [i \in Nat |-> BundleOf(sp, sp.txIndex[i])]

AllowedAt(sp, hid) == {i \in Nat : sp.txIndex[i].tx \notin hid}

(* The recursion of VisibleTxs is a filter of the bundles. *)
LEMMA VisibleIsFilter ==
  ASSUME NEW sp, NEW hid
  PROVE  \E f : /\ f = FilterBody(f, Bundles(sp), AllowedAt(sp, hid), Nat)
                /\ VisibleTxs(sp, hid) = f[Len(sp.txIndex)]
  <1> DEFINE Body(u) == [i \in Nat |->
                IF i = 0 THEN <<>>
                ELSE IF sp.txIndex[i].tx \notin hid
                       THEN Append(u[i - 1], BundleOf(sp, sp.txIndex[i])) ELSE u[i - 1]]
             upTo == CHOOSE u : u = Body(u)
  <1>1. VisibleTxs(sp, hid) = upTo[Len(sp.txIndex)]
    BY DEF VisibleTxs
  <1>2. ASSUME NEW u PROVE Body(u) = FilterBody(u, Bundles(sp), AllowedAt(sp, hid), Nat)
    BY DEF FilterBody, Bundles, AllowedAt
  <1> HIDE DEF Body
  <1>3. \E u : u = Body(u)
    BY <1>2, FilterDefined, Zenon
  <1>4. upTo = Body(upTo)
    BY <1>3, Zenon
  <1> QED
    BY <1>1, <1>2, <1>4, Zenon

IsBundle(b) == \E t, x, e : b = [tx |-> t, txIndex |-> x, ev |-> e]

AllowedBundles(sp, hid) ==
  {BundleOf(sp, sp.txIndex[i]) : i \in {j \in 1 .. Len(sp.txIndex) : sp.txIndex[j].tx \notin hid}}

(* The visible transactions are bundles of index entries that are allowed.   *)
LEMMA VisibleType ==
  ASSUME NEW sp \in Space, NEW hid
  PROVE  /\ VisibleTxs(sp, hid) \in Seq(AllowedBundles(sp, hid))
         /\ CountVisibleTxs(sp, hid) \in Nat
         /\ DOMAIN VisibleTxs(sp, hid) = 1 .. CountVisibleTxs(sp, hid)
         /\ \A k \in 1 .. CountVisibleTxs(sp, hid) :
              /\ VisibleTxs(sp, hid)[k].tx \in TxId \ hid
              /\ \E i \in 1 .. Len(sp.txIndex) : VisibleTxs(sp, hid)[k].tx = sp.txIndex[i].tx
              /\ IsBundle(VisibleTxs(sp, hid)[k])
  <1> DEFINE n == Len(sp.txIndex)
             S == AllowedBundles(sp, hid)
  <1>1. sp.txIndex \in Seq(Entry) /\ n \in Nat
    BY DEF Space
  <1>2. PICK f : /\ f = FilterBody(f, Bundles(sp), AllowedAt(sp, hid), Nat)
                 /\ VisibleTxs(sp, hid) = f[n]
    BY VisibleIsFilter, Zenon
  <1>3. \A i \in 1 .. n : i \in AllowedAt(sp, hid) => Bundles(sp)[i] \in S
    BY <1>1 DEF Bundles, AllowedAt, AllowedBundles
  <1> HIDE DEF S
  <1>4. \A i \in 0 .. n : f[i] \in Seq(S)
    BY <1>1, <1>2, <1>3, FilterType
  <1>5. VisibleTxs(sp, hid) \in Seq(S)
    BY <1>1, <1>2, <1>4
  <1>6. \A b \in S : /\ b.tx \in TxId \ hid
                      /\ \E i \in 1 .. n : b.tx = sp.txIndex[i].tx
                      /\ IsBundle(b)
    <2> SUFFICES ASSUME NEW i \in 1 .. n, sp.txIndex[i].tx \notin hid
                 PROVE  LET b == BundleOf(sp, sp.txIndex[i]) IN
                        /\ b.tx \in TxId \ hid
                        /\ b.tx = sp.txIndex[i].tx
                        /\ IsBundle(b)
      BY DEF S, AllowedBundles
    <2>1. BundleOf(sp, sp.txIndex[i]).tx = sp.txIndex[i].tx
      BY DEF BundleOf
    <2>2. IsBundle(BundleOf(sp, sp.txIndex[i]))
      BY Zenon DEF BundleOf, IsBundle
    <2>3. sp.txIndex[i].tx \in TxId
      <3>1. sp.txIndex[i] \in Entry
        BY <1>1
      <3> QED
        BY <3>1 DEF Entry
    <2> QED
      BY <2>1, <2>2, <2>3
  <1>7. /\ Len(VisibleTxs(sp, hid)) \in Nat
        /\ DOMAIN VisibleTxs(sp, hid) = 1 .. Len(VisibleTxs(sp, hid))
        /\ \A k \in 1 .. Len(VisibleTxs(sp, hid)) : VisibleTxs(sp, hid)[k] \in S
    BY <1>5
  <1>8. \A k \in 1 .. Len(VisibleTxs(sp, hid)) :
          /\ VisibleTxs(sp, hid)[k].tx \in TxId \ hid
          /\ \E i \in 1 .. Len(sp.txIndex) : VisibleTxs(sp, hid)[k].tx = sp.txIndex[i].tx
          /\ IsBundle(VisibleTxs(sp, hid)[k])
    BY <1>6, <1>7, Zenon
  <1> QED
    BY <1>5, <1>7, <1>8, Zenon DEF CountVisibleTxs, S

(* No more is visible than there is. *)
LEMMA VisibleBounded ==
  ASSUME NEW sp \in Space, NEW hid
  PROVE  CountVisibleTxs(sp, hid) <= Len(sp.txIndex) /\ Len(sp.txIndex) \in Nat
  <1>1. Len(sp.txIndex) \in Nat
    BY DEF Space
  <1>2. PICK f : /\ f = FilterBody(f, Bundles(sp), AllowedAt(sp, hid), Nat)
                 /\ VisibleTxs(sp, hid) = f[Len(sp.txIndex)]
    BY VisibleIsFilter, Zenon
  <1>3. Len(f[Len(sp.txIndex)]) <= Len(sp.txIndex)
    BY <1>1, <1>2, FilterLen
  <1> QED
    BY <1>1, <1>2, <1>3 DEF CountVisibleTxs

(* When a transaction is appended, those that were visible keep their places, *)
(* and it comes next, if it is visible.                                       *)
LEMMA VisibleGrows ==
  ASSUME NEW sp \in Space, NEW hid, NEW r \in AppendRequest
  PROVE  LET n     == CountVisibleTxs(sp, hid)
             after == VisibleTxs(AppendTx(sp, r), hid)
         IN  /\ Len(after) = IF r.tx \in hid THEN n ELSE n + 1
             /\ \A k \in 1 .. n : after[k].tx = VisibleTxs(sp, hid)[k].tx
             /\ r.tx \notin hid => after[n + 1].tx = r.tx
  <1> DEFINE n   == Len(sp.txIndex)
             new == AppendTx(sp, r)
  <1>1. n \in Nat /\ new \in Space /\ Len(new.txIndex) = n + 1
    BY AppendTxType, AppendTxEffect DEF Space
  <1>2. /\ \A i \in 1 .. n : new.txIndex[i] = sp.txIndex[i]
        /\ new.txIndex[n + 1].tx = r.tx
    <2>1. /\ \A i \in 1 .. n : new.txIndex[i] = sp.txIndex[i]
          /\ new.txIndex[n + 1] = EntryOf(sp, r)
      BY AppendTxEffect
    <2>2. EntryOf(sp, r).tx = r.tx
      BY DEF EntryOf
    <2> HIDE DEF new
    <2> QED
      BY <2>1, <2>2
  <1>3. PICK f : /\ f = FilterBody(f, Bundles(sp), AllowedAt(sp, hid), Nat)
                 /\ VisibleTxs(sp, hid) = f[n]
    BY VisibleIsFilter, Zenon
  <1> HIDE DEF new
  <1>4. PICK g : /\ g = FilterBody(g, Bundles(new), AllowedAt(new, hid), Nat)
                 /\ VisibleTxs(new, hid) = g[n + 1]
    BY <1>1, VisibleIsFilter, Zenon
  <1>5. \A i \in 1 .. n : /\ i \in AllowedAt(sp, hid) <=> i \in AllowedAt(new, hid)
                          /\ Bundles(sp)[i].tx = Bundles(new)[i].tx
    BY <1>1, <1>2 DEF AllowedAt, Bundles, BundleOf
  <1>6. Len(f[n]) = Len(g[n]) /\ \A k \in 1 .. Len(f[n]) : f[n][k].tx = g[n][k].tx
    BY <1>1, <1>3, <1>4, <1>5, FilterAlike
  <1>7. g[n + 1] = IF r.tx \notin hid THEN Append(g[n], Bundles(new)[n + 1]) ELSE g[n]
    <2>1. n + 1 \in Nat /\ n + 1 # 0 /\ (n + 1) - 1 = n
      BY <1>1
    <2>2. n + 1 \in AllowedAt(new, hid) <=> r.tx \notin hid
      BY <1>2, <2>1 DEF AllowedAt
    <2> QED
      BY <1>4, <2>1, <2>2 DEF FilterBody
  <1>8. g[n] \in Seq({Bundles(new)[i] : i \in Nat}) /\ Bundles(new)[n + 1] \in {Bundles(new)[i] : i \in Nat}
    <2> DEFINE S == {Bundles(new)[i] : i \in Nat}
    <2>1. \A i \in 1 .. n : Bundles(new)[i] \in S
      OBVIOUS
    <2>2. Bundles(new)[n + 1] \in S
      BY <1>1
    <2> HIDE DEF S
    <2>3. \A i \in 0 .. n : g[i] \in Seq(S)
      BY <1>1, <1>4, <2>1, FilterType
    <2>4. g[n] \in Seq(S)
      BY <1>1, <2>3
    <2> QED
      BY <2>2, <2>4 DEF S
  <1>9. Bundles(new)[n + 1].tx = r.tx
    BY <1>1, <1>2 DEF Bundles, BundleOf
  <1>10. Len(g[n]) \in Nat
    BY <1>8
  <1>11. CASE r.tx \in hid
    BY <1>3, <1>4, <1>6, <1>7, <1>11 DEF CountVisibleTxs, new
  <1>12. CASE r.tx \notin hid
    <2>1. /\ Len(g[n + 1]) = Len(g[n]) + 1
          /\ \A k \in 1 .. Len(g[n]) : g[n + 1][k] = g[n][k]
          /\ g[n + 1][Len(g[n]) + 1] = Bundles(new)[n + 1]
      BY <1>7, <1>8, <1>12, AppendProperties
    <2> QED
      BY <1>3, <1>4, <1>6, <1>9, <1>10, <1>12, <2>1 DEF CountVisibleTxs, new
  <1> QED
    BY <1>11, <1>12

-----------------------------------------------------------------------------
(* Reads of a principal *)

(* How many transactions a range read returns, of n. *)
RangeLen(n, from, limit) == IF from < n THEN Least(n, from + limit) - from ELSE 0

(* txs are the m elements of V from position from on. *)
IsPart(txs, V, from, m) ==
  /\ Len(txs) = m /\ DOMAIN txs = 1 .. m
  /\ \A i \in 1 .. m : /\ from + i \in 1 .. Len(V)
                       /\ txs[i].tx = V[from + i].tx
                       /\ txs[i].ev = V[from + i].ev

(* What a principal's range read returns: the visible transactions from a     *)
(* position on, at most limit of them.                                        *)
LEMMA RangeProperties ==
  ASSUME NEW sp \in Space, NEW hid, NEW from \in Nat, NEW limit \in Nat,
         NEW n, n = CountVisibleTxs(sp, hid),
         NEW m, m = RangeLen(n, from, limit)
  PROVE  /\ m \in Nat /\ from + m <= Greatest(n, from)
         /\ \E txs : /\ ReadPrincipalTxRange(sp, hid, from, limit)
                          = [txs |-> txs, cursor |-> from + m]
                     /\ IsPart(txs, VisibleTxs(sp, hid), from, m)
  <1> DEFINE V     == VisibleTxs(sp, hid)
             slice == SubSeq(V, from + 1, Least(Len(V), from + limit))
             S     == AllowedBundles(sp, hid)
  <1>1. /\ V \in Seq(S) /\ n \in Nat /\ n = Len(V)
        /\ \A k \in 1 .. n : IsBundle(V[k])
    <2>1. V \in Seq(S)
      BY VisibleType, Zenon
    <2>2. \A k \in 1 .. n : IsBundle(V[k])
      BY VisibleType, Zenon
    <2>3. n = Len(V) /\ n \in Nat
      BY VisibleType, Zenon DEF CountVisibleTxs
    <2> QED
      BY <2>1, <2>2, <2>3, Zenon
  <1>2. m \in Nat /\ from + m <= Greatest(n, from) /\ \A i \in 1 .. m : from + i \in 1 .. n
    BY <1>1 DEF RangeLen, Least, Greatest
  <1> DEFINE txs == [i \in DOMAIN slice |-> [slice[i] EXCEPT !.txIndex = from + i]]
  <1>3. ReadPrincipalTxRange(sp, hid, from, limit) = [txs |-> txs, cursor |-> from + Len(slice)]
    BY Zenon DEF ReadPrincipalTxRange, FilterVisibleTxs
  <1> HIDE DEF V, S
  <1>4. Len(slice) = m /\ DOMAIN slice = 1 .. m /\ \A i \in 1 .. m : slice[i] = V[from + i]
    <2>1. CASE from < n
      <3>1. Least(Len(V), from + limit) = from + m
        BY <1>1, <2>1 DEF RangeLen, Least
      <3>2. from + 1 \in 1 .. Len(V) + 1 /\ from + m \in from .. Len(V)
        BY <1>1, <1>2, <2>1 DEF Greatest
      <3> QED
        BY <1>1, <1>2, <2>1, <3>1, <3>2, SubSeqProperties
    <2>2. CASE ~(from < n)
      <3>1. m = 0 /\ Least(Len(V), from + limit) < from + 1 /\ Least(Len(V), from + limit) \in Int
        BY <1>1, <2>2 DEF RangeLen, Least
      <3>2. slice = << >>
        BY <3>1, SubSeqEmpty
      <3>3. Len(<<>>) = 0 /\ DOMAIN <<>> = 1 .. 0
        OBVIOUS
      <3> HIDE DEF slice
      <3> QED
        BY <3>1, <3>2, <3>3
    <2> QED
      BY <2>1, <2>2
  <1> HIDE DEF slice
  <1>5. \A i \in 1 .. m : txs[i].tx = V[from + i].tx /\ txs[i].ev = V[from + i].ev
    <2> SUFFICES ASSUME NEW i \in 1 .. m
                 PROVE  txs[i].tx = V[from + i].tx /\ txs[i].ev = V[from + i].ev
      OBVIOUS
    <2>1. PICK t, x, e : V[from + i] = [tx |-> t, txIndex |-> x, ev |-> e]
      BY <1>1, <1>2 DEF IsBundle
    <2>2. txs[i] = [[tx |-> t, txIndex |-> x, ev |-> e] EXCEPT !.txIndex = from + i]
      BY <1>4, <2>1
    <2> HIDE DEF txs
    <2> QED
      BY <2>1, <2>2
  <1>6. Len(txs) = m /\ DOMAIN txs = 1 .. m
    <2> DEFINE R == {txs[i] : i \in 1 .. m}
    <2>1. txs \in [1 .. m -> R]
      BY <1>4
    <2> HIDE DEF R, txs
    <2> QED
      BY <1>2, <2>1, FunctionIsSeq
  <1> HIDE DEF txs
  <1>7. IsPart(txs, V, from, m)
    BY <1>1, <1>2, <1>5, <1>6, Zenon DEF IsPart
  <1> QED
    BY <1>2, <1>3, <1>4, <1>7, Zenon DEF V

-----------------------------------------------------------------------------
(* The whole of what can be pulled *)

Frame == [cursor : Nat, tx : TxId]

(* All that a principal can pull, in its order. *)
Pullable(sp, hid) == Delta(0, VisibleTxs(sp, hid))

(* They are numbered from 1. *)
LEMMA PullableProperties ==
  ASSUME NEW sp \in Space, NEW hid
  PROVE  /\ CountVisibleTxs(sp, hid) \in Nat
         /\ Pullable(sp, hid) \in Seq(Frame)
         /\ Len(Pullable(sp, hid)) = CountVisibleTxs(sp, hid)
         /\ \A i \in 1 .. CountVisibleTxs(sp, hid) :
              Pullable(sp, hid)[i] = [cursor |-> i, tx |-> VisibleTxs(sp, hid)[i].tx]
  <1> DEFINE V == VisibleTxs(sp, hid)
             n == CountVisibleTxs(sp, hid)
  <1>1. n \in Nat /\ DOMAIN V = 1 .. n /\ \A i \in 1 .. n : V[i].tx \in TxId
    BY VisibleType
  <1> HIDE DEF V, n
  <1>2. Pullable(sp, hid) = [i \in 1 .. n |-> [cursor |-> 0 + i, tx |-> V[i].tx]]
    BY <1>1 DEF Pullable, Delta, V
  <1>3. \A i \in 1 .. n : 0 + i = i /\ i \in Nat
    BY <1>1
  <1>4. \A i \in 1 .. n : [cursor |-> 0 + i, tx |-> V[i].tx] = [cursor |-> i, tx |-> V[i].tx]
    BY <1>3
  <1>5. Pullable(sp, hid) \in [1 .. n -> Frame]
    BY <1>1, <1>2, <1>3 DEF Frame
  <1>6. Pullable(sp, hid) \in Seq(Frame) /\ Len(Pullable(sp, hid)) = n
    BY <1>1, <1>5, FunctionIsSeq
  <1> QED
    BY <1>1, <1>2, <1>4, <1>6 DEF V, n

(* What was pulled after from are the next of P, of which there are n: at     *)
(* least one if there is one.                                                 *)
PullsNext(pulled, P, n, from) ==
  /\ pulled.after \in Nat /\ pulled.after >= from
  /\ from <= n => pulled.after <= n /\ pulled.txs = SubSeq(P, from + 1, pulled.after)
  /\ from < n => pulled.txs # <<>> /\ pulled.after > from
  /\ from >= n => pulled.txs = <<>> /\ pulled.after = from

(* syncPull answers with the next ones. *)
LEMMA PullProperties ==
  ASSUME NEW sp \in Space, NEW hid, NEW from \in Nat, NEW limitTx \in Nat, NEW fits \in Nat \ {0}
  PROVE  PullsNext(SyncPull(sp, hid, from, limitTx, fits), Pullable(sp, hid),
                   CountVisibleTxs(sp, hid), from)
  <1> DEFINE pulled == SyncPull(sp, hid, from, limitTx, fits)
             n      == CountVisibleTxs(sp, hid)
  <1> DEFINE V      == VisibleTxs(sp, hid)
             limit  == Greatest(1, limitTx)
             m      == RangeLen(n, from, limit)
             k      == Least(fits, m)
             P      == Pullable(sp, hid)
  <1>0. limit \in Nat /\ limit # 0
    BY DEF Greatest
  <1>1. /\ m \in Nat /\ from + m <= Greatest(n, from)
        /\ \E txs : /\ ReadPrincipalTxRange(sp, hid, from, limit) = [txs |-> txs, cursor |-> from + m]
                    /\ IsPart(txs, V, from, m)
    <2>1. limit \in Nat
      BY <1>0
    <2> HIDE DEF limit
    <2> QED
      BY <2>1, RangeProperties, Zenon
  <1>a. PICK txs : /\ ReadPrincipalTxRange(sp, hid, from, limit) = [txs |-> txs, cursor |-> from + m]
                   /\ IsPart(txs, V, from, m)
    BY <1>1
  <1>2. /\ n \in Nat /\ P \in Seq(Frame) /\ Len(P) = n
        /\ \A i \in 1 .. n : P[i] = [cursor |-> i, tx |-> V[i].tx] /\ P[i] \in Frame
    BY PullableProperties
  <1>3. k \in Nat /\ k <= m /\ (m # 0 => k # 0)
    BY <1>1 DEF Least
  <1>4. m # 0 <=> from < n
    BY <1>0, <1>2 DEF RangeLen, Least
  <1>5. pulled.txs = SubSeq(Delta(from, txs), 1, k) /\ pulled.after = from + Len(pulled.txs)
    <2>1. ReadPrincipalTxRange(sp, hid, from, Greatest(1, limitTx)).txs = txs /\ Len(txs) = m
      BY <1>a DEF IsPart
    <2> HIDE DEF m
    <2>2. k = Least(fits, Len(txs))
      BY <2>1
    <2> HIDE DEF k
    <2> QED
      BY <2>1, <2>2, Zenon DEF SyncPull
  <1> HIDE DEF V, limit, m, k, P, n, pulled
  <1>6. Delta(from, txs) \in Seq(Frame) /\ Len(Delta(from, txs)) = m
        /\ \A i \in 1 .. m : Delta(from, txs)[i] = P[from + i]
    <2>1. Delta(from, txs) = [i \in 1 .. m |-> [cursor |-> from + i, tx |-> txs[i].tx]]
      BY <1>a, Zenon DEF Delta, IsPart
    <2>2. \A i \in 1 .. m : [cursor |-> from + i, tx |-> txs[i].tx] = P[from + i] /\ P[from + i] \in Frame
      <3>1. \A i \in 1 .. m : from + i \in 1 .. Len(V) /\ txs[i].tx = V[from + i].tx
        BY <1>a, Zenon DEF IsPart
      <3>2. Len(V) = n
        BY DEF CountVisibleTxs, V, n
      <3>3. \A i \in 1 .. m : P[from + i] = [cursor |-> from + i, tx |-> V[from + i].tx] /\ P[from + i] \in Frame
        BY <1>2, <3>1, <3>2
      <3> QED
        BY <3>1, <3>3
    <2>3. Delta(from, txs) \in [1 .. m -> Frame]
      BY <2>1, <2>2
    <2> QED
      BY <1>1, <2>1, <2>2, <2>3, FunctionIsSeq
  <1>7. pulled.txs \in Seq(Frame) /\ Len(pulled.txs) = k /\ \A i \in 1 .. k : pulled.txs[i] = P[from + i]
    <2>1. 1 \in 1 .. Len(Delta(from, txs)) + 1 /\ k \in 0 .. Len(Delta(from, txs))
      BY <1>1, <1>3, <1>6
    <2>2. /\ pulled.txs \in Seq(Frame) /\ Len(pulled.txs) = k
          /\ \A i \in 1 .. k : pulled.txs[i] = Delta(from, txs)[i]
      BY <1>3, <1>5, <1>6, <2>1, SubSeqProperties
    <2> QED
      BY <1>1, <1>3, <1>6, <2>2
  <1>8. pulled.after = from + k
    BY <1>5, <1>7
  <1>9. ASSUME from <= n
        PROVE  pulled.after <= n /\ pulled.txs = SubSeq(P, from + 1, pulled.after)
    <2>1. from + k \in from .. n
      BY <1>1, <1>2, <1>3, <1>9 DEF Greatest
    <2> DEFINE Q == SubSeq(P, from + 1, from + k)
    <2>2. /\ Q \in Seq(Frame) /\ Len(Q) = k
          /\ \A i \in 1 .. k : Q[i] = P[from + i]
      <3>1. from + 1 \in 1 .. Len(P) + 1 /\ from + k \in from .. Len(P)
        BY <1>2, <1>9, <2>1
      <3> QED
        BY <1>2, <1>3, <3>1, SubSeqProperties
    <2> HIDE DEF Q
    <2>3. Len(pulled.txs) = Len(Q) /\ \A i \in 1 .. Len(pulled.txs) : pulled.txs[i] = Q[i]
      BY <1>7, <2>2
    <2>4. pulled.txs = Q
      BY <1>7, <2>2, <2>3, SeqEqual
    <2> QED
      BY <1>8, <2>1, <2>4 DEF Q
  <1>10. from < n => pulled.txs # <<>> /\ pulled.after > from
    BY <1>3, <1>4, <1>7, <1>8
  <1>11. from >= n => pulled.txs = <<>> /\ pulled.after = from
    <2> SUFFICES ASSUME from >= n PROVE pulled.txs = <<>> /\ pulled.after = from
      OBVIOUS
    <2>1. m = 0 /\ k = 0
      BY <1>1, <1>2, <1>3, <1>4
    <2> QED
      BY <1>7, <1>8, <2>1, EmptySeq
  <1> QED
    BY <1>3, <1>8, <1>9, <1>10, <1>11 DEF P, n, pulled, PullsNext

(* The ids of the visible transactions, in order. *)
SeenIds(sp, hid) == [i \in DOMAIN VisibleTxs(sp, hid) |-> VisibleTxs(sp, hid)[i].tx]

(* They are as many, and the ids that can be pulled.                          *)
LEMMA SeenProperties ==
  ASSUME NEW sp \in Space, NEW hid
  PROVE  /\ SeenIds(sp, hid) \in Seq(TxId)
         /\ Len(SeenIds(sp, hid)) = CountVisibleTxs(sp, hid)
         /\ \A i \in 1 .. CountVisibleTxs(sp, hid) : SeenIds(sp, hid)[i] = VisibleTxs(sp, hid)[i].tx
  <1> DEFINE V == VisibleTxs(sp, hid)
             n == CountVisibleTxs(sp, hid)
  <1>1. n \in Nat /\ DOMAIN V = 1 .. n /\ \A i \in 1 .. n : V[i].tx \in TxId
    BY VisibleType
  <1> HIDE DEF V, n
  <1>2. SeenIds(sp, hid) = [i \in 1 .. n |-> V[i].tx]
    BY <1>1 DEF SeenIds, V
  <1>3. SeenIds(sp, hid) \in [1 .. n -> TxId]
    BY <1>1, <1>2
  <1>4. SeenIds(sp, hid) \in Seq(TxId) /\ Len(SeenIds(sp, hid)) = n
    BY <1>1, <1>3, FunctionIsSeq
  <1> QED
    BY <1>2, <1>4 DEF V, n

(* What can be pulled next, if it is visible. *)
NextFrame(sp, hid, r) == [cursor |-> CountVisibleTxs(sp, hid) + 1, tx |-> r.tx]

(* A hidden transaction changes nothing of what a principal can see or pull;  *)
(* any other comes next.                                                      *)
LEMMA SeenGrows ==
  ASSUME NEW sp \in Space, NEW hid, NEW r \in AppendRequest
  PROVE  /\ r.tx \in hid =>
              /\ SeenIds(AppendTx(sp, r), hid) = SeenIds(sp, hid)
              /\ Pullable(AppendTx(sp, r), hid) = Pullable(sp, hid)
         /\ r.tx \notin hid =>
              /\ SeenIds(AppendTx(sp, r), hid) = Append(SeenIds(sp, hid), r.tx)
              /\ Pullable(AppendTx(sp, r), hid) = Append(Pullable(sp, hid), NextFrame(sp, hid, r))
  <1> DEFINE new == AppendTx(sp, r)
             n   == CountVisibleTxs(sp, hid)
             m   == CountVisibleTxs(new, hid)
             I   == SeenIds(sp, hid)
             J   == SeenIds(new, hid)
             P   == Pullable(sp, hid)
             Q   == Pullable(new, hid)
             x   == NextFrame(sp, hid, r)
  <1>0. new \in Space /\ r.tx \in TxId
    BY AppendTxType DEF AppendRequest
  <1>1. /\ n \in Nat /\ I \in Seq(TxId) /\ Len(I) = n
        /\ \A i \in 1 .. n : I[i] = VisibleTxs(sp, hid)[i].tx
    <2>1. n \in Nat
      BY PullableProperties, Zenon
    <2> QED
      BY <2>1, SeenProperties, Zenon
  <1>2. /\ P \in Seq(Frame) /\ Len(P) = n
        /\ \A i \in 1 .. n : P[i] = [cursor |-> i, tx |-> VisibleTxs(sp, hid)[i].tx]
    BY PullableProperties, Zenon
  <1>3. /\ m = IF r.tx \in hid THEN n ELSE n + 1
        /\ \A k \in 1 .. n : VisibleTxs(new, hid)[k].tx = VisibleTxs(sp, hid)[k].tx
        /\ r.tx \notin hid => VisibleTxs(new, hid)[n + 1].tx = r.tx
    BY VisibleGrows DEF CountVisibleTxs
  <1> HIDE DEF new
  <1>4. /\ m \in Nat /\ J \in Seq(TxId) /\ Len(J) = m
        /\ \A i \in 1 .. m : J[i] = VisibleTxs(new, hid)[i].tx
    <2>1. m \in Nat
      BY <1>0, PullableProperties, Zenon
    <2> QED
      BY <1>0, <2>1, SeenProperties, Zenon
  <1>5. /\ Q \in Seq(Frame) /\ Len(Q) = m
        /\ \A i \in 1 .. m : Q[i] = [cursor |-> i, tx |-> VisibleTxs(new, hid)[i].tx]
    BY <1>0, PullableProperties, Zenon
  <1>6. x \in Frame
    BY <1>0, <1>1 DEF Frame, NextFrame
  <1> HIDE DEF n, m, I, J, P, Q, x
  <1>7. CASE r.tx \in hid
    <2>1. Len(I) = Len(J) /\ \A i \in 1 .. Len(I) : J[i] = I[i]
      BY <1>1, <1>3, <1>4, <1>7
    <2>2. Len(P) = Len(Q) /\ \A i \in 1 .. Len(P) : Q[i] = P[i]
      BY <1>2, <1>3, <1>5, <1>7
    <2>3. J = I
      BY <1>1, <1>4, <2>1, SeqEqual
    <2>4. Q = P
      BY <1>2, <1>5, <2>2, SeqEqual
    <2> QED
      BY <1>7, <2>3, <2>4, Zenon DEF I, J, P, Q, new
  <1>8. CASE r.tx \notin hid
    <2>1. /\ Append(I, r.tx) \in Seq(TxId) /\ Len(Append(I, r.tx)) = n + 1
          /\ \A i \in 1 .. n : Append(I, r.tx)[i] = I[i]
          /\ Append(I, r.tx)[n + 1] = r.tx
      BY <1>0, <1>1, AppendProperties
    <2>2. /\ Append(P, x) \in Seq(Frame) /\ Len(Append(P, x)) = n + 1
          /\ \A i \in 1 .. n : Append(P, x)[i] = P[i]
          /\ Append(P, x)[n + 1] = x
      BY <1>2, <1>6, AppendProperties
    <2>3. m = n + 1 /\ \A i \in 1 .. n + 1 : i \in 1 .. n \/ i = n + 1
      BY <1>1, <1>3, <1>8
    <2>4. \A i \in 1 .. n + 1 : J[i] = Append(I, r.tx)[i]
      BY <1>1, <1>3, <1>4, <1>8, <2>1, <2>3
    <2>5. \A i \in 1 .. n : Q[i] = P[i]
      BY <1>1, <1>2, <1>3, <1>5, <2>3
    <2>6. Q[n + 1] = x
      BY <1>1, <1>3, <1>5, <1>8, <2>3 DEF x, NextFrame, n
    <2>7. \A i \in 1 .. n + 1 : Q[i] = Append(P, x)[i]
      BY <2>2, <2>3, <2>5, <2>6
    <2>8. Len(J) = Len(Append(I, r.tx)) /\ Len(Q) = Len(Append(P, x)) /\ Len(J) = n + 1 /\ Len(Q) = n + 1
      BY <1>4, <1>5, <2>1, <2>2, <2>3
    <2>9. J = Append(I, r.tx)
      BY <1>4, <2>1, <2>4, <2>8, SeqEqual
    <2>10. Q = Append(P, x)
      BY <1>5, <2>2, <2>7, <2>8, SeqEqual
    <2> QED
      BY <1>8, <2>9, <2>10, Zenon DEF I, J, P, Q, x, new
  <1> QED
    BY <1>7, <1>8

(* Nothing can be seen of an empty space. *)
LEMMA NothingYet ==
  ASSUME NEW hid
  PROVE  /\ CountVisibleTxs(EmptySpace, hid) = 0
         /\ SeenIds(EmptySpace, hid) = <<>> /\ Pullable(EmptySpace, hid) = <<>>
  <1>1. Len(EmptySpace.txIndex) = 0
    BY DEF EmptySpace
  <1>2. EmptySpace \in Space
    BY EmptySpaceType
  <1> DEFINE n == CountVisibleTxs(EmptySpace, hid)
  <1>3. n \in Nat
    BY <1>2, PullableProperties
  <1>a. ASSUME NEW k \in 1 .. n PROVE \E i \in 1 .. Len(EmptySpace.txIndex) : TRUE
    <2>1. \E i \in 1 .. Len(EmptySpace.txIndex) :
             VisibleTxs(EmptySpace, hid)[k].tx = EmptySpace.txIndex[i].tx
      BY <1>2, VisibleType
    <2> QED
      BY <2>1
  <1> HIDE DEF n
  <1>4. n = 0
    <2> SUFFICES ASSUME n # 0 PROVE FALSE
      OBVIOUS
    <2>1. 1 \in 1 .. n
      BY <1>3
    <2>2. PICK i \in 1 .. Len(EmptySpace.txIndex) : TRUE
      BY <1>a, <2>1, Zenon
    <2> QED
      BY <1>1, <2>2
  <1>5. SeenIds(EmptySpace, hid) \in Seq(TxId) /\ Len(SeenIds(EmptySpace, hid)) = 0
    BY <1>2, <1>4, SeenProperties DEF n
  <1>6. Pullable(EmptySpace, hid) \in Seq(Frame) /\ Len(Pullable(EmptySpace, hid)) = 0
    BY <1>2, <1>4, PullableProperties DEF n
  <1> QED
    BY <1>4, <1>5, <1>6, EmptySeq DEF n
=============================================================================
