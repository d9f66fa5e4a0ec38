--------------------------- MODULE EventLog_proofs ---------------------------
(* Lemmas about the contents of a graph space and the operations on it.      *)
EXTENDS EventLog, TLAPS, SequenceTheorems, FiniteSetTheorems, WellFoundedInduction

-----------------------------------------------------------------------------
(* Naturals *)

(* A non-empty set of naturals has a least element. *)
LEMMA LeastOf ==
  ASSUME NEW S \in SUBSET Nat, S # {}
  PROVE  \E k \in S : \A j \in S : k <= j
  <1>1. PICK k \in S : \A j \in S : ~(<<j, k>> \in OpToRel(<, Nat))
    BY NatLessThanWellFounded, WFMin, Zenon
  <1>2. \A j \in S : ~(j < k)
    BY <1>1, Zenon DEF OpToRel
  <1> QED
    BY <1>2

(* A set of naturals that has 0, and with a number the next, has them all.  *)
LEMMA NatInduct ==
  ASSUME NEW S, 0 \in S, \A n \in Nat : n \in S => n + 1 \in S
  PROVE  \A n \in Nat : n \in S
  <1> SUFFICES ASSUME Nat \ S # {} PROVE FALSE
    OBVIOUS
  <1>1. PICK k \in Nat \ S : \A j \in Nat \ S : k <= j
    BY LeastOf
  <1>2. k # 0 /\ k - 1 \in Nat
    BY <1>1
  <1>3. k - 1 \in S
    BY <1>1, <1>2
  <1> QED
    BY <1>1, <1>2, <1>3

(* The elements of a finite set can be counted. *)
LEMMA Enumerated ==
  ASSUME NEW S, IsFiniteSet(S)
  PROVE  /\ Cardinality(S) \in Nat
         /\ \E f \in [1 .. Cardinality(S) -> S] :
              \A i, j \in 1 .. Cardinality(S) : f[i] = f[j] => i = j
  <1>1. Cardinality(S) \in Nat /\ ExistsBijection(1 .. Cardinality(S), S)
    BY FS_CardinalityType
  <1>2. PICK f : f \in Injection(1 .. Cardinality(S), S)
    BY <1>1 DEF ExistsBijection, Bijection
  <1>3. /\ f \in [1 .. Cardinality(S) -> S]
        /\ \A i, j \in 1 .. Cardinality(S) : f[i] = f[j] => i = j
    BY <1>2 DEF Injection, IsInjective
  <1> QED
    BY <1>1, <1>3, Zenon

(* A set that is numbered from 1 to n, each element once, has n elements. *)
LEMMA NumberedSet ==
  ASSUME NEW S, NEW n \in Nat, NEW f \in [1 .. n -> S],
         \A i, j \in 1 .. n : f[i] = f[j] => i = j,
         \A x \in S : \E i \in 1 .. n : f[i] = x
  PROVE  Cardinality(S) = n
  <1>1. f \in Injection(1 .. n, S) /\ f \in Surjection(1 .. n, S)
    BY DEF Injection, IsInjective, Surjection
  <1>2. ExistsBijection(1 .. n, S)
    BY <1>1 DEF ExistsBijection, Bijection
  <1> QED
    BY <1>2, FS_CountingElements

(* What a function makes of the elements of a finite set is finite. *)
LEMMA FiniteImage ==
  ASSUME NEW S, IsFiniteSet(S), NEW f
  PROVE  IsFiniteSet({f[x] : x \in S})
  <1> DEFINE T == {f[x] : x \in S}
             g == [x \in S |-> f[x]]
  <1>1. g \in Surjection(S, T)
    BY DEF Surjection
  <1> HIDE DEF g, T
  <1>2. IsFiniteSet(T)
    BY <1>1, FS_Surjection
  <1> QED
    BY <1>2 DEF T

-----------------------------------------------------------------------------
(* Lemmas about sequences and about appendTx *)

(* A function on 1 .. n is a sequence of length n. *)
LEMMA FunctionIsSeq ==
  ASSUME NEW S, NEW n \in Nat, NEW f \in [1 .. n -> S]
  PROVE  f \in Seq(S) /\ Len(f) = n /\ DOMAIN f = 1 .. n
  OBVIOUS

(* The first k elements of a sequence, which stay the first when it grows.    *)
LEMMA PrefixProperties ==
  ASSUME NEW S, NEW s \in Seq(S), NEW k \in 0 .. Len(s)
  PROVE  /\ SubSeq(s, 1, k) \in Seq(S) /\ Len(SubSeq(s, 1, k)) = k
         /\ \A i \in 1 .. k : SubSeq(s, 1, k)[i] = s[i]
  <1>1. 1 \in Int /\ k \in Int /\ k \in Nat /\ \A i \in 1 .. k : s[i] \in S
    OBVIOUS
  <1>2. /\ SubSeq(s, 1, k) \in Seq(S)
        /\ Len(SubSeq(s, 1, k)) = IF 1 <= k THEN k - 1 + 1 ELSE 0
        /\ \A i \in 1 .. (k - 1 + 1) : SubSeq(s, 1, k)[i] = s[1 + i - 1]
    BY <1>1, SubSeqProperties
  <1> QED
    BY <1>1, <1>2

(* The first k + 1 elements are the first k and the next.                     *)
LEMMA PrefixNext ==
  ASSUME NEW S, NEW s \in Seq(S), NEW k \in Nat, k + 1 <= Len(s)
  PROVE  SubSeq(s, 1, k + 1) = Append(SubSeq(s, 1, k), s[k + 1])
  <1>1. k \in 0 .. Len(s) /\ k + 1 \in 0 .. Len(s) /\ s[k + 1] \in S
    OBVIOUS
  <1>2. /\ SubSeq(s, 1, k) \in Seq(S) /\ Len(SubSeq(s, 1, k)) = k
        /\ \A i \in 1 .. k : SubSeq(s, 1, k)[i] = s[i]
    BY <1>1, PrefixProperties
  <1>3. /\ SubSeq(s, 1, k + 1) \in Seq(S) /\ Len(SubSeq(s, 1, k + 1)) = k + 1
        /\ \A i \in 1 .. k + 1 : SubSeq(s, 1, k + 1)[i] = s[i]
    BY <1>1, PrefixProperties
  <1> DEFINE t == Append(SubSeq(s, 1, k), s[k + 1])
  <1>4. t \in Seq(S) /\ Len(t) = k + 1 /\ t[k + 1] = s[k + 1] /\ \A i \in 1 .. k : t[i] = s[i]
    BY <1>1, <1>2, AppendProperties
  <1>5. \A i \in 1 .. k + 1 : i \in 1 .. k \/ i = k + 1
    OBVIOUS
  <1> HIDE DEF t
  <1>6. Len(SubSeq(s, 1, k + 1)) = Len(t)
        /\ \A i \in 1 .. Len(SubSeq(s, 1, k + 1)) : SubSeq(s, 1, k + 1)[i] = t[i]
    BY <1>3, <1>4, <1>5
  <1>7. SubSeq(s, 1, k + 1) = t
    BY <1>3, <1>4, <1>6, SeqEqual
  <1> QED
    BY <1>7 DEF t

(* What is appended does not change a prefix.                                 *)
LEMMA PrefixOfAppend ==
  ASSUME NEW S, NEW s \in Seq(S), NEW x \in S, NEW k \in 0 .. Len(s)
  PROVE  SubSeq(Append(s, x), 1, k) = SubSeq(s, 1, k)
  <1>1. Append(s, x) \in Seq(S) /\ k \in 0 .. Len(Append(s, x))
        /\ \A i \in 1 .. k : Append(s, x)[i] = s[i]
    BY AppendProperties
  <1> DEFINE t == SubSeq(Append(s, x), 1, k)
             u == SubSeq(s, 1, k)
  <1>2. t \in Seq(S) /\ Len(t) = k /\ \A i \in 1 .. k : t[i] = Append(s, x)[i]
    BY <1>1, PrefixProperties
  <1>3. u \in Seq(S) /\ Len(u) = k /\ \A i \in 1 .. k : u[i] = s[i]
    BY PrefixProperties
  <1> HIDE DEF t, u
  <1>4. Len(t) = Len(u) /\ \A i \in 1 .. Len(t) : t[i] = u[i]
    BY <1>1, <1>2, <1>3
  <1>5. t = u
    BY <1>2, <1>3, <1>4, SeqEqual
  <1> QED
    BY <1>5 DEF t, u

(* The events appendTx makes for a stream, numbered on from its length. *)
LEMMA BatchProperties ==
  ASSUME NEW sp \in Space, NEW r \in AppendRequest, NEW s \in Streams
  PROVE  /\ Len(sp.ev[s]) \in Nat /\ r.n[s] \in Nat
         /\ Batch(sp, r, s) \in Seq(Event)
         /\ Len(Batch(sp, r, s)) = r.n[s]
         /\ \A i \in 1 .. r.n[s] :
              Batch(sp, r, s)[i] = [seq |-> Len(sp.ev[s]) + i, tx |-> r.tx, n |-> i]
  <1>1. r.n[s] \in Nat /\ Len(sp.ev[s]) \in Nat /\ r.tx \in TxId
    BY DEF Space, AppendRequest, Cursor
  <1>2. Batch(sp, r, s) \in [1 .. r.n[s] -> Event]
    BY <1>1 DEF Batch, Event
  <1>3. \A i \in 1 .. r.n[s] :
           Batch(sp, r, s)[i] = [seq |-> Len(sp.ev[s]) + i, tx |-> r.tx, n |-> i]
    BY <1>1 DEF Batch
  <1> QED
    BY <1>1, <1>2, <1>3, FunctionIsSeq

(* appendTx maps a space to a space. *)
LEMMA AppendTxType ==
  ASSUME NEW sp \in Space, NEW r \in AppendRequest
  PROVE  AppendTx(sp, r) \in Space
  <1>1. EntryOf(sp, r) \in Entry
    BY DEF EntryOf, Space, AppendRequest, Entry, Cursor, Streams
  <1>2. \A s \in Streams : sp.ev[s] \o Batch(sp, r, s) \in Seq(Event)
    BY BatchProperties DEF Space
  <1>3. Append(sp.txIndex, EntryOf(sp, r)) \in Seq(Entry)
    BY <1>1 DEF Space
  <1>4. OutcomeOf(sp, r) \in Outcome
    BY DEF OutcomeOf, ReceiptOf, Space, AppendRequest, Receipt, Cursor, Streams, Outcome
  <1>5. sp.idem \cup {OutcomeOf(sp, r)} \in SUBSET Outcome
    BY <1>4 DEF Space
  <1> QED
    BY <1>2, <1>3, <1>5 DEF AppendTx, Space

(* The empty space is a space. *)
LEMMA EmptySpaceType == EmptySpace \in Space
  BY DEF EmptySpace, Space

(* What appendTx adds: an entry that ends at the new head, and one outcome.  *)
LEMMA AppendTxEffect ==
  ASSUME NEW sp \in Space, NEW r \in AppendRequest
  PROVE  /\ Len(AppendTx(sp, r).txIndex) = Len(sp.txIndex) + 1
         /\ \A i \in 1 .. Len(sp.txIndex) : AppendTx(sp, r).txIndex[i] = sp.txIndex[i]
         /\ AppendTx(sp, r).txIndex[Len(sp.txIndex) + 1] = EntryOf(sp, r)
         /\ \A s \in Streams : Len(AppendTx(sp, r).ev[s]) = Len(sp.ev[s]) + r.n[s]
         /\ AppendTx(sp, r).idem = sp.idem \cup {OutcomeOf(sp, r)}
  <1>1. sp.txIndex \in Seq(Entry) /\ sp.ev \in [Streams -> Seq(Event)]
    BY DEF Space
  <1>2. AppendTx(sp, r).txIndex = Append(sp.txIndex, EntryOf(sp, r))
    BY DEF AppendTx
  <1>3. \A s \in Streams : Len(AppendTx(sp, r).ev[s]) = Len(sp.ev[s]) + r.n[s]
    <2> SUFFICES ASSUME NEW s \in Streams
                 PROVE  Len(AppendTx(sp, r).ev[s]) = Len(sp.ev[s]) + r.n[s]
      OBVIOUS
    <2>1. AppendTx(sp, r).ev[s] = sp.ev[s] \o Batch(sp, r, s)
      BY DEF AppendTx
    <2>2. sp.ev[s] \in Seq(Event) /\ Batch(sp, r, s) \in Seq(Event) /\ Len(Batch(sp, r, s)) = r.n[s]
      BY <1>1, BatchProperties
    <2>3. Len(sp.ev[s] \o Batch(sp, r, s)) = Len(sp.ev[s]) + Len(Batch(sp, r, s))
      BY <2>2, ConcatProperties
    <2> QED
      BY <2>1, <2>2, <2>3, Zenon
  <1>4. AppendTx(sp, r).idem = sp.idem \cup {OutcomeOf(sp, r)}
    BY DEF AppendTx
  <1> QED
    BY <1>1, <1>2, <1>3, <1>4

(* The events of an appended space: the old ones, then the batch. *)
LEMMA AppendTxEvents ==
  ASSUME NEW sp \in Space, NEW r \in AppendRequest, NEW s \in Streams
  PROVE  /\ \A q \in 1 .. Len(sp.ev[s]) : AppendTx(sp, r).ev[s][q] = sp.ev[s][q]
         /\ \A q \in Len(sp.ev[s]) + 1 .. Len(sp.ev[s]) + r.n[s] :
              AppendTx(sp, r).ev[s][q] = [seq |-> q, tx |-> r.tx, n |-> q - Len(sp.ev[s])]
  <1> DEFINE old == sp.ev[s]
             new == Batch(sp, r, s)
  <1>1. /\ old \in Seq(Event) /\ new \in Seq(Event) /\ Len(old) \in Nat /\ Len(new) = r.n[s]
        /\ r.n[s] \in Nat
        /\ \A i \in 1 .. r.n[s] : new[i] = [seq |-> Len(old) + i, tx |-> r.tx, n |-> i]
    BY BatchProperties DEF Space
  <1>2. AppendTx(sp, r).ev[s] = old \o new
    BY DEF AppendTx
  <1> HIDE DEF old, new
  <1>3. \A q \in 1 .. Len(old) + Len(new) :
           (old \o new)[q] = IF q <= Len(old) THEN old[q] ELSE new[q - Len(old)]
    BY <1>1, ConcatProperties
  <1>4. \A q \in 1 .. Len(old) : (old \o new)[q] = old[q]
    BY <1>1, <1>3
  <1>5. \A q \in Len(old) + 1 .. Len(old) + r.n[s] :
           (old \o new)[q] = [seq |-> q, tx |-> r.tx, n |-> q - Len(old)]
    <2> SUFFICES ASSUME NEW q \in Len(old) + 1 .. Len(old) + r.n[s]
                 PROVE  (old \o new)[q] = [seq |-> q, tx |-> r.tx, n |-> q - Len(old)]
      OBVIOUS
    <2>1. q - Len(old) \in 1 .. r.n[s] /\ Len(old) + (q - Len(old)) = q
      BY <1>1
    <2>2. (old \o new)[q] = new[q - Len(old)]
      BY <1>1, <1>3
    <2> QED
      BY <1>1, <2>1, <2>2
  <1> QED
    BY <1>2, <1>4, <1>5 DEF old

-----------------------------------------------------------------------------
(* Filters *)

(* What the recursion of a filter makes of f: at i, what is kept of the first *)
(* i elements of s, those at the positions in at.                             *)
FilterBody(f, s, at, D) ==
  [i \in D |-> IF i = 0 THEN <<>> ELSE IF i \in at THEN Append(f[i - 1], s[i]) ELSE f[i - 1]]

(* Up to any position, the recursion of a filter has a solution. *)
LEMMA PartialFilter ==
  ASSUME NEW s, NEW at
  PROVE  \A m \in Nat : \E g : g = FilterBody(g, s, at, 0 .. m)
  <1> DEFINE S == {n \in Nat : \E g : g = FilterBody(g, s, at, 0 .. n)}
  <1>1. 0 \in S
    <2>1. [i \in 0 .. 0 |-> <<>>] = FilterBody([i \in 0 .. 0 |-> <<>>], s, at, 0 .. 0)
      BY DEF FilterBody
    <2> QED
      BY <2>1
  <1>2. ASSUME NEW n \in Nat, n \in S PROVE n + 1 \in S
    <2>1. PICK g : g = FilterBody(g, s, at, 0 .. n)
      BY <1>2
    <2> DEFINE h == [i \in 0 .. (n + 1) |->
                       IF i <= n THEN g[i] ELSE IF i \in at THEN Append(g[n], s[i]) ELSE g[n]]
    <2>2. ASSUME NEW i \in 0 .. (n + 1)
          PROVE  h[i] = IF i = 0 THEN <<>> ELSE IF i \in at THEN Append(h[i - 1], s[i]) ELSE h[i - 1]
      <3>1. i # 0 => i - 1 \in 0 .. n /\ h[i - 1] = g[i - 1]
        OBVIOUS
      <3>2. CASE i <= n
        <4>1. g[i] = IF i = 0 THEN <<>> ELSE IF i \in at THEN Append(g[i - 1], s[i]) ELSE g[i - 1]
          <5>1. i \in 0 .. n
            BY <3>2
          <5> QED
            BY <2>1, <5>1, Zenon DEF FilterBody
        <4> QED
          BY <3>1, <3>2, <4>1
      <3>3. CASE i = n + 1
        BY <3>1, <3>3
      <3> QED
        BY <3>2, <3>3
    <2>3. h = FilterBody(h, s, at, 0 .. (n + 1))
      <3>1. h = [i \in 0 .. (n + 1) |-> h[i]]
        OBVIOUS
      <3> HIDE DEF h
      <3> QED
        BY <2>2, <3>1, Zenon DEF FilterBody
    <2> QED
      BY <2>3
  <1> HIDE DEF S
  <1>3. \A m \in Nat : m \in S
    BY <1>1, <1>2, NatInduct
  <1> QED
    BY <1>3 DEF S

(* Two such functions agree where both are defined. *)
LEMMA FiltersAgree ==
  ASSUME NEW s, NEW at, NEW D, NEW E, NEW f, NEW g, NEW m \in Nat,
         0 .. m \subseteq D, 0 .. m \subseteq E,
         f = FilterBody(f, s, at, D), g = FilterBody(g, s, at, E)
  PROVE  \A i \in 0 .. m : f[i] = g[i]
  <1> DEFINE S == {n \in Nat : n <= m => f[n] = g[n]}
  <1>1. 0 \in S
    <2>1. 0 \in D /\ 0 \in E
      OBVIOUS
    <2>2. f[0] = <<>> /\ g[0] = <<>>
      BY <2>1 DEF FilterBody
    <2> QED
      BY <2>2
  <1>2. ASSUME NEW n \in Nat, n \in S PROVE n + 1 \in S
    <2> SUFFICES ASSUME n + 1 <= m PROVE f[n + 1] = g[n + 1]
      OBVIOUS
    <2>1. n + 1 \in D /\ n + 1 \in E /\ f[n] = g[n] /\ n + 1 # 0 /\ (n + 1) - 1 = n
      BY <1>2
    <2>2. /\ f[n + 1] = IF n + 1 \in at THEN Append(f[n], s[n + 1]) ELSE f[n]
          /\ g[n + 1] = IF n + 1 \in at THEN Append(g[n], s[n + 1]) ELSE g[n]
      BY <2>1 DEF FilterBody
    <2> QED
      BY <2>1, <2>2
  <1> HIDE DEF S
  <1>3. \A i \in Nat : i \in S
    BY <1>1, <1>2, NatInduct
  <1> QED
    BY <1>3 DEF S

(* The recursion of a filter has a solution. *)
LEMMA FilterDefined ==
  ASSUME NEW s, NEW at
  PROVE  \E f : f = FilterBody(f, s, at, Nat)
  <1> DEFINE G(m) == CHOOSE g : g = FilterBody(g, s, at, 0 .. m)
             f    == [i \in Nat |-> G(i)[i]]
  <1>1. \A m \in Nat : G(m) = FilterBody(G(m), s, at, 0 .. m)
    BY PartialFilter, Zenon
  <1>2. ASSUME NEW i \in Nat
        PROVE  f[i] = IF i = 0 THEN <<>> ELSE IF i \in at THEN Append(f[i - 1], s[i]) ELSE f[i - 1]
    <2>1. G(i)[i] = IF i = 0 THEN <<>> ELSE IF i \in at THEN Append(G(i)[i - 1], s[i]) ELSE G(i)[i - 1]
      <3>1. i \in 0 .. i
        OBVIOUS
      <3>2. G(i) = FilterBody(G(i), s, at, 0 .. i)
        BY <1>1
      <3> HIDE DEF G
      <3> QED
        BY <3>1, <3>2, Zenon DEF FilterBody
    <2>2. i # 0 => G(i)[i - 1] = G(i - 1)[i - 1]
      <3> SUFFICES ASSUME i # 0 PROVE G(i)[i - 1] = G(i - 1)[i - 1]
        OBVIOUS
      <3>1. i - 1 \in Nat /\ 0 .. (i - 1) \subseteq 0 .. i /\ i - 1 \in 0 .. (i - 1)
        OBVIOUS
      <3>2. G(i) = FilterBody(G(i), s, at, 0 .. i) /\ G(i - 1) = FilterBody(G(i - 1), s, at, 0 .. (i - 1))
        BY <1>1, <3>1
      <3> HIDE DEF G
      <3>3. \A j \in 0 .. (i - 1) : G(i)[j] = G(i - 1)[j]
        BY <3>1, <3>2, FiltersAgree
      <3> QED
        BY <3>1, <3>3
    <2>3. f[i] = G(i)[i] /\ (i # 0 => f[i - 1] = G(i - 1)[i - 1])
      <3> HIDE DEF G
      <3> QED
        OBVIOUS
    <2> HIDE DEF f, G
    <2> QED
      BY <2>1, <2>2, <2>3
  <1>3. f = [i \in Nat |-> f[i]]
    <2> HIDE DEF G
    <2> QED
      OBVIOUS
  <1> HIDE DEF f
  <1>4. f = FilterBody(f, s, at, Nat)
    BY <1>2, <1>3, Zenon DEF FilterBody
  <1> QED
    BY <1>4

(* What a filter has kept of the first n elements: elements of s that are in at.  *)
LEMMA FilterType ==
  ASSUME NEW s, NEW at, NEW f, f = FilterBody(f, s, at, Nat),
         NEW n \in Nat, NEW S, \A i \in 1 .. n : i \in at => s[i] \in S
  PROVE  \A i \in 0 .. n : f[i] \in Seq(S)
  <1> DEFINE M == {i \in Nat : i <= n => f[i] \in Seq(S)}
  <1>1. 0 \in M
    <2>1. f[0] = <<>>
      BY DEF FilterBody
    <2> QED
      BY <2>1, EmptySeq
  <1>2. ASSUME NEW i \in Nat, i \in M PROVE i + 1 \in M
    <2> SUFFICES ASSUME i + 1 <= n PROVE f[i + 1] \in Seq(S)
      OBVIOUS
    <2>1. f[i] \in Seq(S) /\ i + 1 \in Nat /\ i + 1 # 0 /\ (i + 1) - 1 = i /\ i + 1 \in 1 .. n
      BY <1>2
    <2>2. f[i + 1] = IF i + 1 \in at THEN Append(f[i], s[i + 1]) ELSE f[i]
      BY <2>1 DEF FilterBody
    <2> QED
      BY <2>1, <2>2, AppendProperties
  <1> HIDE DEF M
  <1>3. \A i \in Nat : i \in M
    BY <1>1, <1>2, NatInduct
  <1> QED
    BY <1>3 DEF M

(* A filter keeps at most what there is. *)
LEMMA FilterLen ==
  ASSUME NEW s, NEW at, NEW f, f = FilterBody(f, s, at, Nat)
  PROVE  \A n \in Nat : Len(f[n]) \in Nat /\ Len(f[n]) <= n
  <1> DEFINE S == {s[i] : i \in Nat}
             M == {n \in Nat : Len(f[n]) <= n}
  <1>1. \A n \in Nat : f[n] \in Seq(S)
    <2> SUFFICES ASSUME NEW n \in Nat PROVE f[n] \in Seq(S)
      OBVIOUS
    <2>1. \A j \in 1 .. n : s[j] \in S
      OBVIOUS
    <2> HIDE DEF S
    <2>2. \A j \in 0 .. n : f[j] \in Seq(S)
      BY <2>1, FilterType
    <2> QED
      BY <2>2
  <1> HIDE DEF S
  <1>2. 0 \in M
    <2>1. f[0] = <<>>
      BY DEF FilterBody
    <2> QED
      BY <2>1
  <1>3. ASSUME NEW n \in Nat, n \in M PROVE n + 1 \in M
    <2>1. n + 1 \in Nat /\ n + 1 # 0 /\ (n + 1) - 1 = n /\ Len(f[n]) <= n /\ f[n] \in Seq(S)
      BY <1>1, <1>3
    <2>2. f[n + 1] = IF n + 1 \in at THEN Append(f[n], s[n + 1]) ELSE f[n]
      BY <2>1 DEF FilterBody
    <2>3. Len(f[n]) \in Nat /\ Len(Append(f[n], s[n + 1])) = Len(f[n]) + 1
      BY <2>1, AppendProperties
    <2>4. Len(f[n + 1]) <= n + 1
      BY <2>1, <2>2, <2>3
    <2> QED
      BY <2>4
  <1> HIDE DEF M
  <1>4. \A n \in Nat : n \in M
    BY <1>2, <1>3, NatInduct
  <1> QED
    BY <1>1, <1>4 DEF M

(* Two filters of sequences that look alike keep elements that look alike. *)
LEMMA FilterAlike ==
  ASSUME NEW s, NEW at, NEW f, f = FilterBody(f, s, at, Nat),
         NEW t, NEW bt, NEW g, g = FilterBody(g, t, bt, Nat),
         NEW n \in Nat,
         \A i \in 1 .. n : (i \in at <=> i \in bt) /\ s[i].tx = t[i].tx
  PROVE  Len(f[n]) = Len(g[n]) /\ \A k \in 1 .. Len(f[n]) : f[n][k].tx = g[n][k].tx
  <1> DEFINE S == {s[i] : i \in Nat} \cup {t[i] : i \in Nat}
             M == {i \in Nat : i <= n => /\ Len(f[i]) = Len(g[i])
                                         /\ \A k \in 1 .. Len(f[i]) : f[i][k].tx = g[i][k].tx}
  <1>0. \A i \in Nat : f[i] \in Seq(S) /\ g[i] \in Seq(S)
    <2> SUFFICES ASSUME NEW i \in Nat PROVE f[i] \in Seq(S) /\ g[i] \in Seq(S)
      OBVIOUS
    <2>1. \A j \in 1 .. i : s[j] \in S /\ t[j] \in S
      OBVIOUS
    <2> HIDE DEF S
    <2>2. \A j \in 0 .. i : f[j] \in Seq(S)
      BY <2>1, FilterType
    <2>3. \A j \in 0 .. i : g[j] \in Seq(S)
      BY <2>1, FilterType
    <2> QED
      BY <2>2, <2>3
  <1>1. 0 \in M
    <2>1. f[0] = <<>> /\ g[0] = <<>>
      BY DEF FilterBody
    <2> QED
      BY <2>1
  <1>2. ASSUME NEW i \in Nat, i \in M PROVE i + 1 \in M
    <2> SUFFICES ASSUME i + 1 <= n
                 PROVE  /\ Len(f[i + 1]) = Len(g[i + 1])
                        /\ \A k \in 1 .. Len(f[i + 1]) : f[i + 1][k].tx = g[i + 1][k].tx
      OBVIOUS
    <2>1. i + 1 \in Nat /\ i + 1 # 0 /\ (i + 1) - 1 = i /\ i + 1 \in 1 .. n
      BY <1>2
    <2>2. Len(f[i]) = Len(g[i]) /\ \A k \in 1 .. Len(f[i]) : f[i][k].tx = g[i][k].tx
      BY <1>2
    <2>3. /\ f[i + 1] = IF i + 1 \in at THEN Append(f[i], s[i + 1]) ELSE f[i]
          /\ g[i + 1] = IF i + 1 \in bt THEN Append(g[i], t[i + 1]) ELSE g[i]
      BY <2>1 DEF FilterBody
    <2>4. (i + 1 \in at <=> i + 1 \in bt) /\ s[i + 1].tx = t[i + 1].tx
      BY <2>1
    <2>5. s[i + 1] \in S /\ t[i + 1] \in S /\ f[i] \in Seq(S) /\ g[i] \in Seq(S)
      BY <1>0, <2>1
    <2> HIDE DEF S, M
    <2>6. /\ Len(Append(f[i], s[i + 1])) = Len(f[i]) + 1
          /\ \A k \in 1 .. Len(f[i]) : Append(f[i], s[i + 1])[k] = f[i][k]
          /\ Append(f[i], s[i + 1])[Len(f[i]) + 1] = s[i + 1]
      BY <2>5, AppendProperties
    <2>7. /\ Len(Append(g[i], t[i + 1])) = Len(g[i]) + 1
          /\ \A k \in 1 .. Len(g[i]) : Append(g[i], t[i + 1])[k] = g[i][k]
          /\ Append(g[i], t[i + 1])[Len(g[i]) + 1] = t[i + 1]
      BY <2>5, AppendProperties
    <2>8. Len(f[i]) \in Nat /\ Len(g[i]) \in Nat
      BY <2>5
    <2>9. CASE i + 1 \in at
      <3>1. f[i + 1] = Append(f[i], s[i + 1]) /\ g[i + 1] = Append(g[i], t[i + 1])
        BY <2>3, <2>4, <2>9
      <3>2. \A k \in 1 .. (Len(f[i]) + 1) : k \in 1 .. Len(f[i]) \/ k = Len(f[i]) + 1
        BY <2>8
      <3> QED
        BY <2>2, <2>4, <2>6, <2>7, <3>1, <3>2
    <2>10. CASE i + 1 \notin at
      BY <2>2, <2>3, <2>4, <2>10
    <2> QED
      BY <2>9, <2>10
  <1> HIDE DEF M
  <1>3. \A i \in Nat : i \in M
    BY <1>1, <1>2, NatInduct
  <1> QED
    BY <1>3 DEF M

(* p tells where the elements g that a filter keeps were. *)
FilterPlaces(p, g, s, at, n) ==
  /\ p \in [1 .. Len(g) -> 1 .. n]
  /\ \A k \in 1 .. Len(g) : p[k] \in at /\ g[k] = s[p[k]]
  /\ \A k, l \in 1 .. Len(g) : k < l => p[k] < p[l]
  /\ \A i \in 1 .. n : i \in at => \E k \in 1 .. Len(g) : p[k] = i

(* They were in the same order, and they are all those at the positions in at. *)
LEMMA FilterPositions ==
  ASSUME NEW s, NEW at, NEW f, f = FilterBody(f, s, at, Nat)
  PROVE  \A n \in Nat : \E p : FilterPlaces(p, f[n], s, at, n)
  <1> DEFINE S == {s[i] : i \in Nat}
             M == {n \in Nat : \E p : FilterPlaces(p, f[n], s, at, n)}
  <1>0. \A n \in Nat : f[n] \in Seq(S)
    <2> SUFFICES ASSUME NEW n \in Nat PROVE f[n] \in Seq(S)
      OBVIOUS
    <2>1. \A j \in 1 .. n : s[j] \in S
      OBVIOUS
    <2> HIDE DEF S
    <2>2. \A j \in 0 .. n : f[j] \in Seq(S)
      BY <2>1, FilterType
    <2> QED
      BY <2>2
  <1>1. 0 \in M
    <2>1. f[0] = <<>>
      BY DEF FilterBody
    <2>2. FilterPlaces(<<>>, f[0], s, at, 0)
      BY <2>1 DEF FilterPlaces
    <2> QED
      BY <2>2
  <1>2. ASSUME NEW n \in Nat, n \in M PROVE n + 1 \in M
    <2>1. PICK p : FilterPlaces(p, f[n], s, at, n)
      BY <1>2
    <2>2. f[n + 1] = IF n + 1 \in at THEN Append(f[n], s[n + 1]) ELSE f[n]
      <3>1. n + 1 \in Nat /\ n + 1 # 0 /\ (n + 1) - 1 = n
        OBVIOUS
      <3> QED
        BY <3>1 DEF FilterBody
    <2>3. f[n] \in Seq(S) /\ s[n + 1] \in S /\ Len(f[n]) \in Nat
      BY <1>0
    <2> DEFINE m == Len(f[n])
    <2>4. CASE n + 1 \in at
      <3> DEFINE g == Append(f[n], s[n + 1])
                 q == [k \in 1 .. m + 1 |-> IF k <= m THEN p[k] ELSE n + 1]
      <3> HIDE DEF S
      <3>1. /\ Len(g) = m + 1
            /\ \A k \in 1 .. m : g[k] = f[n][k]
            /\ g[m + 1] = s[n + 1]
        BY <2>3, AppendProperties
      <3>2. \A k \in 1 .. m : q[k] = p[k] /\ p[k] \in 1 .. n
        <4>1. \A k \in 1 .. m : k \in 1 .. m + 1 /\ k <= m
          BY <2>3
        <4>2. \A k \in 1 .. m : p[k] \in 1 .. n
          BY <2>1 DEF FilterPlaces
        <4> HIDE DEF m
        <4> QED
          BY <4>1, <4>2
      <3>3. q[m + 1] = n + 1 /\ \A k \in 1 .. m + 1 : k \in 1 .. m \/ k = m + 1
        BY <2>3
      <3>4. q \in [1 .. m + 1 -> 1 .. n + 1]
        BY <2>1, <2>3 DEF FilterPlaces
      <3> HIDE DEF g, q, m
      <3>5. \A k \in 1 .. m + 1 : q[k] \in at /\ g[k] = s[q[k]]
        BY <2>1, <2>4, <3>1, <3>2, <3>3 DEF FilterPlaces, m
      <3>6. \A k, l \in 1 .. m + 1 : k < l => q[k] < q[l]
        <4> SUFFICES ASSUME NEW k \in 1 .. m + 1, NEW l \in 1 .. m + 1, k < l
                     PROVE  q[k] < q[l]
          OBVIOUS
        <4>0. m \in Nat
          BY <2>3 DEF m
        <4>1. k \in 1 .. m
          BY <4>0
        <4>2. CASE l = m + 1
          BY <3>2, <3>3, <4>1, <4>2
        <4>3. CASE l \in 1 .. m
          BY <2>1, <3>2, <4>1, <4>3 DEF FilterPlaces, m
        <4> QED
          BY <3>3, <4>2, <4>3
      <3>7. \A i \in 1 .. n + 1 : i \in at => \E k \in 1 .. m + 1 : q[k] = i
        <4> SUFFICES ASSUME NEW i \in 1 .. n + 1, i \in at
                     PROVE  \E k \in 1 .. m + 1 : q[k] = i
          OBVIOUS
        <4>0. m \in Nat
          BY <2>3 DEF m
        <4>1. CASE i = n + 1
          BY <3>3, <4>0, <4>1
        <4>2. CASE i \in 1 .. n
          <5>1. PICK k \in 1 .. m : p[k] = i
            BY <2>1, <4>2 DEF FilterPlaces, m
          <5>2. k \in 1 .. m + 1
            BY <4>0, <5>1
          <5> QED
            BY <3>2, <5>1, <5>2
        <4> QED
          BY <4>1, <4>2
      <3>8. f[n + 1] = g
        BY <2>2, <2>4 DEF g
      <3>9. FilterPlaces(q, g, s, at, n + 1)
        BY <3>1, <3>4, <3>5, <3>6, <3>7, Zenon DEF FilterPlaces
      <3> QED
        BY <3>8, <3>9
    <2>5. CASE n + 1 \notin at
      <3>1. FilterPlaces(p, f[n], s, at, n + 1)
        BY <2>1, <2>3, <2>5 DEF FilterPlaces
      <3> QED
        BY <2>2, <2>5, <3>1
    <2> QED
      BY <2>4, <2>5
  <1> HIDE DEF M
  <1>3. \A n \in Nat : n \in M
    BY <1>1, <1>2, NatInduct
  <1> QED
    BY <1>3 DEF M

-----------------------------------------------------------------------------
(* compactUpToCursor *)

(* The positions it keeps. *)
KeptAt(seq, pruned) == {i \in Nat : seq[i].tx \notin pruned}

(* What it keeps of a sequence is part of it, in its order. *)
LEMMA KeptProperties ==
  ASSUME NEW S, NEW seq \in Seq(S), NEW pruned
  PROVE  /\ Kept(seq, pruned) \in Seq(S)
         /\ \E p : FilterPlaces(p, Kept(seq, pruned), seq, KeptAt(seq, pruned), Len(seq))
  <1> DEFINE Body(u) == [i \in Nat |->
                IF i = 0 THEN <<>>
                ELSE IF seq[i].tx \notin pruned THEN Append(u[i - 1], seq[i]) ELSE u[i - 1]]
             upTo == CHOOSE u : u = Body(u)
             at   == KeptAt(seq, pruned)
  <1>1. Kept(seq, pruned) = upTo[Len(seq)]
    BY DEF Kept
  <1>2. ASSUME NEW u PROVE Body(u) = FilterBody(u, seq, at, Nat)
    BY DEF FilterBody, KeptAt
  <1> HIDE DEF Body
  <1>3. \E u : u = Body(u)
    BY <1>2, FilterDefined, Zenon
  <1>4. upTo = Body(upTo)
    BY <1>3, Zenon
  <1>5. upTo = FilterBody(upTo, seq, at, Nat)
    BY <1>2, <1>4
  <1> HIDE DEF upTo, at
  <1>6. Len(seq) \in Nat /\ \A i \in 1 .. Len(seq) : i \in at => seq[i] \in S
    OBVIOUS
  <1>7. upTo[Len(seq)] \in Seq(S)
    <2>1. \A i \in 0 .. Len(seq) : upTo[i] \in Seq(S)
      BY <1>5, <1>6, FilterType
    <2> QED
      BY <1>6, <2>1
  <1>8. \E p : FilterPlaces(p, upTo[Len(seq)], seq, at, Len(seq))
    BY <1>5, <1>6, FilterPositions
  <1> QED
    BY <1>1, <1>7, <1>8 DEF at

(* compactUpToCursor maps a space to a space and keeps the outcomes. *)
LEMMA CompactType ==
  ASSUME NEW sp \in Space, NEW cutoff
  PROVE  /\ Compact(sp, cutoff) \in Space
         /\ Compact(sp, cutoff).idem = sp.idem
         /\ Compact(sp, cutoff).txIndex = Kept(sp.txIndex, PrunedTxIds(sp, cutoff))
         /\ \A s \in Streams : Compact(sp, cutoff).ev[s] = Kept(sp.ev[s], PrunedTxIds(sp, cutoff))
  <1> DEFINE pruned == PrunedTxIds(sp, cutoff)
  <1>1. sp.ev \in [Streams -> Seq(Event)] /\ sp.txIndex \in Seq(Entry) /\ sp.idem \in SUBSET Outcome
    BY DEF Space
  <1> HIDE DEF pruned
  <1>2. Kept(sp.txIndex, pruned) \in Seq(Entry)
    BY <1>1, KeptProperties
  <1>3. \A s \in Streams : Kept(sp.ev[s], pruned) \in Seq(Event)
    BY <1>1, KeptProperties
  <1>4. Compact(sp, cutoff) = [ev      |-> [s \in Streams |-> Kept(sp.ev[s], pruned)],
                               txIndex |-> Kept(sp.txIndex, pruned),
                               idem    |-> sp.idem]
    BY DEF Compact, pruned
  <1> QED
    BY <1>1, <1>2, <1>3, <1>4 DEF Space, pruned

-----------------------------------------------------------------------------
(* Lookups and slices *)

(* A non-empty set of naturals with a bound has a greatest element. *)
LEMMA GreatestOf ==
  ASSUME NEW S \in SUBSET Nat, S # {}, NEW n \in Nat, \A k \in S : k <= n
  PROVE  \E k \in S : \A j \in S : j <= k
  <1> DEFINE T == {n - k : k \in S}
  <1>1. T \in SUBSET Nat /\ T # {}
    <2>1. ASSUME NEW k \in S PROVE n - k \in Nat /\ n - k \in T
      OBVIOUS
    <2>2. T \in SUBSET Nat
      BY <2>1
    <2>3. PICK k : k \in S
      OBVIOUS
    <2> QED
      BY <2>1, <2>2, <2>3
  <1>2. PICK d \in T : \A j \in T : d <= j
    BY <1>1, LeastOf
  <1>3. PICK k \in S : d = n - k
    BY <1>2
  <1>4. ASSUME NEW j \in S PROVE j <= k
    <2>1. n - j \in T
      OBVIOUS
    <2>2. n - k <= n - j
      BY <1>2, <1>3, <2>1
    <2> QED
      BY <1>3, <2>2
  <1> QED
    BY <1>3, <1>4

(* The map of an index knows the ids in it, and the last entry of each. *)
LEMMA LookUpProperties ==
  ASSUME NEW index \in Seq(Entry), NEW k \in 1 .. Len(index)
  PROVE  \E j \in 1 .. Len(index) : /\ k <= j /\ index[j].tx = index[k].tx
                                    /\ LookUp(index, index[k].tx) = index[j]
  <1> DEFINE at   == EntriesOf(index, index[k].tx)
             last == CHOOSE i \in at : \A j \in at : j <= i
  <1>1. at = {i \in 1 .. Len(index) : index[i].tx = index[k].tx} /\ Len(index) \in Nat /\ k \in at
    BY DEF EntriesOf
  <1>2. \E i \in at : \A j \in at : j <= i
    <2>1. at \in SUBSET Nat /\ at # {} /\ \A j \in at : j <= Len(index)
      BY <1>1
    <2> QED
      BY <1>1, <2>1, GreatestOf
  <1>3. last \in at /\ \A j \in at : j <= last
    BY <1>2
  <1>4. LookUp(index, index[k].tx) = index[last]
    BY <1>1 DEF LookUp
  <1> HIDE DEF last, at
  <1> QED
    BY <1>1, <1>3, <1>4

(* The events after from up to end, for positions within the stream. *)
LEMMA SliceProperties ==
  ASSUME NEW S, NEW evs \in Seq(S), NEW from \in 0 .. Len(evs), NEW end \in 0 .. Len(evs)
  PROVE  /\ SliceBySeqRange(evs, from + 1, end) \in Seq(S)
         /\ from <= end => Len(SliceBySeqRange(evs, from + 1, end)) = end - from
         /\ ~(from <= end) => Len(SliceBySeqRange(evs, from + 1, end)) = 0
         /\ \A i \in 1 .. end - from : SliceBySeqRange(evs, from + 1, end)[i] = evs[from + i]
  <1>1. Len(evs) \in Nat /\ from + 1 \in Int /\ end \in Int
    OBVIOUS
  <1>2. Greatest(1, from + 1) = from + 1 /\ Least(Len(evs), end) = end
    BY DEF Greatest, Least
  <1>3. SliceBySeqRange(evs, from + 1, end) = SubSeq(evs, from + 1, end)
    BY <1>2 DEF SliceBySeqRange
  <1>4. \A i \in from + 1 .. end : evs[i] \in S
    OBVIOUS
  <1>5. /\ SubSeq(evs, from + 1, end) \in Seq(S)
        /\ Len(SubSeq(evs, from + 1, end)) = IF from + 1 <= end THEN end - (from + 1) + 1 ELSE 0
        /\ \A i \in 1 .. (end - (from + 1) + 1) : SubSeq(evs, from + 1, end)[i] = evs[from + 1 + i - 1]
    BY <1>1, <1>4, SubSeqProperties
  <1> DEFINE got == SubSeq(evs, from + 1, end)
  <1> HIDE DEF got
  <1>6. from <= end => Len(got) = end - from
    BY <1>5 DEF got
  <1>7. ~(from <= end) => Len(got) = 0
    BY <1>5 DEF got
  <1>8. \A i \in 1 .. end - from : got[i] = evs[from + i]
    BY <1>5 DEF got
  <1> QED
    BY <1>3, <1>5, <1>6, <1>7, <1>8 DEF got

-----------------------------------------------------------------------------
(* Revision tokens *)

(* A token of a retained transaction resolves to the end of the first entry *)
(* that carries its id; any other token but the root's does not resolve.    *)
LEMMA ResolveProperties ==
  ASSUME NEW sp \in Space, NEW token, token # "root"
  PROVE  \/ ResolveRevision(sp, token) = None
         \/ \E k \in 1 .. Len(sp.txIndex) :
              /\ sp.txIndex[k].tx = token
              /\ \A j \in 1 .. Len(sp.txIndex) : sp.txIndex[j].tx = token => k <= j
              /\ ResolveRevision(sp, token) = sp.txIndex[k].end
  <1> DEFINE at == EntriesOf(sp.txIndex, token)
             first == CHOOSE i \in at : \A j \in at : i <= j
  <1>1. at = {i \in 1 .. Len(sp.txIndex) : sp.txIndex[i].tx = token} /\ Len(sp.txIndex) \in Nat
    BY DEF EntriesOf, Space
  <1>2. CASE at = {}
    BY <1>2 DEF ResolveRevision
  <1>3. CASE at # {}
    <2>1. at \in SUBSET Nat
      BY <1>1
    <2>2. \E i \in at : \A j \in at : i <= j
      BY <1>3, <2>1, LeastOf
    <2>3. first \in at /\ \A j \in at : first <= j
      BY <2>2
    <2>4. ResolveRevision(sp, token) = sp.txIndex[first].end
      BY <1>3 DEF ResolveRevision
    <2> HIDE DEF first
    <2> QED
      BY <1>1, <2>3, <2>4
  <1> QED
    BY <1>2, <1>3
=============================================================================
