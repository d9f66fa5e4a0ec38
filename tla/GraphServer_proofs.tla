-------------------------- MODULE GraphServer_proofs --------------------------
(***************************************************************************)
(* Proofs about GraphServer for any projects, any workers that create and  *)
(* fork snapshots or purge, and any explorers that ask for snapshots.      *)
(*                                                                         *)
(* 1. TailsAreKept: a purge takes only what a snapshot stands for.         *)
(*                                                                         *)
(* 2. SnapshotsStayBehind: no snapshot is ahead of its cursor.             *)
(*                                                                         *)
(* Until a purge the index mirrors the history, and what a worker has read *)
(* and what was put into a snapshot are graphs of that history. The first  *)
(* purge of a project that takes something away needs this, and leaves of  *)
(* it that the store has the end of its history, in order, and that what   *)
(* is lost is not after the least readable cursor, or not after the cursor *)
(* of the worker that is about to record it.  A purge of what is left      *)
(* breaks that too.                                                        *)
(***************************************************************************)
EXTENDS GraphServer, EventLog_proofs

-----------------------------------------------------------------------------
(* Drawing a graph *)

(* A sequence, of whatever elements. *)
IsSeq(s) == Len(s) \in Nat /\ s = [i \in 1 .. Len(s) |-> s[i]]

ElementsOf(s) == {s[i] : i \in 1 .. Len(s)}

(* A sequence is one of its elements. *)
LEMMA IsSeqIsSeq ==
  ASSUME NEW s, IsSeq(s)
  PROVE  s \in Seq(ElementsOf(s)) /\ Len(s) \in Nat /\ DOMAIN s = 1 .. Len(s)
  <1> DEFINE n == Len(s)
             S == ElementsOf(s)
  <1>1. n \in Nat /\ s = [i \in 1 .. n |-> s[i]] /\ \A i \in 1 .. n : s[i] \in S
    BY DEF IsSeq, ElementsOf
  <1> HIDE DEF n, S
  <1>2. s \in [1 .. n -> S]
    BY <1>1
  <1>3. s \in Seq(S) /\ DOMAIN s = 1 .. n
    BY <1>1, <1>2, FunctionIsSeq
  <1> QED
    BY <1>1, <1>3 DEF n, S

(* And the other way round. *)
LEMMA SeqIsSeq ==
  ASSUME NEW S, NEW s \in Seq(S)
  PROVE  IsSeq(s)
  BY DEF IsSeq

(* A sequence given by its elements. *)
LEMMA TupleIsSeq ==
  ASSUME NEW n \in Nat, NEW f, f = [i \in 1 .. n |-> f[i]]
  PROVE  IsSeq(f) /\ Len(f) = n
  <1> DEFINE S == {f[i] : i \in 1 .. n}
  <1>1. \A i \in 1 .. n : f[i] \in S
    OBVIOUS
  <1> HIDE DEF S
  <1>2. f \in [1 .. n -> S]
    BY <1>1
  <1>3. f \in Seq(S) /\ Len(f) = n
    BY <1>2, FunctionIsSeq
  <1> QED
    BY <1>3, SeqIsSeq

(* What the recursion of ApplyGraphEvents makes of f: at i, the graph after   *)
(* the first i events.                                                        *)
DrawBody(f, g, s, n) ==
  [i \in 0 .. n |-> IF i = 0 THEN g ELSE ApplyGraphEvent(f[i - 1], s[i])]

(* There is a function that the recursion defines. *)
LEMMA DrawDefined ==
  ASSUME NEW g, NEW s
  PROVE  \A n \in Nat : \E f : f = DrawBody(f, g, s, n)
  <1> DEFINE S == {n \in Nat : \E f : f = DrawBody(f, g, s, n)}
  <1>1. 0 \in S
    <2>1. [i \in 0 .. 0 |-> g] = DrawBody([i \in 0 .. 0 |-> g], g, s, 0)
      BY DEF DrawBody
    <2> QED
      BY <2>1
  <1>2. ASSUME NEW n \in Nat, n \in S PROVE n + 1 \in S
    <2>1. PICK f : f = DrawBody(f, g, s, n)
      BY <1>2
    <2> DEFINE h == [i \in 0 .. n + 1 |-> IF i <= n THEN f[i] ELSE ApplyGraphEvent(f[n], s[i])]
    <2>2. ASSUME NEW i \in 0 .. n + 1
          PROVE  h[i] = IF i = 0 THEN g ELSE ApplyGraphEvent(h[i - 1], s[i])
      <3>1. i # 0 => i - 1 \in 0 .. n /\ h[i - 1] = f[i - 1]
        OBVIOUS
      <3>2. CASE i <= n
        <4>1. i \in 0 .. n
          BY <3>2
        <4>2. f[i] = IF i = 0 THEN g ELSE ApplyGraphEvent(f[i - 1], s[i])
          BY <2>1, <4>1, Zenon DEF DrawBody
        <4> QED
          BY <3>1, <3>2, <4>2
      <3>3. CASE i = n + 1
        BY <3>1, <3>3
      <3> QED
        BY <3>2, <3>3
    <2>3. h = DrawBody(h, g, s, n + 1)
      <3>1. h = [i \in 0 .. n + 1 |-> h[i]]
        OBVIOUS
      <3> HIDE DEF h
      <3> QED
        BY <2>2, <3>1, Zenon DEF DrawBody
    <2> QED
      BY <2>3
  <1> HIDE DEF S
  <1>3. \A n \in Nat : n \in S
    BY <1>1, <1>2, NatInduct
  <1> QED
    BY <1>3 DEF S

(* ApplyGraphEvents is the end of such a recursion. *)
LEMMA DrawIs ==
  ASSUME NEW g, NEW s, Len(s) \in Nat
  PROVE  \E f : f = DrawBody(f, g, s, Len(s)) /\ ApplyGraphEvents(g, s) = f[Len(s)]
  <1> DEFINE Body(f) == [i \in 0 .. Len(s) |-> IF i = 0 THEN g ELSE ApplyGraphEvent(f[i - 1], s[i])]
             after == CHOOSE f : f = Body(f)
  <1>1. ApplyGraphEvents(g, s) = after[Len(s)]
    BY DEF ApplyGraphEvents
  <1>2. ASSUME NEW f PROVE Body(f) = DrawBody(f, g, s, Len(s))
    BY DEF DrawBody
  <1> HIDE DEF Body
  <1>3. \E f : f = Body(f)
    BY <1>2, DrawDefined, Zenon
  <1>4. after = Body(after)
    BY <1>3, Zenon
  <1> QED
    BY <1>1, <1>2, <1>4

(* t is s, of length n, with one element more. *)
OneMore(t, s, n) ==
  n \in Nat /\ Len(s) = n /\ Len(t) = n + 1 /\ \A i \in 1 .. n : t[i] = s[i]

(* One event more. *)
LEMMA DrawNext ==
  ASSUME NEW g, NEW s, NEW t, NEW n, OneMore(t, s, n)
  PROVE  ApplyGraphEvents(g, t) = ApplyGraphEvent(ApplyGraphEvents(g, s), t[n + 1])
  <1>0. n \in Nat /\ Len(s) = n /\ Len(t) = n + 1 /\ \A i \in 1 .. n : t[i] = s[i]
    BY DEF OneMore
  <1>1. PICK f : f = DrawBody(f, g, s, n) /\ ApplyGraphEvents(g, s) = f[n]
    BY <1>0, DrawIs
  <1>2. PICK h : h = DrawBody(h, g, t, n + 1) /\ ApplyGraphEvents(g, t) = h[n + 1]
    BY <1>0, DrawIs
  <1> DEFINE S == {i \in Nat : i <= n => f[i] = h[i]}
  <1>3. 0 \in S
    <2>1. 0 \in 0 .. n /\ 0 \in 0 .. n + 1
      BY <1>0
    <2>2. f[0] = g /\ h[0] = g
      BY <1>1, <1>2, <2>1, Zenon DEF DrawBody
    <2> QED
      BY <2>2
  <1>4. ASSUME NEW i \in Nat, i \in S PROVE i + 1 \in S
    <2> SUFFICES ASSUME i + 1 <= n PROVE f[i + 1] = h[i + 1]
      OBVIOUS
    <2>1. /\ i + 1 \in 0 .. n /\ i + 1 \in 0 .. n + 1 /\ i + 1 # 0 /\ (i + 1) - 1 = i
          /\ f[i] = h[i] /\ t[i + 1] = s[i + 1]
      BY <1>0, <1>4
    <2>2. f[i + 1] = ApplyGraphEvent(f[(i + 1) - 1], s[i + 1])
      BY <1>1, <2>1, Zenon DEF DrawBody
    <2>3. h[i + 1] = ApplyGraphEvent(h[(i + 1) - 1], t[i + 1])
      BY <1>2, <2>1, Zenon DEF DrawBody
    <2> QED
      BY <2>1, <2>2, <2>3
  <1> HIDE DEF S
  <1>5. n \in S
    BY <1>0, <1>3, <1>4, NatInduct
  <1>6. f[n] = h[n]
    BY <1>0, <1>5 DEF S
  <1>7. n + 1 \in 0 .. n + 1 /\ n + 1 # 0 /\ (n + 1) - 1 = n
    BY <1>0
  <1>8. h[n + 1] = ApplyGraphEvent(h[(n + 1) - 1], t[n + 1])
    BY <1>2, <1>7, Zenon DEF DrawBody
  <1> QED
    BY <1>1, <1>2, <1>6, <1>7, <1>8

(* No event. *)
LEMMA DrawNothing ==
  ASSUME NEW g, NEW s, Len(s) = 0
  PROVE  ApplyGraphEvents(g, s) = g
  <1>1. PICK f : f = DrawBody(f, g, s, 0) /\ ApplyGraphEvents(g, s) = f[0]
    BY DrawIs
  <1>2. 0 \in 0 .. 0
    OBVIOUS
  <1>3. f[0] = g
    BY <1>1, <1>2, Zenon DEF DrawBody
  <1> QED
    BY <1>1, <1>3

(* t is what h has after its first c elements, m of them. *)
PartOf(t, h, c, m) ==
  /\ IsSeq(h) /\ IsSeq(t) /\ c \in Nat /\ m \in Nat /\ c + m <= Len(h) /\ Len(t) = m
  /\ \A i \in 1 .. m : t[i] = h[c + i]

(* A part of a history drawn on what came before it. *)
LEMMA DrawFurther ==
  ASSUME NEW g, NEW h, NEW c, NEW m, NEW t, PartOf(t, h, c, m)
  PROVE  ApplyGraphEvents(ApplyGraphEvents(g, SubSeq(h, 1, c)), t)
           = ApplyGraphEvents(g, SubSeq(h, 1, c + m))
  <1> DEFINE G == ApplyGraphEvents(g, SubSeq(h, 1, c))
             S == {k \in Nat : k <= m => ApplyGraphEvents(G, SubSeq(t, 1, k))
                                           = ApplyGraphEvents(g, SubSeq(h, 1, c + k))}
  <1>0. /\ IsSeq(h) /\ IsSeq(t) /\ c \in Nat /\ m \in Nat /\ c + m <= Len(h) /\ Len(t) = m
        /\ \A i \in 1 .. m : t[i] = h[c + i]
    BY DEF PartOf
  <1>1. /\ h \in Seq(ElementsOf(h)) /\ Len(h) \in Nat
        /\ t \in Seq(ElementsOf(t))
    BY <1>0, IsSeqIsSeq
  <1>a. \A k \in 0 .. m : Len(SubSeq(t, 1, k)) = k /\ \A i \in 1 .. k : SubSeq(t, 1, k)[i] = t[i]
    BY <1>0, <1>1, PrefixProperties
  <1>b. \A k \in 0 .. Len(h) : Len(SubSeq(h, 1, k)) = k /\ \A i \in 1 .. k : SubSeq(h, 1, k)[i] = h[i]
    BY <1>0, <1>1, PrefixProperties
  <1>2. 0 \in S
    <2>1. Len(SubSeq(t, 1, 0)) = 0
      BY <1>a
    <2>2. ApplyGraphEvents(G, SubSeq(t, 1, 0)) = G
      BY <2>1, DrawNothing
    <2>3. c + 0 = c
      BY <1>0
    <2> QED
      BY <2>2, <2>3
  <1> HIDE DEF G
  <1>3. ASSUME NEW k \in Nat, k \in S PROVE k + 1 \in S
    <2> SUFFICES ASSUME k + 1 <= m
                 PROVE  ApplyGraphEvents(G, SubSeq(t, 1, k + 1))
                          = ApplyGraphEvents(g, SubSeq(h, 1, c + (k + 1)))
      OBVIOUS
    <2>0. k \in 0 .. m /\ k + 1 \in 0 .. m /\ c + k \in 0 .. Len(h) /\ (c + k) + 1 \in 0 .. Len(h)
          /\ c + k \in Nat /\ c + (k + 1) = (c + k) + 1 /\ k + 1 \in 1 .. m
      BY <1>0, <1>1
    <2> DEFINE t0 == SubSeq(t, 1, k)
               t1 == SubSeq(t, 1, k + 1)
               h0 == SubSeq(h, 1, c + k)
               h1 == SubSeq(h, 1, (c + k) + 1)
    <2>1. /\ Len(t0) = k /\ Len(t1) = k + 1 /\ t1[k + 1] = t[k + 1]
          /\ \A i \in 1 .. k : t1[i] = t0[i]
      BY <1>a, <2>0
    <2>2. Len(h0) = c + k /\ \A i \in 1 .. c + k : h0[i] = h[i]
      BY <1>b, <2>0
    <2>3. Len(h1) = (c + k) + 1 /\ \A i \in 1 .. (c + k) + 1 : h1[i] = h[i]
      BY <1>b, <2>0
    <2>4. ApplyGraphEvents(G, t0) = ApplyGraphEvents(g, h0)
      BY <1>3, <2>0
    <2> HIDE DEF t0, t1, h0, h1, S
    <2>b. OneMore(t1, t0, k)
      BY <2>1 DEF OneMore
    <2>5. ApplyGraphEvents(G, t1) = ApplyGraphEvent(ApplyGraphEvents(G, t0), t1[k + 1])
      BY <2>b, DrawNext
    <2>6. \A i \in 1 .. c + k : h1[i] = h0[i]
      BY <2>0, <2>2, <2>3
    <2>7. ApplyGraphEvents(g, h1) = ApplyGraphEvent(ApplyGraphEvents(g, h0), h1[(c + k) + 1])
      <3>1. OneMore(h1, h0, c + k)
        BY <2>0, <2>2, <2>3, <2>6 DEF OneMore
      <3> QED
        BY <3>1, DrawNext
    <2>8. h1[(c + k) + 1] = t1[k + 1]
      <3>1. h1[(c + k) + 1] = h[(c + k) + 1]
        BY <2>0, <2>3
      <3>2. t[k + 1] = h[c + (k + 1)]
        BY <1>0, <2>0
      <3> QED
        BY <2>0, <2>1, <3>1, <3>2
    <2> QED
      BY <2>0, <2>4, <2>5, <2>7, <2>8 DEF t1, h1
  <1> HIDE DEF S
  <1>4. m \in S
    BY <1>0, <1>2, <1>3, NatInduct
  <1>5. SubSeq(t, 1, m) = t
    <2>1. SubSeq(t, 1, Len(t)) = t
      BY <1>1
    <2> QED
      BY <1>0, <2>1
  <1>6. ApplyGraphEvents(G, SubSeq(t, 1, m)) = ApplyGraphEvents(g, SubSeq(h, 1, c + m))
    BY <1>0, <1>4 DEF S
  <1> QED
    BY <1>5, <1>6 DEF G

-----------------------------------------------------------------------------
(* Graphs are finite, so that a fork is given finitely many commands          *)

IsGraphEvent(e) ==
  e.type \in {"node.created", "node.label.updated", "node.deleted", "link.created", "link.deleted"}

FiniteGraph(g) == \E N, L : IsFiniteSet(N) /\ IsFiniteSet(L) /\ g = [nodes |-> N, links |-> L]

(* Each event leaves a finite graph. *)
LEMMA FiniteNext ==
  ASSUME NEW g, FiniteGraph(g), NEW e, IsGraphEvent(e)
  PROVE  FiniteGraph(ApplyGraphEvent(g, e))
  <1>1. PICK N, L : IsFiniteSet(N) /\ IsFiniteSet(L) /\ g = [nodes |-> N, links |-> L]
    BY DEF FiniteGraph
  <1>2. ASSUME NEW X, IsFiniteSet(X), NEW id PROVE IsFiniteSet(Without(X, id))
    <2>1. Without(X, id) \in SUBSET X
      BY DEF Without
    <2> QED
      BY <1>2, <2>1, FS_Subset
  <1>3. ASSUME NEW X, IsFiniteSet(X), NEW id, NEW x PROVE IsFiniteSet(Without(X, id) \cup {x})
    <2>1. IsFiniteSet(Without(X, id))
      BY <1>2, <1>3
    <2> QED
      BY <2>1, FS_AddElement
  <1>4. ASSUME NEW id, NEW label PROVE FiniteGraph(WithNode(g, id, label))
    <2> DEFINE M == Without(N, id) \cup {[id |-> id, label |-> label]}
    <2>1. IsFiniteSet(M)
      BY <1>1, <1>3
    <2>2. WithNode(g, id, label) = [nodes |-> M, links |-> L]
      BY <1>1 DEF WithNode
    <2> HIDE DEF M
    <2> QED
      BY <1>1, <2>1, <2>2, Zenon DEF FiniteGraph
  <1>5. CASE e.type = "node.created"
    <2>1. ApplyGraphEvent(g, e) = WithNode(g, e.id, e.label)
      BY <1>5 DEF ApplyGraphEvent
    <2> QED
      BY <1>4, <2>1
  <1>6. CASE e.type = "node.label.updated"
    <2>1. ApplyGraphEvent(g, e) = WithNode(g, e.id, e.label) \/ ApplyGraphEvent(g, e) = g
      BY <1>6 DEF ApplyGraphEvent
    <2> QED
      BY <1>4, <2>1
  <1>7. CASE e.type = "node.deleted"
    <2> DEFINE K == {l \in L : e.id \notin {l.source, l.target}}
    <2>1. ApplyGraphEvent(g, e) = [nodes |-> Without(N, e.id), links |-> K]
      BY <1>1, <1>7 DEF ApplyGraphEvent
    <2>2. IsFiniteSet(K)
      <3>1. K \in SUBSET L
        OBVIOUS
      <3> QED
        BY <1>1, <3>1, FS_Subset
    <2>3. IsFiniteSet(Without(N, e.id))
      BY <1>1, <1>2
    <2> HIDE DEF K
    <2> QED
      BY <2>1, <2>2, <2>3, Zenon DEF FiniteGraph
  <1>8. CASE e.type = "link.created"
    <2> DEFINE K == Without(L, e.link.id) \cup {e.link}
    <2>1. ApplyGraphEvent(g, e) = [nodes |-> N, links |-> K]
      BY <1>1, <1>8 DEF ApplyGraphEvent
    <2>2. IsFiniteSet(K)
      BY <1>1, <1>3
    <2> HIDE DEF K
    <2> QED
      BY <1>1, <2>1, <2>2, Zenon DEF FiniteGraph
  <1>9. CASE e.type = "link.deleted"
    <2>1. ApplyGraphEvent(g, e) = [nodes |-> N, links |-> Without(L, e.id)]
      BY <1>1, <1>9 DEF ApplyGraphEvent
    <2>2. IsFiniteSet(Without(L, e.id))
      BY <1>1, <1>2
    <2> QED
      BY <1>1, <2>1, <2>2, Zenon DEF FiniteGraph
  <1> QED
    BY <1>5, <1>6, <1>7, <1>8, <1>9 DEF IsGraphEvent

(* And so do many. *)
LEMMA FiniteDrawn ==
  ASSUME NEW g, FiniteGraph(g), NEW s, Len(s) \in Nat, \A i \in 1 .. Len(s) : IsGraphEvent(s[i])
  PROVE  FiniteGraph(ApplyGraphEvents(g, s))
  <1>1. PICK f : f = DrawBody(f, g, s, Len(s)) /\ ApplyGraphEvents(g, s) = f[Len(s)]
    BY DrawIs
  <1> DEFINE n == Len(s)
             S == {i \in Nat : i <= n => FiniteGraph(f[i])}
  <1>2. n \in Nat
    OBVIOUS
  <1>3. 0 \in S
    <2>1. 0 \in 0 .. n
      OBVIOUS
    <2>2. f[0] = g
      BY <1>1, <2>1, Zenon DEF DrawBody
    <2> QED
      BY <2>2
  <1> HIDE DEF n
  <1>4. ASSUME NEW i \in Nat, i \in S PROVE i + 1 \in S
    <2> SUFFICES ASSUME i + 1 <= n PROVE FiniteGraph(f[i + 1])
      OBVIOUS
    <2>1. i + 1 \in 0 .. n /\ i + 1 \in 1 .. n /\ i + 1 # 0 /\ (i + 1) - 1 = i /\ FiniteGraph(f[i])
      BY <1>2, <1>4
    <2>2. f[i + 1] = ApplyGraphEvent(f[(i + 1) - 1], s[i + 1])
      BY <1>1, <2>1, Zenon DEF DrawBody, n
    <2>3. IsGraphEvent(s[i + 1])
      BY <2>1 DEF n
    <2> HIDE DEF S
    <2> QED
      BY <2>1, <2>2, <2>3, FiniteNext
  <1> HIDE DEF S
  <1>5. n \in S
    BY <1>2, <1>3, <1>4, NatInduct
  <1> QED
    BY <1>1, <1>2, <1>5 DEF S, n

(* What is shown of a finite graph is finite. *)
LEMMA FiniteShown ==
  ASSUME NEW g, FiniteGraph(g)
  PROVE  FiniteGraph(Shown(g))
  <1>1. PICK N, L : IsFiniteSet(N) /\ IsFiniteSet(L) /\ g = [nodes |-> N, links |-> L]
    BY DEF FiniteGraph
  <1> DEFINE K == {l \in L : {l.source, l.target} \subseteq NodeIds(g)}
  <1>2. Shown(g) = [nodes |-> N, links |-> K]
    <2> DEFINE ids == NodeIds(g)
    <2>1. Shown(g) = [g EXCEPT !.links = {l \in g.links : {l.source, l.target} \subseteq ids}]
      BY DEF Shown
    <2>2. g.links = L
      BY <1>1
    <2> HIDE DEF ids
    <2>3. Shown(g) = [g EXCEPT !.links = {l \in L : {l.source, l.target} \subseteq ids}]
      BY <2>1, <2>2
    <2>4. K = {l \in L : {l.source, l.target} \subseteq ids}
      BY DEF ids
    <2> HIDE DEF K
    <2> QED
      BY <1>1, <2>3, <2>4
  <1>3. IsFiniteSet(K)
    <2>1. K \in SUBSET L
      OBVIOUS
    <2> QED
      BY <1>1, <2>1, FS_Subset
  <1> HIDE DEF K
  <1> QED
    BY <1>1, <1>2, <1>3, Zenon DEF FiniteGraph

(* The elements of a finite set, in an order. *)
LEMMA InOrderIsSeq ==
  ASSUME NEW S, IsFiniteSet(S)
  PROVE  InOrder(S) \in Seq(S)
  <1>1. InOrder(S) \in [1 .. Cardinality(S) -> S]
    BY Enumerated, Zenon DEF InOrder
  <1> QED
    BY <1>1, Enumerated, FunctionIsSeq

(* The commands of a fork are finitely many, and graph commands. *)
LEMMA EventsOfSound ==
  ASSUME NEW g, FiniteGraph(g)
  PROVE  IsSeq(EventsOf(g)) /\ \A i \in 1 .. Len(EventsOf(g)) : IsGraphEvent(EventsOf(g)[i])
  <1>1. PICK N, L : IsFiniteSet(N) /\ IsFiniteSet(L) /\ g = [nodes |-> N, links |-> L]
    BY DEF FiniteGraph
  <1> DEFINE A == {[type |-> "node.created", id |-> n.id, label |-> n.label] : n \in N}
             B == {[type |-> "link.created", link |-> l] : l \in L}
  <1>2. EventsOf(g) = InOrder(A) \o InOrder(B)
    BY <1>1 DEF EventsOf
  <1>3. IsFiniteSet(A)
    <2> DEFINE f == [n \in N |-> [type |-> "node.created", id |-> n.id, label |-> n.label]]
    <2>1. A = {f[n] : n \in N}
      OBVIOUS
    <2> HIDE DEF f, A
    <2> QED
      BY <1>1, <2>1, FiniteImage
  <1>4. IsFiniteSet(B)
    <2> DEFINE f == [l \in L |-> [type |-> "link.created", link |-> l]]
    <2>1. B = {f[l] : l \in L}
      OBVIOUS
    <2> HIDE DEF f, B
    <2> QED
      BY <1>1, <2>1, FiniteImage
  <1>5. \A e \in A \cup B : IsGraphEvent(e)
    BY DEF IsGraphEvent
  <1> HIDE DEF A, B
  <1>6. InOrder(A) \in Seq(A \cup B) /\ InOrder(B) \in Seq(A \cup B)
    BY <1>3, <1>4, InOrderIsSeq
  <1>7. EventsOf(g) \in Seq(A \cup B)
    BY <1>2, <1>6
  <1> QED
    BY <1>5, <1>7, SeqIsSeq

-----------------------------------------------------------------------------
(* The store of a project *)

NumberOf(o) == o.receipt.tx.n
EventIn(o)  == o.receipt.tx.event

(* The outcomes are numbered without a gap, each number once. *)
Counted(idem) ==
  /\ IsFiniteSet(idem)
  /\ \A o \in idem : NumberOf(o) \in 1 .. Cardinality(idem)
  /\ \A i \in 1 .. Cardinality(idem) : \E o \in idem : NumberOf(o) = i
  /\ \A o, p \in idem : NumberOf(o) = NumberOf(p) => o = p

Events(sp) == sp.ev["graph"]

Lost(sp) == Committed(sp) - Len(Events(sp))

Tx(i, event) == [n |-> i, event |-> event]

(* What the store still has is the end of its history, in order. *)
StoreSound(sp) ==
  /\ Counted(sp.idem)
  /\ IsSeq(Events(sp)) /\ Len(Events(sp)) <= Committed(sp)
  /\ \A i \in 1 .. Len(Events(sp)) : Events(sp)[i].tx = Tx(Lost(sp) + i, History(sp)[Lost(sp) + i])
  /\ \A i \in 1 .. Committed(sp) : IsGraphEvent(History(sp)[i])

(* The index mirrors the history. *)
IndexSound(sp) ==
  /\ IsSeq(sp.txIndex) /\ Len(sp.txIndex) = Len(Events(sp)) /\ Lost(sp) = 0
  /\ \A k \in 1 .. Len(sp.txIndex) : sp.txIndex[k].tx = Events(sp)[k].tx /\ sp.txIndex[k].txIndex = k

(* It does until something is lost. *)
Mirrored(sp) == Lost(sp) = 0 => IndexSound(sp)

(* What appending does to a store. *)
Grows(sp, sq) ==
  /\ StoreSound(sq)
  /\ Committed(sp) <= Committed(sq) /\ Lost(sq) = Lost(sp)
  /\ \A i \in 1 .. Committed(sp) : History(sq)[i] = History(sp)[i]
  /\ IndexSound(sp) => IndexSound(sq)

(* The event of an outcome is where its number says. *)
LEMMA HistoryAt ==
  ASSUME NEW sp, Counted(sp.idem)
  PROVE  /\ Committed(sp) \in Nat
         /\ History(sp) = [i \in 1 .. Committed(sp) |-> History(sp)[i]]
         /\ \A o \in sp.idem : History(sp)[NumberOf(o)] = EventIn(o)
  <1> DEFINE At(i) == CHOOSE o \in sp.idem : NumberOf(o) = i
  <1>1. Committed(sp) = Cardinality(sp.idem) /\ Cardinality(sp.idem) \in Nat
    BY FS_CardinalityType DEF Counted, Committed
  <1>2. History(sp) = [i \in 1 .. Committed(sp) |-> EventIn(At(i))]
    BY DEF History, NumberOf, EventIn
  <1>3. ASSUME NEW o \in sp.idem
        PROVE  NumberOf(o) \in 1 .. Committed(sp) /\ At(NumberOf(o)) = o
    BY <1>1 DEF Counted
  <1> HIDE DEF At
  <1> QED
    BY <1>1, <1>2, <1>3

(* The history is a sequence, as long as there are outcomes. *)
LEMMA HistoryIsSeq ==
  ASSUME NEW sp, Counted(sp.idem)
  PROVE  IsSeq(History(sp)) /\ Len(History(sp)) = Committed(sp) /\ Committed(sp) \in Nat
  <1>1. Committed(sp) \in Nat /\ History(sp) = [i \in 1 .. Committed(sp) |-> History(sp)[i]]
    BY HistoryAt
  <1> QED
    BY <1>1, TupleIsSeq

(* One outcome more, with the next number. *)
LEMMA CountedNext ==
  ASSUME NEW idem, Counted(idem), NEW o, NumberOf(o) = Cardinality(idem) + 1
  PROVE  Counted(idem \cup {o}) /\ Cardinality(idem \cup {o}) = Cardinality(idem) + 1
  <1> DEFINE c == Cardinality(idem)
             more == idem \cup {o}
  <1>1. IsFiniteSet(idem) /\ c \in Nat
    BY FS_CardinalityType DEF Counted
  <1>2. /\ \A p \in idem : NumberOf(p) \in 1 .. c
        /\ \A i \in 1 .. c : \E p \in idem : NumberOf(p) = i
        /\ \A p, q \in idem : NumberOf(p) = NumberOf(q) => p = q
    BY DEF Counted
  <1> HIDE DEF c
  <1>a. NumberOf(o) = c + 1
    BY DEF c
  <1>3. o \notin idem
    BY <1>1, <1>2, <1>a
  <1>4. IsFiniteSet(more) /\ Cardinality(more) = c + 1
    BY <1>1, <1>3, FS_AddElement DEF c
  <1>5. \A p \in more : NumberOf(p) \in 1 .. c + 1
    BY <1>1, <1>2, <1>a
  <1>6. ASSUME NEW i \in 1 .. c + 1 PROVE \E p \in more : NumberOf(p) = i
    <2>1. CASE i \in 1 .. c
      BY <1>2, <2>1
    <2>2. CASE i = c + 1
      BY <1>a, <2>2
    <2> QED
      BY <1>1, <2>1, <2>2
  <1>7. ASSUME NEW p \in more, NEW q \in more, NumberOf(p) = NumberOf(q) PROVE p = q
    <2>1. \A x \in idem : NumberOf(x) # c + 1
      BY <1>1, <1>2
    <2> QED
      BY <1>2, <1>7, <1>a, <2>1
  <1> HIDE DEF more
  <1>8. Counted(more)
    BY <1>4, <1>5, <1>6, <1>7 DEF Counted
  <1> QED
    BY <1>4, <1>8 DEF c, more

(* What Submit makes of a store, field by field. *)
LEMMA SubmitFields ==
  ASSUME NEW sp, NEW event
  PROVE  /\ \E b : /\ Events(Submit(sp, event)) = Events(sp) \o [i \in 1 .. 1 |-> b]
                   /\ b.tx = Tx(Committed(sp) + 1, event)
         /\ \E e : /\ Submit(sp, event).txIndex = Append(sp.txIndex, e)
                   /\ e.tx = Tx(Committed(sp) + 1, event) /\ e.txIndex = Len(sp.txIndex) + 1
         /\ \E o : /\ Submit(sp, event).idem = sp.idem \cup {o}
                   /\ NumberOf(o) = Committed(sp) + 1 /\ EventIn(o) = event
  <1> DEFINE tx == Tx(Committed(sp) + 1, event)
             r == Request(tx)
  <1>1. Submit(sp, event) = AppendTx(sp, r)
    BY DEF Submit, Tx
  <1>2. r.tx = tx /\ r.n["graph"] = 1
    BY DEF Request, Streams
  <1> HIDE DEF r
  <1>3. \E b : Events(Submit(sp, event)) = Events(sp) \o [i \in 1 .. 1 |-> b] /\ b.tx = tx
    <2> DEFINE b == [seq |-> Len(sp.ev["graph"]) + 1, tx |-> r.tx, n |-> 1]
    <2>1. Batch(sp, r, "graph") = [i \in 1 .. 1 |-> [seq |-> Len(sp.ev["graph"]) + i, tx |-> r.tx, n |-> i]]
      BY <1>2 DEF Batch
    <2>2. \A i \in 1 .. 1 : i = 1
      OBVIOUS
    <2>3. Batch(sp, r, "graph") = [i \in 1 .. 1 |-> b]
      BY <2>1, <2>2
    <2>4. b.tx = tx
      BY <1>2
    <2>5. Events(Submit(sp, event)) = sp.ev["graph"] \o Batch(sp, r, "graph")
      BY <1>1 DEF Events, AppendTx, Streams
    <2> HIDE DEF b
    <2> QED
      BY <2>3, <2>4, <2>5 DEF Events
  <1>4. \E e : /\ Submit(sp, event).txIndex = Append(sp.txIndex, e)
               /\ e.tx = tx /\ e.txIndex = Len(sp.txIndex) + 1
    <2>1. Submit(sp, event).txIndex = Append(sp.txIndex, EntryOf(sp, r))
      BY <1>1 DEF AppendTx
    <2>2. EntryOf(sp, r).tx = tx /\ EntryOf(sp, r).txIndex = Len(sp.txIndex) + 1
      BY <1>2 DEF EntryOf
    <2> QED
      BY <2>1, <2>2
  <1>5. \E o : /\ Submit(sp, event).idem = sp.idem \cup {o}
               /\ NumberOf(o) = Committed(sp) + 1 /\ EventIn(o) = event
    <2>1. Submit(sp, event).idem = sp.idem \cup {OutcomeOf(sp, r)}
      BY <1>1 DEF AppendTx
    <2>2. OutcomeOf(sp, r).receipt = ReceiptOf(sp, r)
      BY DEF OutcomeOf
    <2>3. ReceiptOf(sp, r).tx = tx
      BY <1>2 DEF ReceiptOf
    <2>4. NumberOf(OutcomeOf(sp, r)) = Committed(sp) + 1 /\ EventIn(OutcomeOf(sp, r)) = event
      BY <2>2, <2>3 DEF NumberOf, EventIn, Tx
    <2> QED
      BY <2>1, <2>4
  <1> QED
    BY <1>3, <1>4, <1>5

(* The sequence with one element more. *)
LEMMA SeqNext ==
  ASSUME NEW s, IsSeq(s), NEW x
  PROVE  /\ IsSeq(Append(s, x)) /\ Len(Append(s, x)) = Len(s) + 1 /\ Append(s, x)[Len(s) + 1] = x
         /\ \A i \in 1 .. Len(s) : Append(s, x)[i] = s[i]
         /\ s \o [i \in 1 .. 1 |-> x] = Append(s, x)
  <1> DEFINE S == ElementsOf(s) \cup {x}
  <1>1. s \in Seq(ElementsOf(s)) /\ Len(s) \in Nat
    BY IsSeqIsSeq
  <1>2. s \in Seq(S) /\ x \in S
    BY <1>1
  <1> HIDE DEF S
  <1>3. /\ Append(s, x) \in Seq(S) /\ Len(Append(s, x)) = Len(s) + 1
        /\ Append(s, x)[Len(s) + 1] = x
        /\ \A i \in 1 .. Len(s) : Append(s, x)[i] = s[i]
    BY <1>1, <1>2
  <1>4. IsSeq(Append(s, x))
    BY <1>3, SeqIsSeq
  <1>5. s \o [i \in 1 .. 1 |-> x] = Append(s, x)
    <2> DEFINE b == [i \in 1 .. 1 |-> x]
    <2>1. b \in Seq(S) /\ Len(b) = 1
      BY <1>2, FunctionIsSeq
    <2>2. b[1] = x
      OBVIOUS
    <2> HIDE DEF b
    <2>3. /\ s \o b \in Seq(S) /\ Len(s \o b) = Len(s) + 1
          /\ \A i \in 1 .. Len(s) + 1 : (s \o b)[i] = IF i <= Len(s) THEN s[i] ELSE b[i - Len(s)]
      BY <1>2, <2>1, ConcatProperties
    <2>4. \A i \in 1 .. Len(s) + 1 : (s \o b)[i] = Append(s, x)[i]
      <3> SUFFICES ASSUME NEW i \in 1 .. Len(s) + 1 PROVE (s \o b)[i] = Append(s, x)[i]
        OBVIOUS
      <3>1. CASE i \in 1 .. Len(s)
        BY <1>3, <2>3, <3>1
      <3>2. CASE i = Len(s) + 1
        <4>1. ~(i <= Len(s)) /\ i - Len(s) = 1
          BY <1>1, <3>2
        <4> QED
          BY <1>3, <2>2, <2>3, <3>2, <4>1
      <3>3. i \in 1 .. Len(s) \/ i = Len(s) + 1
        BY <1>1
      <3> QED
        BY <3>1, <3>2, <3>3, Zenon
    <2>5. s \o b = Append(s, x)
      BY <1>3, <2>3, <2>4, SeqEqual
    <2> QED
      BY <2>5 DEF b
  <1> QED
    BY <1>3, <1>4, <1>5

(* One command. *)
LEMMA SubmitGrows ==
  ASSUME NEW sp, StoreSound(sp), NEW event, IsGraphEvent(event)
  PROVE  /\ Grows(sp, Submit(sp, event))
         /\ Committed(Submit(sp, event)) = Committed(sp) + 1
  <1> DEFINE sq == Submit(sp, event)
             c == Committed(sp)
             m == Len(Events(sp))
  <1>1. PICK b : Events(sq) = Events(sp) \o [i \in 1 .. 1 |-> b] /\ b.tx = Tx(c + 1, event)
    BY SubmitFields
  <1>2. PICK e : sq.txIndex = Append(sp.txIndex, e) /\ e.tx = Tx(c + 1, event)
                 /\ e.txIndex = Len(sp.txIndex) + 1
    BY SubmitFields
  <1>3. PICK o : sq.idem = sp.idem \cup {o} /\ NumberOf(o) = c + 1 /\ EventIn(o) = event
    BY SubmitFields
  <1> HIDE DEF sq
  <1>4. Counted(sp.idem) /\ IsSeq(Events(sp)) /\ m <= c
    BY DEF StoreSound
  <1>5. c \in Nat /\ m \in Nat /\ c = Cardinality(sp.idem)
    BY <1>4, HistoryAt, IsSeqIsSeq DEF Committed
  <1> HIDE DEF c
  <1>6. Counted(sq.idem) /\ Committed(sq) = c + 1
    <2>1. NumberOf(o) = Cardinality(sp.idem) + 1
      BY <1>3, <1>5
    <2>2. Counted(sp.idem \cup {o}) /\ Cardinality(sp.idem \cup {o}) = Cardinality(sp.idem) + 1
      BY <1>4, <2>1, CountedNext
    <2> QED
      BY <1>3, <1>5, <2>2 DEF Committed
  <1>7. ASSUME NEW i \in 1 .. c PROVE History(sq)[i] = History(sp)[i]
    <2>1. PICK p \in sp.idem : NumberOf(p) = i
      BY <1>4, <1>5 DEF Counted
    <2>2. History(sp)[i] = EventIn(p)
      BY <1>4, <2>1, HistoryAt
    <2>3. p \in sq.idem
      BY <1>3
    <2>4. History(sq)[i] = EventIn(p)
      BY <1>6, <2>1, <2>3, HistoryAt
    <2> QED
      BY <2>2, <2>4
  <1>8. History(sq)[c + 1] = event
    <2>1. o \in sq.idem
      BY <1>3
    <2> QED
      BY <1>3, <1>6, <2>1, HistoryAt
  <1>9. /\ IsSeq(Events(sq)) /\ Len(Events(sq)) = m + 1 /\ Events(sq)[m + 1] = b
        /\ \A i \in 1 .. m : Events(sq)[i] = Events(sp)[i]
    <2>1. Events(sq) = Append(Events(sp), b)
      BY <1>1, <1>4, SeqNext, Zenon
    <2> DEFINE t == Events(sp)
    <2>2. IsSeq(t)
      BY <1>4
    <2> HIDE DEF t
    <2>3. /\ IsSeq(Append(t, b)) /\ Len(Append(t, b)) = Len(t) + 1 /\ Append(t, b)[Len(t) + 1] = b
          /\ \A i \in 1 .. Len(t) : Append(t, b)[i] = t[i]
      BY <2>2, SeqNext, Zenon
    <2> QED
      BY <2>1, <2>3, Zenon DEF t
  <1>10. Lost(sq) = Lost(sp) /\ Lost(sp) = c - m
    BY <1>5, <1>6, <1>9 DEF Lost, c
  <1>11. ASSUME NEW i \in 1 .. m + 1
         PROVE  Events(sq)[i].tx = Tx(Lost(sq) + i, History(sq)[Lost(sq) + i])
    <2>1. CASE i \in 1 .. m
      <3>1. Lost(sp) + i \in 1 .. c
        BY <1>4, <1>5, <1>10, <2>1 DEF c
      <3>2. Events(sp)[i].tx = Tx(Lost(sp) + i, History(sp)[Lost(sp) + i])
        BY <2>1 DEF StoreSound
      <3> QED
        BY <1>7, <1>9, <1>10, <2>1, <3>1, <3>2
    <2>2. CASE i = m + 1
      <3>1. Lost(sq) + i = c + 1
        BY <1>5, <1>10, <2>2
      <3> QED
        BY <1>1, <1>8, <1>9, <2>2, <3>1
    <2> QED
      BY <1>5, <2>1, <2>2
  <1>12. \A i \in 1 .. c + 1 : IsGraphEvent(History(sq)[i])
    <2>1. \A i \in 1 .. c : IsGraphEvent(History(sp)[i])
      BY DEF StoreSound, c
    <2>2. \A i \in 1 .. c + 1 : i \in 1 .. c \/ i = c + 1
      BY <1>5
    <2> QED
      BY <1>7, <1>8, <2>1, <2>2
  <1>13. StoreSound(sq)
    <2>1. m + 1 <= c + 1
      BY <1>4, <1>5 DEF c
    <2> QED
      BY <1>6, <1>9, <1>11, <1>12, <2>1 DEF StoreSound
  <1>14. ASSUME IndexSound(sp) PROVE IndexSound(sq)
    <2>1. /\ IsSeq(sp.txIndex) /\ Len(sp.txIndex) = m /\ c = m
          /\ \A k \in 1 .. m : sp.txIndex[k].tx = Events(sp)[k].tx /\ sp.txIndex[k].txIndex = k
      BY <1>5, <1>10, <1>14 DEF IndexSound
    <2>2. /\ IsSeq(sq.txIndex) /\ Len(sq.txIndex) = m + 1 /\ sq.txIndex[m + 1] = e
          /\ \A i \in 1 .. m : sq.txIndex[i] = sp.txIndex[i]
      BY <1>2, <2>1, SeqNext
    <2>3. ASSUME NEW k \in 1 .. m + 1
          PROVE  sq.txIndex[k].tx = Events(sq)[k].tx /\ sq.txIndex[k].txIndex = k
      <3>1. CASE k \in 1 .. m
        BY <1>9, <2>1, <2>2, <3>1
      <3>2. CASE k = m + 1
        BY <1>1, <1>2, <1>9, <2>1, <2>2, <3>2
      <3> QED
        BY <1>5, <3>1, <3>2
    <2>4. Lost(sq) = 0
      BY <1>5, <1>10, <2>1
    <2> QED
      BY <1>9, <2>2, <2>3, <2>4 DEF IndexSound
  <1>15. c <= Committed(sq)
    BY <1>5, <1>6
  <1> QED
    BY <1>6, <1>7, <1>10, <1>13, <1>14, <1>15 DEF Grows, c, sq

(* No command. *)
LEMMA GrowsNot == ASSUME NEW sp, StoreSound(sp) PROVE Grows(sp, sp)
  <1>1. Committed(sp) \in Nat
    BY HistoryAt DEF StoreSound
  <1> QED
    BY <1>1 DEF Grows

(* Commands after commands. *)
LEMMA GrowsFurther ==
  ASSUME NEW sp, NEW sq, NEW sr, StoreSound(sp), Grows(sp, sq), Grows(sq, sr)
  PROVE  Grows(sp, sr)
  <1>1. Committed(sp) \in Nat /\ Committed(sq) \in Nat /\ Committed(sr) \in Nat
    BY HistoryAt DEF StoreSound, Grows
  <1>2. \A i \in 1 .. Committed(sp) : i \in 1 .. Committed(sq)
    BY <1>1 DEF Grows
  <1> QED
    BY <1>1, <1>2 DEF Grows

(* A filter that keeps what comes after the first l positions takes it as it  *)
(* is.                                                                        *)
LEMMA SuffixPlaces ==
  ASSUME NEW p, NEW g, NEW s, NEW at, NEW n \in Nat, FilterPlaces(p, g, s, at, n), Len(g) \in Nat,
         NEW l \in 0 .. n, \A i \in 1 .. n : i \in at <=> i > l
  PROVE  Len(g) = n - l /\ \A k \in 1 .. Len(g) : g[k] = s[l + k]
  <1> DEFINE m == Len(g)
             S == {k \in Nat : k \in 1 .. m => p[k] = l + k}
  <1>1. /\ \A k \in 1 .. m : p[k] \in 1 .. n /\ p[k] > l /\ g[k] = s[p[k]]
        /\ \A k, j \in 1 .. m : k < j => p[k] < p[j]
        /\ \A i \in 1 .. n : i > l => \E k \in 1 .. m : p[k] = i
        /\ m \in Nat
    BY DEF FilterPlaces
  <1> HIDE DEF m
  <1>2. 0 \in S
    OBVIOUS
  <1>3. ASSUME NEW k \in Nat, k \in S PROVE k + 1 \in S
    <2> SUFFICES ASSUME k + 1 \in 1 .. m PROVE p[k + 1] = l + (k + 1)
      OBVIOUS
    <2>1. p[k + 1] \in 1 .. n /\ p[k + 1] >= l + (k + 1)
      <3>1. CASE k = 0
        BY <1>1, <3>1
      <3>2. CASE k # 0
        <4>1. k \in 1 .. m /\ p[k] = l + k
          BY <1>1, <1>3, <3>2
        <4>2. p[k] < p[k + 1] /\ p[k + 1] \in 1 .. n
          BY <1>1, <4>1
        <4> QED
          BY <4>1, <4>2
      <3> QED
        BY <3>1, <3>2
    <2>2. ASSUME p[k + 1] > l + (k + 1) PROVE FALSE
      <3>1. l + (k + 1) \in 1 .. n /\ l + (k + 1) > l
        BY <2>1, <2>2
      <3>2. PICK j \in 1 .. m : p[j] = l + (k + 1)
        BY <1>1, <3>1
      <3>3. j < k + 1
        <4>1. j # k + 1 /\ ~(k + 1 < j)
          BY <1>1, <2>1, <2>2, <3>2
        <4> QED
          BY <1>1, <4>1
      <3>4. k \in 1 .. m /\ p[k] = l + k
        BY <1>1, <1>3, <3>3
      <3>5. j = k \/ j < k
        BY <3>3
      <3>6. ~(j < k)
        BY <1>1, <3>2, <3>4
      <3> QED
        BY <3>2, <3>4, <3>5, <3>6
    <2> QED
      BY <2>1, <2>2
  <1> HIDE DEF S
  <1>4. \A k \in Nat : k \in S
    BY <1>2, <1>3, NatInduct
  <1>5. \A k \in 1 .. m : p[k] = l + k
    BY <1>1, <1>4 DEF S
  <1>6. m <= n - l
    <2>1. CASE m = 0
      BY <2>1
    <2>2. CASE m # 0
      <3>1. m \in 1 .. m
        BY <1>1, <2>2
      <3>2. p[m] = l + m /\ p[m] \in 1 .. n /\ l \in Nat /\ m \in Nat
        BY <1>1, <1>5, <3>1
      <3> QED
        BY <3>2
    <2> QED
      BY <2>1, <2>2
  <1>7. ~(m < n - l)
    <2> SUFFICES ASSUME m < n - l PROVE FALSE
      OBVIOUS
    <2>1. l + (m + 1) \in 1 .. n /\ l + (m + 1) > l
      BY <1>1
    <2>2. PICK k \in 1 .. m : p[k] = l + (m + 1)
      BY <1>1, <2>1
    <2> QED
      BY <1>1, <1>5, <2>2
  <1> QED
    BY <1>1, <1>5, <1>6, <1>7 DEF m

(* A purge takes transactions from the front, and none that the cut does not  *)
(* come after.                                                                *)
LEMMA PurgeEffect ==
  ASSUME NEW sp, StoreSound(sp), IndexSound(sp), NEW cut \in Nat
  PROVE  /\ StoreSound(Compact(sp, cut)) /\ Committed(Compact(sp, cut)) = Committed(sp)
         /\ Lost(Compact(sp, cut)) <= cut /\ Mirrored(Compact(sp, cut))
  <1> DEFINE m  == Len(Events(sp))
             sq == Compact(sp, cut)
             pruned == PrunedTxIds(sp, cut)
             l  == IF cut = 0 THEN 0 ELSE IF cut - 1 <= m THEN cut - 1 ELSE m
  <1>1. /\ Counted(sp.idem) /\ IsSeq(Events(sp)) /\ m \in Nat
        /\ IsSeq(sp.txIndex) /\ Len(sp.txIndex) = m /\ Lost(sp) = 0
        /\ \A k \in 1 .. m : sp.txIndex[k].tx = Events(sp)[k].tx /\ sp.txIndex[k].txIndex = k
    BY IsSeqIsSeq DEF StoreSound, IndexSound
  <1>2. /\ \A k \in 1 .. m : Events(sp)[k].tx = Tx(k, History(sp)[k])
        /\ \A i \in 1 .. Committed(sp) : IsGraphEvent(History(sp)[i])
        /\ Committed(sp) = m
    <2>1. Committed(sp) \in Nat
      BY <1>1, HistoryAt
    <2>2. \A i \in 1 .. m : Lost(sp) + i = i
      BY <1>1
    <2>3. \A i \in 1 .. m : Events(sp)[i].tx = Tx(Lost(sp) + i, History(sp)[Lost(sp) + i])
      BY DEF StoreSound
    <2>4. \A k \in 1 .. m : Events(sp)[k].tx = Tx(k, History(sp)[k])
      BY <2>2, <2>3
    <2>5. Committed(sp) = m
      BY <1>1, <2>1 DEF Lost
    <2> QED
      BY <2>4, <2>5 DEF StoreSound
  <1>3. /\ sq.idem = sp.idem /\ Events(sq) = Kept(Events(sp), pruned)
        /\ sq.txIndex = Kept(sp.txIndex, pruned)
    BY DEF Compact, Events, Streams
  <1>4. l \in 0 .. m /\ l <= cut /\ \A k \in 1 .. m : k < cut <=> ~(k > l)
    BY <1>1
  <1>5. \A k \in 1 .. m : Events(sp)[k].tx \notin pruned <=> k > l
    <2>1. DOMAIN sp.txIndex = 1 .. m
      BY <1>1, IsSeqIsSeq
    <2>2. pruned = {sp.txIndex[i].tx : i \in {j \in 1 .. m : sp.txIndex[j].txIndex < cut}}
      BY <2>1 DEF PrunedTxIds
    <2>3. \A i \in 1 .. m : sp.txIndex[i].tx = Tx(i, History(sp)[i]) /\ sp.txIndex[i].txIndex = i
      BY <1>1, <1>2
    <2> HIDE DEF pruned, l, m
    <2>4. ASSUME NEW k \in 1 .. m, k < cut PROVE Tx(k, History(sp)[k]) \in pruned
      BY <2>2, <2>3, <2>4
    <2>5. ASSUME NEW k \in 1 .. m, ~(k < cut) PROVE Tx(k, History(sp)[k]) \notin pruned
      <3> SUFFICES ASSUME Tx(k, History(sp)[k]) \in pruned PROVE FALSE
        OBVIOUS
      <3>1. PICK i \in 1 .. m : i < cut /\ Tx(i, History(sp)[i]) = Tx(k, History(sp)[k])
        BY <2>2, <2>3
      <3>2. i = k
        BY <3>1 DEF Tx
      <3> QED
        BY <2>5, <3>1, <3>2
    <2>6. ASSUME NEW k \in 1 .. m PROVE Events(sp)[k].tx \notin pruned <=> k > l
      BY <1>2, <1>4, <2>4, <2>5
    <2> QED
      BY <2>6
  <1> HIDE DEF pruned, l, sq
  <1>6. /\ IsSeq(Events(sq)) /\ Len(Events(sq)) = m - l
        /\ \A k \in 1 .. m - l : Events(sq)[k] = Events(sp)[l + k]
    <2> DEFINE S == ElementsOf(Events(sp))
               at == KeptAt(Events(sp), pruned)
    <2>1. Events(sp) \in Seq(S)
      BY <1>1, IsSeqIsSeq
    <2>2. \A i \in 1 .. m : i \in at <=> i > l
      BY <1>5 DEF KeptAt
    <2> HIDE DEF S, at
    <2>3. Events(sq) \in Seq(S)
      BY <1>3, <2>1, KeptProperties
    <2>4. PICK p : FilterPlaces(p, Events(sq), Events(sp), at, m)
      BY <1>3, <2>1, KeptProperties DEF at
    <2>5. Len(Events(sq)) \in Nat
      BY <2>3
    <2> HIDE DEF m
    <2>6. Len(Events(sq)) = m - l /\ \A k \in 1 .. Len(Events(sq)) : Events(sq)[k] = Events(sp)[l + k]
      BY <1>1, <1>4, <2>2, <2>4, <2>5, SuffixPlaces
    <2> QED
      BY <2>3, <2>6, SeqIsSeq
  <1>7. Committed(sq) = m /\ History(sq) = History(sp)
    BY <1>2, <1>3 DEF Committed, History
  <1>8. Lost(sq) = l
    BY <1>1, <1>4, <1>6, <1>7 DEF Lost
  <1>9. ASSUME NEW i \in 1 .. m - l PROVE Events(sq)[i].tx = Tx(l + i, History(sq)[l + i])
    <2>1. l + i \in 1 .. m
      BY <1>1, <1>4
    <2> QED
      BY <1>2, <1>6, <1>7, <2>1
  <1>10. Len(Events(sq)) <= Committed(sq)
    BY <1>1, <1>4, <1>6, <1>7
  <1>11. StoreSound(sq)
    BY <1>1, <1>2, <1>3, <1>6, <1>7, <1>8, <1>9, <1>10 DEF StoreSound
  <1>12. ASSUME l = 0 PROVE IndexSound(sq)
    <2> DEFINE S == ElementsOf(sp.txIndex)
               at == KeptAt(sp.txIndex, pruned)
               x == sp.txIndex
               y == sq.txIndex
    <2>1. x \in Seq(S)
      BY <1>1, IsSeqIsSeq
    <2>2. \A i \in 1 .. m : i \in at <=> i > 0
      BY <1>1, <1>5, <1>12 DEF KeptAt
    <2>3. y = Kept(x, pruned)
      BY <1>3
    <2> HIDE DEF S, x, y
    <2>4. y \in Seq(S)
      BY <2>1, <2>3, KeptProperties
    <2>5. PICK p : FilterPlaces(p, y, x, at, Len(x))
      BY <2>1, <2>3, KeptProperties DEF x
    <2>6. Len(y) \in Nat /\ Len(x) = m
      BY <1>1, <2>4 DEF x
    <2> HIDE DEF m, at
    <2>7. FilterPlaces(p, y, x, at, m) /\ m \in Nat /\ 0 \in 0 .. m
      BY <1>1, <2>5, <2>6
    <2>8. Len(y) = m - 0 /\ \A k \in 1 .. Len(y) : y[k] = x[0 + k]
      BY <2>2, <2>6, <2>7, SuffixPlaces
    <2>9. Len(y) = m /\ \A k \in 1 .. m : y[k] = x[k]
      BY <2>7, <2>8
    <2>10. IsSeq(y)
      BY <2>4, SeqIsSeq
    <2>11. Len(Events(sq)) = m /\ \A k \in 1 .. m : Events(sq)[k] = Events(sp)[k]
      BY <1>1, <1>6, <1>12
    <2> QED
      BY <1>1, <1>8, <1>12, <2>9, <2>10, <2>11 DEF IndexSound, x, y
  <1> QED
    BY <1>2, <1>4, <1>7, <1>8, <1>11, <1>12 DEF sq, Mirrored

-----------------------------------------------------------------------------
(* Pages and graphs of a store *)

GraphOf(sp, k) == ApplyGraphEvents(EmptyGraph, SubSeq(History(sp), 1, k))

(* A page is what the store has at the positions after the cursor. *)
LEMMA PageEffect ==
  ASSUME NEW sp, StoreSound(sp), NEW cursor \in Nat, NEW limit \in Nat
  PROVE  LET page == Page(sp, cursor, limit) IN
         /\ IsSeq(page) /\ Len(page) \in Nat /\ DOMAIN page = 1 .. Len(page)
         /\ \A i \in 1 .. Len(page) : /\ cursor + i \in 1 .. Len(Events(sp))
                                      /\ page[i] = Events(sp)[cursor + i].tx
  <1> DEFINE n == IF cursor <= Len(Events(sp)) THEN Len(Events(sp)) - cursor ELSE 0
             rest == [i \in 1 .. n |-> Events(sp)[cursor + i].tx]
             k == Least(limit, n)
             page == Page(sp, cursor, limit)
  <1>1. Len(Events(sp)) \in Nat
    BY IsSeqIsSeq DEF StoreSound
  <1>2. n \in Nat /\ k \in 0 .. n
    BY <1>1 DEF Least
  <1>3. 1 .. Len(Events(sp)) - cursor = 1 .. n
    BY <1>1
  <1>4. HeadOf(sp) = Len(Events(sp))
    BY DEF HeadOf, CursorHead, Events, Streams
  <1>5. IsSeq(rest) /\ Len(rest) = n
    <2>1. \A i \in 1 .. n : rest[i] = Events(sp)[cursor + i].tx
      OBVIOUS
    <2>2. rest = [i \in 1 .. n |-> rest[i]]
      OBVIOUS
    <2> HIDE DEF rest, n
    <2> QED
      BY <1>2, <2>2, TupleIsSeq
  <1>6. page = SubSeq(rest, 1, k)
    <2>1. [i \in 1 .. HeadOf(sp) - cursor |-> sp.ev["graph"][cursor + i].tx] = rest
      BY <1>3, <1>4 DEF Events
    <2>2. page = LET all == [i \in 1 .. HeadOf(sp) - cursor |-> sp.ev["graph"][cursor + i].tx]
                 IN  SubSeq(all, 1, Least(limit, Len(all)))
      BY DEF Page
    <2> HIDE DEF rest, page, n
    <2> QED
      BY <1>5, <2>1, <2>2
  <1>7. \A i \in 1 .. n : rest[i] = Events(sp)[cursor + i].tx /\ cursor + i \in 1 .. Len(Events(sp))
    BY <1>1
  <1> HIDE DEF rest, n, k, page
  <1>8. rest \in Seq(ElementsOf(rest))
    BY <1>5, IsSeqIsSeq
  <1>9. /\ page \in Seq(ElementsOf(rest)) /\ Len(page) = k
        /\ \A i \in 1 .. k : page[i] = rest[i]
    BY <1>2, <1>5, <1>6, <1>8, PrefixProperties
  <1>10. IsSeq(page) /\ Len(page) \in Nat /\ DOMAIN page = 1 .. Len(page)
    BY <1>9, SeqIsSeq
  <1>11. \A i \in 1 .. Len(page) : i \in 1 .. n
    BY <1>2, <1>9
  <1>12. \A i \in 1 .. Len(page) : /\ cursor + i \in 1 .. Len(Events(sp))
                                   /\ page[i] = Events(sp)[cursor + i].tx
    BY <1>7, <1>9, <1>11
  <1> QED
    BY <1>10, <1>12 DEF page

(* The events of a page are graph events, and, of a store that has lost       *)
(* nothing, those that come after the cursor in its history.                  *)
LEMMA PageEvents ==
  ASSUME NEW sp, StoreSound(sp), NEW cursor \in Nat, NEW limit \in Nat
  PROVE  LET page == Page(sp, cursor, limit)
             events == [i \in DOMAIN page |-> page[i].event] IN
         /\ IsSeq(events) /\ Len(events) = Len(page) /\ Len(page) \in Nat
         /\ \A i \in 1 .. Len(page) : IsGraphEvent(events[i])
         /\ Lost(sp) = 0 => \A i \in 1 .. Len(page) : /\ cursor + i <= Committed(sp)
                                                      /\ events[i] = History(sp)[cursor + i]
  <1> DEFINE page == Page(sp, cursor, limit)
             events == [i \in DOMAIN page |-> page[i].event]
  <1>1. /\ IsSeq(page) /\ Len(page) \in Nat /\ DOMAIN page = 1 .. Len(page)
        /\ \A i \in 1 .. Len(page) : /\ cursor + i \in 1 .. Len(Events(sp))
                                     /\ page[i] = Events(sp)[cursor + i].tx
    BY PageEffect
  <1> HIDE DEF page
  <1>2. /\ Committed(sp) \in Nat /\ Len(Events(sp)) \in Nat /\ Len(Events(sp)) <= Committed(sp)
        /\ Lost(sp) = Committed(sp) - Len(Events(sp))
    BY HistoryAt, IsSeqIsSeq DEF StoreSound, Lost
  <1>3. \A i \in 1 .. Len(page) : events[i] = page[i].event
    BY <1>1
  <1>4. IsSeq(events) /\ Len(events) = Len(page)
    <2>1. events = [i \in 1 .. Len(page) |-> events[i]]
      BY <1>1
    <2> HIDE DEF events
    <2> QED
      BY <1>1, <2>1, TupleIsSeq
  <1> HIDE DEF events
  <1>5. ASSUME NEW i \in 1 .. Len(page)
        PROVE  /\ IsGraphEvent(events[i])
               /\ Lost(sp) = 0 => cursor + i <= Committed(sp) /\ events[i] = History(sp)[cursor + i]
    <2> DEFINE j == cursor + i
    <2>1. j \in 1 .. Len(Events(sp)) /\ page[i] = Events(sp)[j].tx
      BY <1>1
    <2>2. Lost(sp) + j \in 1 .. Committed(sp)
      BY <1>2, <2>1
    <2> HIDE DEF j
    <2>3. Events(sp)[j].tx = Tx(Lost(sp) + j, History(sp)[Lost(sp) + j])
      BY <2>1 DEF StoreSound
    <2>4. events[i] = History(sp)[Lost(sp) + j]
      BY <1>3, <2>1, <2>3 DEF Tx
    <2>5. IsGraphEvent(History(sp)[Lost(sp) + j])
      BY <2>2 DEF StoreSound
    <2>6. Lost(sp) = 0 => Lost(sp) + j = j /\ j <= Committed(sp)
      BY <1>2, <2>1
    <2> QED
      BY <2>4, <2>5, <2>6 DEF j
  <1> QED
    BY <1>1, <1>4, <1>5 DEF page, events

(* The events of a page, of any store, are graph events. *)
GraphEventsOn(page) ==
  LET events == [i \in DOMAIN page |-> page[i].event] IN
  /\ IsSeq(events) /\ Len(events) = Len(page) /\ Len(page) \in Nat
  /\ \A i \in 1 .. Len(page) : IsGraphEvent(events[i])

(* A page of any store has them, whether or not it has lost something. *)
LEMMA PageHasGraphEvents ==
  ASSUME NEW sp, StoreSound(sp), NEW cursor \in Nat, NEW limit \in Nat
  PROVE  GraphEventsOn(Page(sp, cursor, limit))
  BY PageEvents DEF GraphEventsOn

(* Appending changes no earlier graph. *)
LEMMA GraphStays ==
  ASSUME NEW sp, StoreSound(sp), NEW sq, Grows(sp, sq), NEW k \in 0 .. Committed(sp)
  PROVE  GraphOf(sq, k) = GraphOf(sp, k)
  <1> DEFINE h == History(sp)
             f == History(sq)
             S == ElementsOf(h) \cup ElementsOf(f)
  <1>1. /\ IsSeq(h) /\ Len(h) = Committed(sp) /\ IsSeq(f) /\ Len(f) = Committed(sq)
        /\ Committed(sp) \in Nat /\ Committed(sq) \in Nat
    BY HistoryIsSeq DEF StoreSound, Grows
  <1>2. Committed(sp) <= Committed(sq) /\ \A i \in 1 .. Committed(sp) : f[i] = h[i]
    BY DEF Grows
  <1>3. h \in Seq(S) /\ f \in Seq(S)
    <2>1. h \in Seq(ElementsOf(h)) /\ f \in Seq(ElementsOf(f))
      BY <1>1, IsSeqIsSeq
    <2> QED
      BY <2>1
  <1> HIDE DEF h, f, S
  <1>4. k \in 0 .. Len(h) /\ k \in 0 .. Len(f) /\ \A i \in 1 .. k : f[i] = h[i]
    BY <1>1, <1>2
  <1>5. /\ SubSeq(h, 1, k) \in Seq(S) /\ Len(SubSeq(h, 1, k)) = k
        /\ \A i \in 1 .. k : SubSeq(h, 1, k)[i] = h[i]
    BY <1>3, <1>4, PrefixProperties
  <1>6. /\ SubSeq(f, 1, k) \in Seq(S) /\ Len(SubSeq(f, 1, k)) = k
        /\ \A i \in 1 .. k : SubSeq(f, 1, k)[i] = f[i]
    BY <1>3, <1>4, PrefixProperties
  <1>7. SubSeq(h, 1, k) = SubSeq(f, 1, k)
    BY <1>4, <1>5, <1>6, SeqEqual
  <1> QED
    BY <1>7 DEF GraphOf, h, f

(* A page that is read on top of a graph of the history gives a later one. *)
LEMMA PageDraws ==
  ASSUME NEW sp, StoreSound(sp), Lost(sp) = 0, NEW cursor \in 0 .. Committed(sp), NEW limit \in Nat
  PROVE  LET page == Page(sp, cursor, limit) IN
         /\ cursor + Len(page) \in 0 .. Committed(sp)
         /\ ApplyGraphEvents(GraphOf(sp, cursor), [i \in DOMAIN page |-> page[i].event])
              = GraphOf(sp, cursor + Len(page))
  <1> DEFINE page == Page(sp, cursor, limit)
             events == [i \in DOMAIN page |-> page[i].event]
             h == History(sp)
             m == Len(page)
  <1>0. cursor \in Nat
    BY HistoryIsSeq DEF StoreSound
  <1>1. /\ IsSeq(events) /\ Len(events) = m /\ m \in Nat
        /\ \A i \in 1 .. m : cursor + i <= Committed(sp) /\ events[i] = h[cursor + i]
    BY <1>0, PageEvents
  <1>2. IsSeq(h) /\ Len(h) = Committed(sp) /\ Committed(sp) \in Nat
    BY HistoryIsSeq DEF StoreSound
  <1> HIDE DEF events, h, m
  <1>3. cursor + m <= Committed(sp)
    <2>1. m # 0 => m \in 1 .. m
      BY <1>1
    <2> QED
      BY <1>1, <1>2, <2>1
  <1>4. cursor \in Nat /\ cursor + m <= Len(h)
    BY <1>2, <1>3
  <1>5. ApplyGraphEvents(ApplyGraphEvents(EmptyGraph, SubSeq(h, 1, cursor)), events)
          = ApplyGraphEvents(EmptyGraph, SubSeq(h, 1, cursor + m))
    <2>1. \A i \in 1 .. m : events[i] = h[cursor + i]
      BY <1>1
    <2>2. PartOf(events, h, cursor, m)
      BY <1>1, <1>2, <1>4, <2>1 DEF PartOf
    <2> QED
      BY <2>2, DrawFurther
  <1> QED
    BY <1>1, <1>2, <1>3, <1>5 DEF GraphOf, h, events, m

-----------------------------------------------------------------------------
(* The server, beside explorers that ask for snapshots and have mishaps of    *)
(* their own: what a step of MCExplorer is to it.                             *)

Policy == [everyN : Nat, keep : Nat, maxEvents : Nat]

ProjectStep(p) ==
  \/ \E e : IsGraphEvent(e) /\ Commands(p, e)
  \/ CreatesSnapshot(p)
  \/ \E w \in Worker : \E s : Occupy(w, p, s) /\ UNCHANGED <<stores, catalog, mishaps>>
  \/ \E policy \in Policy : SetsPolicy(p, policy)
  \/ \E q \in Project, i \in Nat : ForkBegins(p, q, i)
  \/ PurgeBegins(p)

WorkerStep(w) ==
  \/ ReadsView(w) \/ Seals(w)
  \/ ForkCopies(w) \/ \E isFollowed \in BOOLEAN : ForkSets(w, isFollowed)
  \/ ChoosesCut(w) \/ Compacts(w) \/ RecordsPurge(w)

ExplorerMishap ==
  /\ \E m : m \notin {"purge", "repeated purge", "catalog lost"} /\ mishaps' = mishaps \cup {m}
  /\ UNCHANGED <<stores, catalog, jobs>>

ServerNext ==
  \/ \E p \in Project : ProjectStep(p)
  \/ \E w \in Worker : WorkerStep(w)
  \/ RestartsServer
  \/ ExplorerMishap

ServerSpec == ServerInit /\ [][ServerNext]_serverVars

-----------------------------------------------------------------------------
(* The inductive invariant, of any stores, catalog, jobs and mishaps.         *)

SnapshotSound(s) == s.cursor \in Nat /\ FiniteGraph(s.graph)

SnapshotsSound(shots) == IsSeq(shots) /\ \A i \in 1 .. Len(shots) : SnapshotSound(shots[i])

RecordSound(r) ==
  \E min \in Nat, policy \in Policy : \E shots :
    /\ r = [min |-> min, snapshots |-> shots, policy |-> policy]
    /\ IsSeq(shots) /\ \A i \in 1 .. Len(shots) : SnapshotSound(shots[i])

(* That a project has no record is not a record. *)
NoneIsNoRecord == \A r : RecordSound(r) => r # None

RecordIn(cat, p) == IF cat[p] = None THEN NewProject ELSE cat[p]

(* The job of a worker: reading a view, copying a snapshot, or purging. *)
Viewing(j) ==
  /\ j = [at |-> j.at, project |-> j.project, cursor |-> j.cursor, graph |-> j.graph, for |-> j.for]
  /\ j.project \in Project /\ j.cursor \in Nat /\ FiniteGraph(j.graph)

Forking(j) ==
  /\ j = [at |-> j.at, project |-> j.project, todo |-> j.todo, min |-> j.min, for |-> j.for]
  /\ j.project \in Project /\ j.min \in Nat
  /\ IsSeq(j.todo) /\ \A i \in 1 .. Len(j.todo) : IsGraphEvent(j.todo[i])

Choosing(j) == j.project \in Project /\ j.keep \in Nat /\ SnapshotsSound(j.shots)

Purging(j) ==
  /\ j = [at |-> j.at, project |-> j.project, min |-> j.min, kept |-> j.kept, for |-> j.for]
  /\ j.project \in Project /\ j.min \in Nat /\ SnapshotsSound(j.kept)

JobSound(j) ==
  /\ j.at \in {"view", "head"} => Viewing(j)
  /\ j.at = "copy" => Forking(j)
  /\ j.at = "purge" => Choosing(j)
  /\ j.at \in {"cut", "record"} => Purging(j)

StoresSound(st) ==
  st = [p \in Project |-> st[p]] /\ \A p \in Project : StoreSound(st[p]) /\ Mirrored(st[p])

CatalogSound(cat) ==
  cat = [p \in Project |-> cat[p]] /\ \A p \in Project : RecordSound(RecordIn(cat, p))

JobsSound(js) == js = [w \in Worker |-> js[w]] /\ \A w \in Worker : JobSound(js[w])

(* What was lost of a project is not readable, once its purge is recorded; if *)
(* it is not yet, the job knows the cursor.                                   *)
OnlyOldLost(st, cat, js, mis) ==
  \A p \in Project :
    \/ Lost(st[p]) <= RecordIn(cat, p).min
    \/ \E w \in Worker : js[w].at = "record" /\ js[w].project = p
    \/ {"catalog lost", "purge cut short", "half-made fork"} \cap mis # {}

Recording(st, js, mis) ==
  \A w \in Worker :
    js[w].at = "record" => "purge" \in mis /\ Lost(st[js[w].project]) <= js[w].min

(* What a worker has read is the graph at its cursor, and a snapshot is one   *)
(* that is not after its own.                                                 *)
ViewDrawn(j, st) ==
  j.at \in {"view", "head"} => /\ j.cursor <= Committed(st[j.project])
                               /\ j.graph = GraphOf(st[j.project], j.cursor)

SnapshotDrawn(s, sp) ==
  s.cursor <= Committed(sp) /\ \E k \in 0 .. s.cursor : s.graph = Shown(GraphOf(sp, k))

SnapshotsDrawn(r, sp) == \A i \in 1 .. Len(r.snapshots) : SnapshotDrawn(r.snapshots[i], sp)

AllMirrored(st) == \A p \in Project : IndexSound(st[p])

AllDrawn(st, cat, js) ==
  /\ \A w \in Worker : ViewDrawn(js[w], st)
  /\ \A p \in Project : SnapshotsDrawn(RecordIn(cat, p), st[p])

Whole(st, cat, js, mis) == "purge" \in mis \/ (AllMirrored(st) /\ AllDrawn(st, cat, js))

ServerSound ==
  /\ StoresSound(stores) /\ CatalogSound(catalog) /\ JobsSound(jobs)
  /\ OnlyOldLost(stores, catalog, jobs, mishaps) /\ Recording(stores, jobs, mishaps)
  /\ Whole(stores, catalog, jobs, mishaps)

(* Nothing of it is left when a project has been purged again. *)
ServerKept == {"purge", "repeated purge"} \subseteq mishaps \/ ServerSound

-----------------------------------------------------------------------------
(* What the steps have in common *)

(* The graph that drawing begins with is finite. *)
LEMMA EmptyFinite == FiniteGraph(EmptyGraph)
  BY FS_EmptySet, Zenon DEF FiniteGraph, EmptyGraph

(* Before the first event there is nothing. *)
LEMMA GraphOfNothing ==
  ASSUME NEW sp, StoreSound(sp)
  PROVE  GraphOf(sp, 0) = EmptyGraph
  <1>1. IsSeq(History(sp))
    BY HistoryIsSeq DEF StoreSound
  <1>2. History(sp) \in Seq(ElementsOf(History(sp))) /\ 0 \in 0 .. Len(History(sp))
    BY <1>1, IsSeqIsSeq
  <1>3. Len(SubSeq(History(sp), 1, 0)) = 0
    BY <1>2, PrefixProperties
  <1> QED
    BY <1>3, DrawNothing DEF GraphOf

(* A record, by its fields. *)
LEMMA RecordFields ==
  ASSUME NEW r, RecordSound(r)
  PROVE  /\ r.min \in Nat /\ r.policy \in Policy /\ IsSeq(r.snapshots)
         /\ Len(r.snapshots) \in Nat /\ DOMAIN r.snapshots = 1 .. Len(r.snapshots)
         /\ r = [min |-> r.min, snapshots |-> r.snapshots, policy |-> r.policy]
         /\ \A i \in 1 .. Len(r.snapshots) : SnapshotSound(r.snapshots[i])
  <1>1. PICK min \in Nat, policy \in Policy : \E shots :
          /\ r = [min |-> min, snapshots |-> shots, policy |-> policy]
          /\ IsSeq(shots) /\ \A i \in 1 .. Len(shots) : SnapshotSound(shots[i])
    BY DEF RecordSound
  <1>a. PICK shots :
          /\ r = [min |-> min, snapshots |-> shots, policy |-> policy]
          /\ IsSeq(shots) /\ \A i \in 1 .. Len(shots) : SnapshotSound(shots[i])
    BY <1>1
  <1>2. Len(shots) \in Nat /\ DOMAIN shots = 1 .. Len(shots)
    BY <1>a, IsSeqIsSeq
  <1> QED
    BY <1>a, <1>2

(* And made of them. *)
LEMMA RecordMade ==
  ASSUME NEW min \in Nat, NEW shots, IsSeq(shots), NEW policy \in Policy,
         \A i \in 1 .. Len(shots) : SnapshotSound(shots[i])
  PROVE  RecordSound([min |-> min, snapshots |-> shots, policy |-> policy])
  <1> DEFINE r == [min |-> min, snapshots |-> shots, policy |-> policy]
  <1> SUFFICES RecordSound(r)
    OBVIOUS
  <1>1. r = [min |-> min, snapshots |-> shots, policy |-> policy]
    OBVIOUS
  <1> HIDE DEF r
  <1> SUFFICES \E m \in Nat, t \in Policy : \E x :
                 /\ r = [min |-> m, snapshots |-> x, policy |-> t]
                 /\ IsSeq(x) /\ \A i \in 1 .. Len(x) : SnapshotSound(x[i])
    BY DEF RecordSound
  <1> WITNESS min \in Nat, policy \in Policy
  <1> WITNESS shots
  <1> QED
    BY <1>1

(* Appending leaves what is drawn. *)
LEMMA DrawnStays ==
  ASSUME NEW st, StoresSound(st), NEW sq, \A p \in Project : Grows(st[p], sq[p]),
         NEW cat, NEW js, JobsSound(js), CatalogSound(cat), AllDrawn(st, cat, js)
  PROVE  AllDrawn(sq, cat, js)
  <1>1. \A p \in Project : /\ Committed(st[p]) \in Nat /\ Committed(sq[p]) \in Nat
                           /\ Committed(st[p]) <= Committed(sq[p])
                           /\ StoreSound(st[p])
    BY HistoryAt DEF StoresSound, StoreSound, Grows
  <1>2. ASSUME NEW p \in Project, NEW k \in 0 .. Committed(st[p])
        PROVE  GraphOf(sq[p], k) = GraphOf(st[p], k)
    BY <1>1, GraphStays
  <1>3. ASSUME NEW w \in Worker PROVE ViewDrawn(js[w], sq)
    <2> SUFFICES ASSUME js[w].at \in {"view", "head"}
                 PROVE  /\ js[w].cursor <= Committed(sq[js[w].project])
                        /\ js[w].graph = GraphOf(sq[js[w].project], js[w].cursor)
      BY DEF ViewDrawn
    <2> DEFINE p == js[w].project
               c == js[w].cursor
    <2>1. p \in Project /\ c \in Nat
      BY DEF JobsSound, JobSound, Viewing
    <2>2. c <= Committed(st[p]) /\ js[w].graph = GraphOf(st[p], c)
      BY DEF AllDrawn, ViewDrawn
    <2> HIDE DEF p, c
    <2>3. c \in 0 .. Committed(st[p]) /\ c <= Committed(sq[p])
      BY <1>1, <2>1, <2>2
    <2>4. GraphOf(sq[p], c) = GraphOf(st[p], c)
      BY <1>2, <2>1, <2>3
    <2> QED
      BY <2>2, <2>3, <2>4 DEF p, c
  <1>4. ASSUME NEW p \in Project, NEW s, s.cursor \in Nat, SnapshotDrawn(s, st[p])
        PROVE  SnapshotDrawn(s, sq[p])
    <2> DEFINE c == s.cursor
    <2>1. PICK k \in 0 .. c : c <= Committed(st[p]) /\ s.graph = Shown(GraphOf(st[p], k))
      BY <1>4 DEF SnapshotDrawn
    <2>2. c \in Nat
      BY <1>4
    <2> HIDE DEF c
    <2>3. k \in 0 .. Committed(st[p]) /\ c <= Committed(sq[p])
      BY <1>1, <2>1, <2>2
    <2>4. s.graph = Shown(GraphOf(sq[p], k))
      BY <1>2, <2>1, <2>3
    <2> QED
      BY <2>3, <2>4 DEF SnapshotDrawn, c
  <1>5. ASSUME NEW p \in Project PROVE SnapshotsDrawn(RecordIn(cat, p), sq[p])
    <2> DEFINE r == RecordIn(cat, p)
    <2>1. RecordSound(r) /\ SnapshotsDrawn(r, st[p])
      BY DEF CatalogSound, AllDrawn
    <2> HIDE DEF r
    <2>2. \A i \in 1 .. Len(r.snapshots) : r.snapshots[i].cursor \in Nat
      BY <2>1, RecordFields DEF SnapshotSound
    <2>3. \A i \in 1 .. Len(r.snapshots) : SnapshotDrawn(r.snapshots[i], sq[p])
      BY <1>4, <2>1, <2>2 DEF SnapshotsDrawn
    <2> QED
      BY <2>3 DEF SnapshotsDrawn, r
  <1> QED
    BY <1>3, <1>5 DEF AllDrawn

(* What is kept for each project or worker, but for one. *)
Replaced(st, q, x, after) == after = [st EXCEPT ![q] = x]

(* The workers that have purged and not recorded it yet are the same. *)
SameRecorders(js, js1) ==
  \A w \in Worker : js[w].at = "record" \/ js1[w].at = "record" => js1[w] = js[w]

(* One job that changes. *)
LEMMA OneJob ==
  ASSUME NEW js, JobsSound(js), NEW w \in Worker, NEW j, JobSound(j), NEW after, Replaced(js, w, j, after)
  PROVE  /\ JobsSound(after) /\ \A v \in Worker : after[v] = IF v = w THEN j ELSE js[v]
         /\ js[w].at # "record" /\ j.at # "record" => SameRecorders(js, after)
         /\ \A st : ViewDrawn(j, st) /\ (\A v \in Worker : ViewDrawn(js[v], st))
                      => \A v \in Worker : ViewDrawn(after[v], st)
  <1>1. js = [v \in Worker |-> js[v]] /\ \A v \in Worker : JobSound(js[v])
    BY DEF JobsSound
  <1>2. after = [v \in Worker |-> IF v = w THEN j ELSE js[v]]
    BY <1>1 DEF Replaced
  <1>3. after = [v \in Worker |-> after[v]] /\ \A v \in Worker : after[v] = IF v = w THEN j ELSE js[v]
    BY <1>2
  <1>4. JobsSound(after)
    <2>1. \A v \in Worker : JobSound(after[v])
      BY <1>1, <1>3
    <2> QED
      BY <1>3, <2>1 DEF JobsSound
  <1>5. ASSUME js[w].at # "record", j.at # "record" PROVE SameRecorders(js, after)
    BY <1>3, <1>5 DEF SameRecorders
  <1>6. ASSUME NEW st, ViewDrawn(j, st), \A v \in Worker : ViewDrawn(js[v], st)
        PROVE  \A v \in Worker : ViewDrawn(after[v], st)
    BY <1>3, <1>6
  <1> QED
    BY <1>3, <1>4, <1>5, <1>6

(* A request that begins a snapshot has drawn nothing. *)
LEMMA StartingSound ==
  ASSUME NEW p \in Project, NEW s
  PROVE  /\ JobSound(Starting(p, s)) /\ Starting(p, s).at = "view"
         /\ \A st : StoresSound(st) => ViewDrawn(Starting(p, s), st)
  <1> DEFINE j == Starting(p, s)
  <1>1. /\ j.at = "view" /\ j.project = p /\ j.cursor = 0 /\ j.graph = EmptyGraph
        /\ j = [at |-> j.at, project |-> j.project, cursor |-> j.cursor, graph |-> j.graph, for |-> j.for]
    BY DEF Starting
  <1> HIDE DEF j
  <1>2. JobSound(j)
    BY <1>1, EmptyFinite DEF JobSound, Viewing
  <1>3. ASSUME NEW st, StoresSound(st) PROVE ViewDrawn(j, st)
    <2>1. StoreSound(st[p])
      BY <1>3 DEF StoresSound
    <2>2. Committed(st[p]) \in Nat /\ GraphOf(st[p], 0) = EmptyGraph
      BY <2>1, GraphOfNothing, HistoryAt DEF StoreSound
    <2> QED
      BY <1>1, <2>2 DEF ViewDrawn
  <1> QED
    BY <1>1, <1>2, <1>3 DEF j

(* Whoever has nothing to do can take any job. *)
LEMMA TakesKeeps ==
  ASSUME NEW w \in Worker, NEW j, Takes(w, j), JobSound(j), j.at # "record", JobsSound(jobs)
  PROVE  /\ JobsSound(jobs') /\ SameRecorders(jobs, jobs')
         /\ \A st : ViewDrawn(j, st) /\ (\A v \in Worker : ViewDrawn(jobs[v], st))
                      => \A v \in Worker : ViewDrawn(jobs'[v], st)
  <1>1. Replaced(jobs, w, j, jobs') /\ jobs[w].at # "record"
    BY DEF Takes, Replaced, Idle
  <1> QED
    BY <1>1, OneJob

(* A snapshot, for whoever asks, begins with nothing read.                    *)
LEMMA OccupyKeeps ==
  ASSUME NEW w \in Worker, NEW p \in Project, NEW s, Occupy(w, p, s), JobsSound(jobs)
  PROVE  /\ JobsSound(jobs') /\ SameRecorders(jobs, jobs')
         /\ \A st : StoresSound(st) /\ (\A v \in Worker : ViewDrawn(jobs[v], st))
                      => \A v \in Worker : ViewDrawn(jobs'[v], st)
  <1> DEFINE j == Starting(p, s)
  <1>1. Takes(w, j)
    BY DEF Occupy
  <1>2. JobSound(j) /\ j.at # "record" /\ \A st : StoresSound(st) => ViewDrawn(j, st)
    <2>1. /\ JobSound(Starting(p, s)) /\ Starting(p, s).at = "view"
          /\ \A st : StoresSound(st) => ViewDrawn(Starting(p, s), st)
      BY StartingSound
    <2> QED
      BY <2>1
  <1> HIDE DEF j
  <1>3. /\ JobsSound(jobs') /\ SameRecorders(jobs, jobs')
        /\ \A st : ViewDrawn(j, st) /\ (\A v \in Worker : ViewDrawn(jobs[v], st))
                     => \A v \in Worker : ViewDrawn(jobs'[v], st)
    BY <1>1, <1>2, TakesKeeps
  <1> QED
    BY <1>2, <1>3

(* What is lost, readable and being recorded is the same. *)
LEMMA LossesStay ==
  ASSUME NEW st, NEW cat, NEW js, NEW mis, JobsSound(js), OnlyOldLost(st, cat, js, mis),
         Recording(st, js, mis), NEW st1, NEW cat1, NEW js1, NEW mis1,
         \A p \in Project : Lost(st1[p]) = Lost(st[p]),
         \A p \in Project : RecordIn(cat1, p).min = RecordIn(cat, p).min,
         SameRecorders(js, js1), mis \subseteq mis1
  PROVE  OnlyOldLost(st1, cat1, js1, mis1) /\ Recording(st1, js1, mis1)
  <1>1. ASSUME NEW w \in Worker, js[w].at = "record" \/ js1[w].at = "record"
        PROVE  js1[w] = js[w] /\ js[w].project \in Project
    <2>1. js1[w] = js[w] /\ js[w].at = "record"
      BY <1>1 DEF SameRecorders
    <2> QED
      BY <2>1 DEF JobsSound, JobSound, Purging
  <1>2. ASSUME NEW p \in Project
        PROVE  \/ Lost(st1[p]) <= RecordIn(cat1, p).min
               \/ \E w \in Worker : js1[w].at = "record" /\ js1[w].project = p
               \/ {"catalog lost", "purge cut short", "half-made fork"} \cap mis1 # {}
    <2>1. CASE Lost(st[p]) <= RecordIn(cat, p).min
      BY <2>1
    <2>2. CASE \E w \in Worker : js[w].at = "record" /\ js[w].project = p
      BY <1>1, <2>2
    <2>3. CASE {"catalog lost", "purge cut short", "half-made fork"} \cap mis # {}
      BY <2>3
    <2> QED
      BY <2>1, <2>2, <2>3 DEF OnlyOldLost
  <1>3. ASSUME NEW w \in Worker, js1[w].at = "record"
        PROVE  "purge" \in mis1 /\ Lost(st1[js1[w].project]) <= js1[w].min
    <2>1. js1[w] = js[w] /\ js[w].project \in Project
      BY <1>1, <1>3
    <2>2. "purge" \in mis /\ Lost(st[js[w].project]) <= js[w].min
      BY <1>3, <2>1 DEF Recording
    <2> QED
      BY <2>1, <2>2
  <1> QED
    BY <1>2, <1>3 DEF OnlyOldLost, Recording

(* One store that grows, the others staying. *)
LEMMA OneGrows ==
  ASSUME NEW st, StoresSound(st), NEW q \in Project, NEW sq, Grows(st[q], sq),
         NEW after, Replaced(st, q, sq, after)
  PROVE  /\ StoresSound(after) /\ \A p \in Project : Grows(st[p], after[p])
         /\ \A p \in Project : Lost(after[p]) = Lost(st[p])
         /\ AllMirrored(st) => AllMirrored(after)
  <1>1. st = [p \in Project |-> st[p]] /\ \A p \in Project : StoreSound(st[p])
    BY DEF StoresSound
  <1>2. /\ after = [p \in Project |-> after[p]]
        /\ \A p \in Project : after[p] = IF p = q THEN sq ELSE st[p]
    BY <1>1 DEF Replaced
  <1>3. \A p \in Project : Grows(st[p], after[p])
    BY <1>1, <1>2, GrowsNot
  <1>4. \A p \in Project : StoreSound(after[p]) /\ Lost(after[p]) = Lost(st[p])
                             /\ (IndexSound(st[p]) => IndexSound(after[p]))
                             /\ Mirrored(after[p])
    BY <1>3 DEF Grows, StoresSound, Mirrored
  <1> QED
    BY <1>2, <1>3, <1>4 DEF StoresSound, AllMirrored

(* One record that changes. *)
LEMMA OneRecord ==
  ASSUME NoneIsNoRecord, NEW cat, CatalogSound(cat), NEW q \in Project, NEW r, RecordSound(r),
         NEW after, Replaced(cat, q, r, after)
  PROVE  /\ CatalogSound(after)
         /\ \A p \in Project : RecordIn(after, p) = IF p = q THEN r ELSE RecordIn(cat, p)
  <1>1. /\ cat = [p \in Project |-> cat[p]]
        /\ \A p \in Project : RecordSound(RecordIn(cat, p))
    BY DEF CatalogSound
  <1>2. /\ after = [p \in Project |-> after[p]]
        /\ \A p \in Project : after[p] = IF p = q THEN r ELSE cat[p]
    BY <1>1 DEF Replaced
  <1>3. r # None
    BY DEF NoneIsNoRecord
  <1>4. \A p \in Project : RecordIn(after, p) = IF p = q THEN r ELSE RecordIn(cat, p)
    BY <1>2, <1>3 DEF RecordIn
  <1>5. \A p \in Project : RecordSound(RecordIn(after, p))
    BY <1>1, <1>4
  <1> QED
    BY <1>2, <1>4, <1>5 DEF CatalogSound

(* ensureProject, of the catalog as it is. *)
LEMMA RecordIs == ASSUME NEW p PROVE Record(p) = RecordIn(catalog, p)
  BY DEF Record, RecordIn

(* graph:nodes and the others *)
LEMMA CommandsKeep ==
  ASSUME NoneIsNoRecord, ServerSound, NEW p \in Project, NEW e, IsGraphEvent(e), Commands(p, e)
  PROVE  ServerSound'
  <1> DEFINE sq == Submit(stores[p], e)
             r == RecordIn(catalog, p)
  <1>1. /\ stores' = [stores EXCEPT ![p] = sq] /\ catalog' = [catalog EXCEPT ![p] = r]
        /\ mishaps' = mishaps
        /\ jobs' = jobs \/ \E w \in Worker : Occupy(w, p, None)
    BY RecordIs DEF Commands
  <1>2. StoresSound(stores) /\ CatalogSound(catalog) /\ JobsSound(jobs)
    BY DEF ServerSound
  <1>3. StoreSound(stores[p]) /\ RecordSound(r)
    BY <1>2 DEF StoresSound, CatalogSound
  <1>4. Grows(stores[p], sq)
    BY <1>3, SubmitGrows
  <1> HIDE DEF sq, r
  <1>5. /\ StoresSound(stores') /\ \A q \in Project : Grows(stores[q], stores'[q])
        /\ \A q \in Project : Lost(stores'[q]) = Lost(stores[q])
        /\ AllMirrored(stores) => AllMirrored(stores')
    <2>1. Replaced(stores, p, sq, stores')
      BY <1>1 DEF Replaced
    <2> QED
      BY <1>2, <1>4, <2>1, OneGrows
  <1>6. /\ CatalogSound(catalog')
        /\ \A q \in Project : RecordIn(catalog', q) = RecordIn(catalog, q)
    <2>1. Replaced(catalog, p, r, catalog')
      BY <1>1 DEF Replaced
    <2>2. /\ CatalogSound(catalog')
          /\ \A q \in Project : RecordIn(catalog', q) = IF q = p THEN r ELSE RecordIn(catalog, q)
      BY <1>2, <1>3, <2>1, OneRecord
    <2> QED
      BY <2>2 DEF r
  <1>7. JobsSound(jobs') /\ SameRecorders(jobs, jobs')
    <2>1. SameRecorders(jobs, jobs)
      BY DEF SameRecorders
    <2> QED
      BY <1>1, <1>2, <2>1, OccupyKeeps
  <1>8. OnlyOldLost(stores', catalog', jobs', mishaps') /\ Recording(stores', jobs', mishaps')
    <2>1. OnlyOldLost(stores, catalog, jobs, mishaps) /\ Recording(stores, jobs, mishaps)
      BY DEF ServerSound
    <2>2. mishaps \subseteq mishaps' /\ \A q \in Project : RecordIn(catalog', q).min = RecordIn(catalog, q).min
      BY <1>1, <1>6
    <2> QED
      BY <1>2, <1>5, <1>7, <2>1, <2>2, LossesStay
  <1>9. ASSUME AllMirrored(stores), AllDrawn(stores, catalog, jobs)
        PROVE  AllMirrored(stores') /\ AllDrawn(stores', catalog', jobs')
    <2>1. AllDrawn(stores', catalog, jobs)
      BY <1>2, <1>5, <1>9, DrawnStays
    <2>2. \A w \in Worker : ViewDrawn(jobs'[w], stores')
      BY <1>1, <1>2, <1>5, <2>1, OccupyKeeps DEF AllDrawn
    <2> QED
      BY <1>5, <1>6, <1>9, <2>1, <2>2 DEF AllDrawn
  <1>10. Whole(stores', catalog', jobs', mishaps')
    BY <1>1, <1>9 DEF ServerSound, Whole
  <1> QED
    BY <1>5, <1>6, <1>7, <1>8, <1>10 DEF ServerSound

(* snapshots:create, and an explorer that asks for one *)
LEMMA OccupiedKeeps ==
  ASSUME ServerSound, NEW w \in Worker, NEW p \in Project, NEW s, Occupy(w, p, s),
         UNCHANGED <<stores, catalog, mishaps>>
  PROVE  ServerSound'
  <1>1. stores' = stores /\ catalog' = catalog /\ mishaps' = mishaps
    OBVIOUS
  <1>2. StoresSound(stores) /\ CatalogSound(catalog) /\ JobsSound(jobs)
    BY DEF ServerSound
  <1>3. JobsSound(jobs') /\ SameRecorders(jobs, jobs')
    BY <1>2, OccupyKeeps
  <1>a. OnlyOldLost(stores', catalog', jobs', mishaps') /\ Recording(stores', jobs', mishaps')
    BY <1>1, <1>2, <1>3, LossesStay DEF ServerSound
  <1>4. ASSUME AllDrawn(stores, catalog, jobs) PROVE AllDrawn(stores, catalog, jobs')
    BY <1>2, <1>4, OccupyKeeps DEF AllDrawn
  <1>5. Whole(stores', catalog', jobs', mishaps')
    BY <1>1, <1>4 DEF ServerSound, Whole
  <1> QED
    BY <1>1, <1>2, <1>3, <1>a, <1>5 DEF ServerSound

(* PATCH retention *)
LEMMA SetsPolicyKeeps ==
  ASSUME NoneIsNoRecord, ServerSound, NEW p \in Project, NEW policy \in Policy, SetsPolicy(p, policy)
  PROVE  ServerSound'
  <1> DEFINE r == RecordIn(catalog, p)
             t == [r EXCEPT !.policy = policy]
  <1>1. catalog' = [catalog EXCEPT ![p] = t] /\ stores' = stores /\ jobs' = jobs /\ mishaps' = mishaps
    BY RecordIs DEF SetsPolicy
  <1>2. StoresSound(stores) /\ CatalogSound(catalog) /\ JobsSound(jobs)
    BY DEF ServerSound
  <1>3. RecordSound(r)
    BY <1>2 DEF CatalogSound
  <1> HIDE DEF r
  <1>4. t = [min |-> r.min, snapshots |-> r.snapshots, policy |-> policy]
    <2>1. r = [min |-> r.min, snapshots |-> r.snapshots, policy |-> r.policy]
      BY <1>3, RecordFields
    <2> QED
      BY <2>1
  <1>5. t.min = r.min /\ t.snapshots = r.snapshots
    BY <1>4
  <1>6. RecordSound(t)
    <2>1. /\ r.min \in Nat /\ IsSeq(r.snapshots)
          /\ \A i \in 1 .. Len(r.snapshots) : SnapshotSound(r.snapshots[i])
      BY <1>3, RecordFields
    <2>2. RecordSound([min |-> r.min, snapshots |-> r.snapshots, policy |-> policy])
      BY <2>1, RecordMade
    <2> QED
      BY <1>4, <2>2
  <1> HIDE DEF t
  <1>7. /\ CatalogSound(catalog')
        /\ \A q \in Project : RecordIn(catalog', q) = IF q = p THEN t ELSE RecordIn(catalog, q)
    <2>1. Replaced(catalog, p, t, catalog')
      BY <1>1 DEF Replaced
    <2> QED
      BY <1>2, <1>6, <2>1, OneRecord
  <1>8. \A q \in Project : /\ RecordIn(catalog', q).min = RecordIn(catalog, q).min
                           /\ RecordIn(catalog', q).snapshots = RecordIn(catalog, q).snapshots
    BY <1>5, <1>7 DEF r
  <1>9. OnlyOldLost(stores', catalog', jobs', mishaps') /\ Recording(stores', jobs', mishaps')
    <2>1. SameRecorders(jobs, jobs')
      BY <1>1 DEF SameRecorders
    <2> QED
      BY <1>1, <1>2, <1>8, <2>1, LossesStay DEF ServerSound
  <1>10. Whole(stores', catalog', jobs', mishaps')
    <2>1. \A q \in Project : SnapshotsDrawn(RecordIn(catalog, q), stores[q])
                               => SnapshotsDrawn(RecordIn(catalog', q), stores[q])
      BY <1>8 DEF SnapshotsDrawn
    <2> QED
      BY <1>1, <2>1 DEF ServerSound, Whole, AllDrawn
  <1> QED
    BY <1>1, <1>2, <1>7, <1>9, <1>10 DEF ServerSound

(* A record with another least cursor. *)
LEMMA RecordFrom ==
  ASSUME NEW r, RecordSound(r), NEW c \in Nat
  PROVE  /\ RecordSound([r EXCEPT !.min = c]) /\ [r EXCEPT !.min = c].min = c
         /\ [r EXCEPT !.min = c].snapshots = r.snapshots
  <1> DEFINE t == [r EXCEPT !.min = c]
             shots == r.snapshots
             policy == r.policy
  <1>1. t = [min |-> c, snapshots |-> shots, policy |-> policy]
    <2>1. r = [min |-> r.min, snapshots |-> r.snapshots, policy |-> r.policy]
      BY RecordFields
    <2> QED
      BY <2>1
  <1>2. IsSeq(shots) /\ policy \in Policy /\ \A i \in 1 .. Len(shots) : SnapshotSound(shots[i])
    BY RecordFields
  <1> HIDE DEF t, shots, policy
  <1>3. RecordSound(t) /\ t.min = c /\ t.snapshots = shots
    BY <1>1, <1>2, RecordMade
  <1> QED
    BY <1>3 DEF t, shots

(* snapshots/:id:fork, at its beginning: there is a record of the new project. *)
LEMMA ForkBeginsKeeps ==
  ASSUME NoneIsNoRecord, ServerSound, NEW p \in Project, NEW q \in Project, NEW i \in Nat, ForkBegins(p, q, i)
  PROVE  ServerSound'
  <1> DEFINE shots == RecordIn(catalog, p).snapshots
             r == RecordIn(catalog, q)
             j == Copying(q, shots[i])
  <1>1. StoresSound(stores) /\ CatalogSound(catalog) /\ JobsSound(jobs)
    BY DEF ServerSound
  <1>2. /\ i \in DOMAIN shots /\ catalog' = [catalog EXCEPT ![q] = r]
        /\ stores' = stores /\ mishaps' = mishaps
    BY RecordIs DEF ForkBegins
  <1>3. PICK w \in Worker : Takes(w, j)
    BY RecordIs DEF ForkBegins
  <1>4. SnapshotSound(shots[i])
    <2>1. RecordSound(RecordIn(catalog, p))
      BY <1>1 DEF CatalogSound
    <2>2. DOMAIN shots = 1 .. Len(shots) /\ \A k \in 1 .. Len(shots) : SnapshotSound(shots[k])
      BY <2>1, RecordFields
    <2> QED
      BY <1>2, <2>2
  <1>5. JobSound(j) /\ j.at = "copy"
    <2> DEFINE c == shots[i].cursor
               todo == EventsOf(shots[i].graph)
    <2>1. c \in Nat /\ IsSeq(todo) /\ \A k \in 1 .. Len(todo) : IsGraphEvent(todo[k])
      BY <1>4, EventsOfSound DEF SnapshotSound
    <2>2. j = [at |-> "copy", project |-> q, todo |-> todo, min |-> c, for |-> None]
      BY DEF Copying
    <2> HIDE DEF c, todo, j
    <2> QED
      BY <2>1, <2>2 DEF JobSound, Forking
  <1> HIDE DEF j, shots
  <1>6. /\ CatalogSound(catalog') /\ \A s \in Project : RecordIn(catalog', s) = RecordIn(catalog, s)
    <2>1. RecordSound(r) /\ Replaced(catalog, q, r, catalog')
      BY <1>1, <1>2 DEF Replaced, CatalogSound
    <2> HIDE DEF r
    <2>2. /\ CatalogSound(catalog')
          /\ \A s \in Project : RecordIn(catalog', s) = IF s = q THEN r ELSE RecordIn(catalog, s)
      BY <1>1, <2>1, OneRecord
    <2> QED
      BY <2>2 DEF r
  <1>7. /\ JobsSound(jobs') /\ SameRecorders(jobs, jobs')
        /\ (\A v \in Worker : ViewDrawn(jobs[v], stores)) => \A v \in Worker : ViewDrawn(jobs'[v], stores)
    <2>1. ViewDrawn(j, stores)
      BY <1>5 DEF ViewDrawn
    <2> QED
      BY <1>1, <1>3, <1>5, <2>1, TakesKeeps
  <1>8. OnlyOldLost(stores', catalog', jobs', mishaps') /\ Recording(stores', jobs', mishaps')
    BY <1>1, <1>2, <1>6, <1>7, LossesStay DEF ServerSound
  <1>9. Whole(stores', catalog', jobs', mishaps')
    BY <1>2, <1>6, <1>7 DEF ServerSound, Whole, AllDrawn
  <1> QED
    BY <1>1, <1>2, <1>6, <1>7, <1>8, <1>9 DEF ServerSound

(* What is left of a list of commands. *)
LEMMA RestOfCommands ==
  ASSUME NEW s, IsSeq(s), s # <<>>, \A i \in 1 .. Len(s) : IsGraphEvent(s[i])
  PROVE  /\ IsGraphEvent(Head(s)) /\ IsSeq(Tail(s))
         /\ \A i \in 1 .. Len(Tail(s)) : IsGraphEvent(Tail(s)[i])
  <1>1. s \in Seq(ElementsOf(s)) /\ Len(s) \in Nat
    BY IsSeqIsSeq
  <1>2. Len(s) # 0
    BY <1>1, EmptySeq
  <1>3. /\ Head(s) = s[1] /\ Tail(s) \in Seq(ElementsOf(s)) /\ Len(Tail(s)) = Len(s) - 1
        /\ \A i \in 1 .. Len(Tail(s)) : Tail(s)[i] = s[i + 1]
    BY <1>1, HeadTailProperties
  <1>4. IsSeq(Tail(s))
    BY <1>3, SeqIsSeq
  <1>5. \A i \in 1 .. Len(Tail(s)) : i + 1 \in 1 .. Len(s)
    BY <1>1, <1>3
  <1> QED
    BY <1>1, <1>2, <1>3, <1>4, <1>5

(* A command of a fork. *)
LEMMA ForkCopiesKeeps ==
  ASSUME ServerSound, NEW w \in Worker, ForkCopies(w)
  PROVE  ServerSound'
  <1> DEFINE j == jobs[w]
             q == j.project
             todo == j.todo
             sq == Submit(stores[q], Head(todo))
             k == [j EXCEPT !.todo = Tail(todo)]
  <1>1. StoresSound(stores) /\ CatalogSound(catalog) /\ JobsSound(jobs)
    BY DEF ServerSound
  <1>2. /\ j.at = "copy" /\ todo # <<>> /\ catalog' = catalog /\ mishaps' = mishaps
        /\ stores' = [stores EXCEPT ![q] = sq]
    BY DEF ForkCopies
  <1>3. jobs' = [jobs EXCEPT ![w] = k]
    <2>1. jobs' = [jobs EXCEPT ![w].todo = Tail(@)]
      BY DEF ForkCopies
    <2>2. jobs = [v \in Worker |-> jobs[v]]
      BY <1>1 DEF JobsSound
    <2> QED
      BY <2>1, <2>2
  <1>4. Forking(j)
    BY <1>1, <1>2 DEF JobsSound, JobSound
  <1>5. /\ IsGraphEvent(Head(todo)) /\ IsSeq(Tail(todo))
        /\ \A i \in 1 .. Len(Tail(todo)) : IsGraphEvent(Tail(todo)[i])
    BY <1>2, <1>4, RestOfCommands DEF Forking
  <1>6. JobSound(k) /\ k.at = "copy"
    <2> DEFINE rest == Tail(todo)
               min == j.min
               f == j.for
    <2>1. j = [at |-> "copy", project |-> q, todo |-> todo, min |-> min, for |-> f] /\ q \in Project /\ min \in Nat
      BY <1>2, <1>4 DEF Forking
    <2>2. k = [j EXCEPT !.todo = rest]
      OBVIOUS
    <2>3. IsSeq(rest) /\ \A i \in 1 .. Len(rest) : IsGraphEvent(rest[i])
      BY <1>5
    <2> HIDE DEF rest, min, f, q, todo, k, j
    <2>4. k = [at |-> "copy", project |-> q, todo |-> rest, min |-> min, for |-> f]
      BY <2>1, <2>2
    <2> QED
      BY <2>1, <2>3, <2>4 DEF JobSound, Forking
  <1>7. q \in Project /\ StoreSound(stores[q])
    BY <1>1, <1>4 DEF Forking, StoresSound
  <1>8. Grows(stores[q], sq)
    BY <1>5, <1>7, SubmitGrows
  <1> HIDE DEF j, q, todo, sq, k
  <1>9. /\ StoresSound(stores') /\ \A p \in Project : Grows(stores[p], stores'[p])
        /\ \A p \in Project : Lost(stores'[p]) = Lost(stores[p])
        /\ AllMirrored(stores) => AllMirrored(stores')
    <2>1. Replaced(stores, q, sq, stores')
      BY <1>2 DEF Replaced
    <2> QED
      BY <1>1, <1>7, <1>8, <2>1, OneGrows
  <1>10. /\ JobsSound(jobs') /\ SameRecorders(jobs, jobs')
         /\ (\A v \in Worker : ViewDrawn(jobs[v], stores')) => \A v \in Worker : ViewDrawn(jobs'[v], stores')
    <2>1. Replaced(jobs, w, k, jobs') /\ jobs[w].at # "record" /\ k.at # "record" /\ ViewDrawn(k, stores')
      BY <1>2, <1>3, <1>6 DEF Replaced, ViewDrawn, j
    <2> QED
      BY <1>1, <1>6, <2>1, OneJob
  <1>11. OnlyOldLost(stores', catalog', jobs', mishaps') /\ Recording(stores', jobs', mishaps')
    BY <1>1, <1>2, <1>9, <1>10, LossesStay DEF ServerSound
  <1>12. ASSUME AllMirrored(stores), AllDrawn(stores, catalog, jobs)
         PROVE  AllDrawn(stores', catalog, jobs')
    <2>1. AllDrawn(stores', catalog, jobs)
      BY <1>1, <1>9, <1>12, DrawnStays
    <2> QED
      BY <1>10, <2>1 DEF AllDrawn
  <1>13. Whole(stores', catalog', jobs', mishaps')
    BY <1>2, <1>9, <1>12 DEF ServerSound, Whole
  <1> QED
    BY <1>1, <1>2, <1>9, <1>10, <1>11, <1>13 DEF ServerSound

(* Its end: the least cursor is that of the snapshot.  If more was lost of the *)
(* project it was followed, or purged, before.                                 *)
LEMMA ForkSetsKeeps ==
  ASSUME NoneIsNoRecord, ServerSound, NEW w \in Worker, NEW isFollowed \in BOOLEAN, ForkSets(w, isFollowed)
  PROVE  ServerSound'
  <1> DEFINE j == jobs[w]
             q == j.project
             c == j.min
             r == RecordIn(catalog, q)
             t == [r EXCEPT !.min = c]
             k == Starting(q, None)
  <1>1. /\ StoresSound(stores) /\ CatalogSound(catalog) /\ JobsSound(jobs)
        /\ OnlyOldLost(stores, catalog, jobs, mishaps) /\ Recording(stores, jobs, mishaps)
        /\ Whole(stores, catalog, jobs, mishaps)
    BY DEF ServerSound
  <1>2. /\ j.at = "copy" /\ stores' = stores /\ catalog' = [catalog EXCEPT ![q] = t]
        /\ jobs' = [jobs EXCEPT ![w] = k]
        /\ mishaps' = IF isFollowed \/ HasLost(stores[q]) THEN mishaps \cup {"half-made fork"} ELSE mishaps
    BY RecordIs DEF ForkSets
  <1>3. q \in Project /\ c \in Nat
    BY <1>1, <1>2 DEF JobsSound, JobSound, Forking
  <1>4. StoreSound(stores[q]) /\ RecordSound(r)
    BY <1>1, <1>3 DEF StoresSound, CatalogSound
  <1>5. JobSound(k) /\ k.at = "view" /\ ViewDrawn(k, stores)
    BY <1>1, <1>3, StartingSound
  <1>6. RecordSound(t) /\ t.min = c /\ t.snapshots = r.snapshots
    BY <1>3, <1>4, RecordFrom
  <1> HIDE DEF t, k
  <1>7. /\ CatalogSound(catalog')
        /\ \A p \in Project : RecordIn(catalog', p) = IF p = q THEN t ELSE RecordIn(catalog, p)
    <2>1. Replaced(catalog, q, t, catalog')
      BY <1>2 DEF Replaced
    <2> QED
      BY <1>1, <1>3, <1>6, <2>1, OneRecord
  <1>8. /\ JobsSound(jobs') /\ SameRecorders(jobs, jobs')
        /\ (\A v \in Worker : ViewDrawn(jobs[v], stores)) => \A v \in Worker : ViewDrawn(jobs'[v], stores)
    <2>1. Replaced(jobs, w, k, jobs') /\ jobs[w].at # "record" /\ k.at # "record"
      BY <1>2, <1>5 DEF Replaced
    <2> QED
      BY <1>1, <1>5, <2>1, OneJob
  <1>9. HasLost(stores[q]) \/ Lost(stores[q]) <= c
    <2>1. HeadOf(stores[q]) = Len(Events(stores[q]))
      BY DEF HeadOf, CursorHead, Events, Streams
    <2>2. Len(Events(stores[q])) \in Nat /\ Committed(stores[q]) \in Nat
      BY <1>4, HistoryAt, IsSeqIsSeq DEF StoreSound
    <2> HIDE DEF q, c
    <2> QED
      BY <1>3, <2>1, <2>2 DEF HasLost, Lost
  <1>10. Recording(stores', jobs', mishaps')
    <2> SUFFICES ASSUME NEW v \in Worker, jobs'[v].at = "record"
                 PROVE  "purge" \in mishaps' /\ Lost(stores'[jobs'[v].project]) <= jobs'[v].min
      BY DEF Recording
    <2>1. jobs'[v] = jobs[v]
      BY <1>8 DEF SameRecorders
    <2> QED
      BY <1>1, <1>2, <2>1 DEF Recording
  <1>11. OnlyOldLost(stores', catalog', jobs', mishaps')
    <2> SUFFICES ASSUME NEW p \in Project, {"catalog lost", "purge cut short", "half-made fork"} \cap mishaps' = {}
                 PROVE  \/ Lost(stores[p]) <= RecordIn(catalog', p).min
                        \/ \E v \in Worker : jobs'[v].at = "record" /\ jobs'[v].project = p
      BY <1>2 DEF OnlyOldLost
    <2>1. CASE p = q
      <3>1. ~HasLost(stores[q])
        BY <1>2
      <3> QED
        BY <1>6, <1>7, <1>9, <2>1, <3>1
    <2>2. CASE p # q
      <3>1. CASE Lost(stores[p]) <= RecordIn(catalog, p).min
        BY <1>7, <2>2, <3>1
      <3>2. CASE \E v \in Worker : jobs[v].at = "record" /\ jobs[v].project = p
        BY <1>8, <3>2 DEF SameRecorders
      <3>3. {"catalog lost", "purge cut short", "half-made fork"} \cap mishaps = {}
        BY <1>2
      <3> QED
        BY <1>1, <3>1, <3>2, <3>3 DEF OnlyOldLost
    <2> QED
      BY <2>1, <2>2
  <1>12. Whole(stores', catalog', jobs', mishaps')
    <2>1. \A p \in Project : SnapshotsDrawn(RecordIn(catalog, p), stores[p])
                               => SnapshotsDrawn(RecordIn(catalog', p), stores[p])
      BY <1>6, <1>7 DEF SnapshotsDrawn, r
    <2>2. "purge" \in mishaps => "purge" \in mishaps'
      BY <1>2
    <2> QED
      BY <1>1, <1>2, <1>8, <2>1, <2>2 DEF Whole, AllDrawn
  <1> QED
    BY <1>1, <1>2, <1>7, <1>8, <1>10, <1>11, <1>12 DEF ServerSound

(* i is a choice of the cut among the candidates c, by the cursors f. *)
IsCut(f, c, i) ==
  i \in c /\ \A j \in c : f[i] > f[j] \/ (f[i] = f[j] /\ i <= j)

(* Among finitely many there is one. *)
LEMMA CutExists ==
  ASSUME NEW m \in Nat, NEW f \in [1 .. m -> Nat], NEW c \in SUBSET (1 .. m), c # {}
  PROVE  \E i : IsCut(f, c, i)
  <1> DEFINE S == {n \in Nat : n <= m => \A d \in SUBSET (1 .. n) : d # {} => \E i : IsCut(f, d, i)}
  <1>1. 0 \in S
    <2>1. \A d \in SUBSET (1 .. 0) : d = {}
      OBVIOUS
    <2> QED
      BY <2>1
  <1>2. ASSUME NEW n \in Nat, n \in S PROVE n + 1 \in S
    <2> SUFFICES ASSUME n + 1 <= m, NEW d \in SUBSET (1 .. n + 1), d # {}
                 PROVE  \E i : IsCut(f, d, i)
      OBVIOUS
    <2> DEFINE b == d \ {n + 1}
    <2>1. b \in SUBSET (1 .. n) /\ n <= m
      OBVIOUS
    <2>2. b # {} => \E i : IsCut(f, b, i)
      BY <1>2, <2>1
    <2>3. CASE n + 1 \notin d
      <3>1. b = d
        BY <2>3
      <3> QED
        BY <2>2, <3>1
    <2>4. CASE d = {n + 1}
      <3>1. IsCut(f, d, n + 1)
        BY <2>4 DEF IsCut
      <3> QED
        BY <3>1
    <2>5. CASE n + 1 \in d /\ d # {n + 1}
      <3>1. b # {} /\ d = b \cup {n + 1}
        BY <2>5
      <3>2. PICK i : IsCut(f, b, i)
        BY <2>2, <3>1
      <3> HIDE DEF b, S
      <3>3. i \in 1 .. n /\ \A j \in b : f[i] > f[j] \/ (f[i] = f[j] /\ i <= j)
        BY <2>1, <3>2 DEF IsCut
      <3>4. \A j \in d : j \in 1 .. m /\ f[j] \in Nat
        OBVIOUS
      <3>5. f[i] \in Nat /\ f[n + 1] \in Nat
        BY <3>1, <3>2, <3>4 DEF IsCut
      <3>6. \A j \in b : f[j] \in Nat
        BY <3>1, <3>4
      <3>7. CASE f[n + 1] > f[i]
        <4>1. \A j \in b : f[n + 1] > f[j]
          BY <3>3, <3>5, <3>6, <3>7
        <4>2. IsCut(f, d, n + 1)
          BY <3>1, <4>1 DEF IsCut
        <4> QED
          BY <4>2
      <3>8. CASE ~(f[n + 1] > f[i])
        <4>1. f[i] > f[n + 1] \/ (f[i] = f[n + 1] /\ i <= n + 1)
          BY <3>3, <3>5, <3>8
        <4>2. IsCut(f, d, i)
          BY <3>1, <3>2, <3>3, <4>1 DEF IsCut
        <4> QED
          BY <4>2
      <3> QED
        BY <3>7, <3>8
    <2> QED
      BY <2>3, <2>4, <2>5
  <1> HIDE DEF S
  <1>3. m \in S
    BY <1>1, <1>2, NatInduct
  <1> QED
    BY <1>3 DEF S

(* The cut of a purge is one of its candidates. *)
LEMMA CutIn ==
  ASSUME NEW shots, SnapshotsSound(shots), NEW candidates \in SUBSET (1 .. Len(shots)), candidates # {}
  PROVE  CutOf(shots, candidates) \in candidates
  <1> DEFINE m == Len(shots)
             f == [i \in 1 .. m |-> shots[i].cursor]
             cut == CutOf(shots, candidates)
  <1>1. m \in Nat /\ \A i \in 1 .. m : shots[i].cursor \in Nat
    BY IsSeqIsSeq DEF SnapshotsSound, SnapshotSound
  <1>2. f \in [1 .. m -> Nat] /\ \A i \in candidates : f[i] = shots[i].cursor
    BY <1>1
  <1>3. \A i \in candidates : IsCut(f, candidates, i)
          <=> \A j \in candidates : \/ shots[i].cursor > shots[j].cursor
                                    \/ shots[i].cursor = shots[j].cursor /\ i <= j
    BY <1>2 DEF IsCut
  <1> HIDE DEF f
  <1>4. \E i : IsCut(f, candidates, i)
    <2> HIDE DEF m
    <2>1. candidates \in SUBSET (1 .. m)
      BY DEF m
    <2> QED
      BY <1>1, <1>2, <2>1, CutExists
  <1>5. \E i \in candidates : \A j \in candidates :
          \/ shots[i].cursor > shots[j].cursor
          \/ shots[i].cursor = shots[j].cursor /\ i <= j
    BY <1>3, <1>4 DEF IsCut
  <1> QED
    BY <1>5, Zenon DEF CutOf

(* A record, and what a purge replaces in it. *)
RecordOf(min, shots, policy) == [min |-> min, snapshots |-> shots, policy |-> policy]

PurgedRecord(r, min, shots) == [r EXCEPT !.min = min, !.snapshots = shots]

(* It replaces two fields and leaves the third. *)
LEMMA TwoReplaced ==
  ASSUME NEW min, NEW shots, NEW policy, NEW c, NEW x
  PROVE  PurgedRecord(RecordOf(min, shots, policy), c, x) = RecordOf(c, x, policy)
  <1>1. [[min |-> min, snapshots |-> shots, policy |-> policy] EXCEPT !.min = c]
          = [min |-> c, snapshots |-> shots, policy |-> policy]
    OBVIOUS
  <1>2. [[min |-> c, snapshots |-> shots, policy |-> policy] EXCEPT !.snapshots = x]
          = [min |-> c, snapshots |-> x, policy |-> policy]
    OBVIOUS
  <1>3. ASSUME NEW r
        PROVE  [r EXCEPT !.min = c, !.snapshots = x] = [[r EXCEPT !.min = c] EXCEPT !.snapshots = x]
    OBVIOUS
  <1> QED
    BY <1>1, <1>2, <1>3, Zenon DEF RecordOf, PurgedRecord

(* A job that only its worker knows of: the store and the catalog stay. *)
LEMMA JobKeeps ==
  ASSUME ServerSound, NEW w \in Worker, NEW j, JobSound(j), j.at \notin {"view", "head", "record"},
         jobs[w].at # "record", Replaced(jobs, w, j, jobs'), UNCHANGED <<stores, catalog, mishaps>>
  PROVE  ServerSound'
  <1>1. StoresSound(stores) /\ CatalogSound(catalog) /\ JobsSound(jobs)
    BY DEF ServerSound
  <1>2. stores' = stores /\ catalog' = catalog /\ mishaps' = mishaps
    OBVIOUS
  <1>3. /\ JobsSound(jobs') /\ SameRecorders(jobs, jobs')
        /\ (\A v \in Worker : ViewDrawn(jobs[v], stores)) => \A v \in Worker : ViewDrawn(jobs'[v], stores)
    <2>1. ViewDrawn(j, stores) /\ j.at # "record"
      BY DEF ViewDrawn
    <2> QED
      BY <1>1, <2>1, OneJob
  <1>4. OnlyOldLost(stores', catalog', jobs', mishaps') /\ Recording(stores', jobs', mishaps')
    BY <1>1, <1>2, <1>3, LossesStay DEF ServerSound
  <1>5. Whole(stores', catalog', jobs', mishaps')
    BY <1>2, <1>3 DEF ServerSound, Whole, AllDrawn
  <1> QED
    BY <1>1, <1>2, <1>3, <1>4, <1>5 DEF ServerSound

(* purgeHistory, at its beginning *)
LEMMA PurgeBeginsKeeps ==
  ASSUME ServerSound, NEW p \in Project, PurgeBegins(p)
  PROVE  ServerSound'
  <1> DEFINE r == RecordIn(catalog, p)
             keep == Greatest(1, r.policy.keep)
             j == [at |-> "purge", project |-> p, shots |-> r.snapshots, keep |-> keep, for |-> None]
  <1>1. PICK w \in Worker : Takes(w, j)
    BY RecordIs DEF PurgeBegins
  <1>2. UNCHANGED <<stores, catalog, mishaps>>
    BY DEF PurgeBegins
  <1>3. RecordSound(r)
    BY DEF ServerSound, CatalogSound
  <1> HIDE DEF r
  <1>4. keep \in Nat /\ SnapshotsSound(r.snapshots)
    BY <1>3, RecordFields DEF Policy, Greatest, SnapshotsSound
  <1>5. JobSound(j) /\ j.at \notin {"view", "head", "record"}
    BY <1>4 DEF JobSound, Choosing
  <1>6. Replaced(jobs, w, j, jobs') /\ jobs[w].at # "record"
    BY <1>1 DEF Takes, Replaced, Idle
  <1> HIDE DEF j
  <1> QED
    BY <1>2, <1>5, <1>6, JobKeeps

(* It chooses a cut among the snapshots that it found, or has nothing to do. *)
LEMMA ChoosesCutKeeps ==
  ASSUME ServerSound, NEW w \in Worker, ChoosesCut(w)
  PROVE  ServerSound'
  <1> DEFINE j == jobs[w]
             shots == j.shots
             p == j.project
             m == Len(shots)
  <1>1. j.at = "purge" /\ UNCHANGED <<stores, catalog, mishaps>>
    BY DEF ChoosesCut
  <1>2. p \in Project /\ j.keep \in Nat /\ SnapshotsSound(shots)
    BY <1>1 DEF ServerSound, JobsSound, JobSound, Choosing
  <1>3. PICK candidates \in Candidates(j) :
          jobs' = [jobs EXCEPT ![w] = IF candidates = {} THEN Idle ELSE Cutting(p, shots, CutOf(shots, candidates))]
    BY DEF ChoosesCut
  <1>4. m \in Nat /\ shots \in Seq(ElementsOf(shots))
    BY <1>2, IsSeqIsSeq DEF SnapshotsSound
  <1>5. candidates \in SUBSET (1 .. m)
    <2> DEFINE eligible == (j.keep + 1) .. m
               behind == {k \in eligible : HeadOf(stores[p]) - shots[k].cursor >= Record(p).policy.maxEvents}
    <2>1. PICK k \in eligible \cup {m + 1} : candidates = behind \cup (k .. m)
      BY DEF Candidates
    <2>2. eligible \subseteq 1 .. m /\ behind \subseteq eligible
      BY <1>2, <1>4
    <2>3. k \in 1 .. m + 1
      BY <1>4, <2>2
    <2>4. k .. m \subseteq 1 .. m
      BY <1>4, <2>3
    <2> HIDE DEF behind, eligible, m
    <2> QED
      BY <2>1, <2>2, <2>4
  <1>6. CASE candidates = {}
    <2>1. JobSound(Idle) /\ Idle.at \notin {"view", "head", "record"}
      BY DEF Idle, JobSound
    <2>2. Replaced(jobs, w, Idle, jobs') /\ jobs[w].at # "record"
      BY <1>1, <1>3, <1>6 DEF Replaced
    <2> QED
      BY <1>1, <2>1, <2>2, JobKeeps
  <1>7. CASE candidates # {}
    <2> DEFINE i == CutOf(shots, candidates)
               k == Cutting(p, shots, i)
    <2>1. i \in 1 .. m
      BY <1>2, <1>5, <1>7, CutIn
    <2>2. Replaced(jobs, w, k, jobs') /\ jobs[w].at # "record"
      BY <1>1, <1>3, <1>7 DEF Replaced
    <2> HIDE DEF i, p, j
    <2> DEFINE c == shots[i].cursor
               kept == SubSeq(shots, 1, i)
    <2>3. c \in Nat
      BY <1>2, <2>1 DEF SnapshotsSound, SnapshotSound
    <2>4. /\ kept \in Seq(ElementsOf(shots)) /\ Len(kept) = i
          /\ \A n \in 1 .. i : kept[n] = shots[n]
      <3>1. i \in 0 .. Len(shots)
        BY <1>4, <2>1
      <3> HIDE DEF shots
      <3> QED
        BY <1>4, <3>1, PrefixProperties
    <2>5. k = [at |-> "cut", project |-> p, min |-> c, kept |-> kept, for |-> None]
      BY DEF Cutting
    <2>6. \A n \in 1 .. i : n \in 1 .. m
      BY <1>4, <2>1
    <2> HIDE DEF kept, k, c
    <2>7. SnapshotsSound(kept)
      <3>1. IsSeq(kept)
        BY <2>4, SeqIsSeq
      <3> QED
        BY <1>2, <2>4, <2>6, <3>1 DEF SnapshotsSound
    <2>8. JobSound(k) /\ k.at \notin {"view", "head", "record"}
      BY <1>2, <2>3, <2>5, <2>7 DEF JobSound, Purging
    <2> QED
      BY <1>1, <2>2, <2>8, JobKeeps
  <1> QED
    BY <1>6, <1>7

(* The store is compacted.  It was not before, and no other purge is about to *)
(* be recorded, if this is not a repeated one.                                *)
LEMMA CompactsKeeps ==
  ASSUME ServerSound, NEW w \in Worker, Compacts(w)
  PROVE  ServerKept'
  <1> DEFINE j == jobs[w]
             p == j.project
             c == j.min
             sq == Compact(stores[p], c)
             k == [j EXCEPT !.at = "record"]
  <1>1. /\ StoresSound(stores) /\ CatalogSound(catalog) /\ JobsSound(jobs)
        /\ OnlyOldLost(stores, catalog, jobs, mishaps) /\ Recording(stores, jobs, mishaps)
    BY DEF ServerSound
  <1>2. /\ j.at = "cut" /\ catalog' = catalog /\ stores' = [stores EXCEPT ![p] = sq]
        /\ mishaps' = mishaps \cup IF IsRepeated(w, p) THEN {"purge", "repeated purge"} ELSE {"purge"}
    BY DEF Compacts, Purged
  <1>3. CASE IsRepeated(w, p)
    BY <1>2, <1>3 DEF ServerKept
  <1>4. CASE ~IsRepeated(w, p)
    <2>1. Purging(j)
      BY <1>1, <1>2 DEF JobsSound, JobSound
    <2>2. p \in Project /\ c \in Nat /\ StoreSound(stores[p]) /\ Mirrored(stores[p])
      BY <1>1, <2>1 DEF Purging, StoresSound
    <2>3. ~HasLost(stores[p]) /\ \A v \in Worker \ {w} : ~IsRecording(v, p)
      BY <1>4 DEF IsRepeated
    <2>4. Lost(stores[p]) = 0
      <3> DEFINE sp == stores[p]
      <3>1. HeadOf(sp) = Len(Events(sp))
        BY DEF HeadOf, CursorHead, Events, Streams
      <3>2. Len(Events(sp)) \in Nat /\ Committed(sp) \in Nat /\ Len(Events(sp)) <= Committed(sp)
        BY <2>2, HistoryAt, IsSeqIsSeq DEF StoreSound
      <3> HIDE DEF sp
      <3>3. ~HasLost(sp)
        BY <2>3 DEF sp
      <3>4. Lost(sp) = 0
        BY <3>1, <3>2, <3>3 DEF HasLost, Lost
      <3> QED
        BY <3>4 DEF sp
    <2>5. StoreSound(sq) /\ Mirrored(sq) /\ Lost(sq) <= c
      BY <2>2, <2>4, PurgeEffect DEF Mirrored
    <2>6. jobs' = [jobs EXCEPT ![w] = k]
      <3>1. jobs' = [jobs EXCEPT ![w].at = "record"]
        BY DEF Compacts
      <3>2. jobs = [v \in Worker |-> jobs[v]]
        BY <1>1 DEF JobsSound
      <3> QED
        BY <3>1, <3>2
    <2>7. k.at = "record" /\ k.project = p /\ k.min = c /\ JobSound(k)
      <3> DEFINE kept == j.kept
                 f == j.for
      <3>1. j = [at |-> "cut", project |-> p, min |-> c, kept |-> kept, for |-> f] /\ SnapshotsSound(kept)
        BY <1>2, <2>1 DEF Purging
      <3>2. k = [j EXCEPT !.at = "record"]
        OBVIOUS
      <3> HIDE DEF kept, f, p, c, j, k
      <3>3. k = [at |-> "record", project |-> p, min |-> c, kept |-> kept, for |-> f]
        BY <3>1, <3>2
      <3> QED
        BY <2>2, <3>1, <3>3 DEF JobSound, Purging
    <2> HIDE DEF k, sq, c, p, j
    <2>8. /\ JobsSound(jobs') /\ \A v \in Worker : jobs'[v] = IF v = w THEN k ELSE jobs[v]
      <3>1. Replaced(jobs, w, k, jobs')
        BY <2>6 DEF Replaced
      <3> QED
        BY <1>1, <2>7, <3>1, OneJob
    <2>9. /\ stores' = [q \in Project |-> stores'[q]]
          /\ \A q \in Project : stores'[q] = IF q = p THEN sq ELSE stores[q]
      BY <1>1, <1>2 DEF StoresSound
    <2>10. StoresSound(stores')
      BY <1>1, <2>5, <2>9 DEF StoresSound
    <2>11. "purge" \in mishaps' /\ mishaps \subseteq mishaps'
      BY <1>2
    <2>12. Recording(stores', jobs', mishaps')
      <3> SUFFICES ASSUME NEW v \in Worker, jobs'[v].at = "record"
                   PROVE  Lost(stores'[jobs'[v].project]) <= jobs'[v].min
        BY <2>11 DEF Recording
      <3>1. CASE v = w
        BY <2>2, <2>5, <2>7, <2>8, <2>9, <3>1
      <3>2. CASE v # w
        <4>1. jobs'[v] = jobs[v] /\ jobs[v].at = "record"
          BY <2>8, <3>2
        <4>2. jobs[v].project \in Project /\ jobs[v].project # p
          BY <1>1, <2>3, <3>2, <4>1 DEF JobsSound, JobSound, Purging, IsRecording
        <4> QED
          BY <1>1, <2>9, <4>1, <4>2 DEF Recording
      <3> QED
        BY <3>1, <3>2
    <2>13. OnlyOldLost(stores', catalog', jobs', mishaps')
      <3> SUFFICES ASSUME NEW q \in Project
                   PROVE  \/ Lost(stores'[q]) <= RecordIn(catalog, q).min
                          \/ \E v \in Worker : jobs'[v].at = "record" /\ jobs'[v].project = q
                          \/ {"catalog lost", "purge cut short", "half-made fork"} \cap mishaps' # {}
        BY <1>2 DEF OnlyOldLost
      <3>1. CASE q = p
        BY <2>7, <2>8, <3>1
      <3>2. CASE q # p
        <4>1. CASE Lost(stores[q]) <= RecordIn(catalog, q).min
          BY <2>9, <3>2, <4>1
        <4>2. CASE \E v \in Worker : jobs[v].at = "record" /\ jobs[v].project = q
          <5>1. PICK v \in Worker : jobs[v].at = "record" /\ jobs[v].project = q
            BY <4>2
          <5>2. v # w
            BY <1>2, <5>1 DEF j
          <5> QED
            BY <2>8, <5>1, <5>2
        <4>3. CASE {"catalog lost", "purge cut short", "half-made fork"} \cap mishaps # {}
          BY <2>11, <4>3
        <4> QED
          BY <1>1, <4>1, <4>2, <4>3 DEF OnlyOldLost
      <3> QED
        BY <3>1, <3>2
    <2> QED
      BY <1>1, <1>2, <2>8, <2>10, <2>11, <2>12, <2>13 DEF ServerKept, ServerSound, Whole
  <1> QED
    BY <1>3, <1>4

(* The cut becomes the least readable cursor. *)
LEMMA RecordsPurgeKeeps ==
  ASSUME NoneIsNoRecord, ServerSound, NEW w \in Worker, RecordsPurge(w)
  PROVE  ServerSound'
  <1> DEFINE j == jobs[w]
             p == j.project
             c == j.min
             shots == j.kept
             r == RecordIn(catalog, p)
             t == [min |-> c, snapshots |-> shots, policy |-> r.policy]
  <1>1. /\ StoresSound(stores) /\ CatalogSound(catalog) /\ JobsSound(jobs)
        /\ OnlyOldLost(stores, catalog, jobs, mishaps) /\ Recording(stores, jobs, mishaps)
    BY DEF ServerSound
  <1>2. /\ j.at = "record" /\ stores' = stores /\ mishaps' = mishaps
        /\ catalog' = [catalog EXCEPT ![p] = [r EXCEPT !.min = c, !.snapshots = shots]]
        /\ jobs' = [jobs EXCEPT ![w] = Idle]
    BY RecordIs DEF RecordsPurge
  <1>3. p \in Project /\ c \in Nat /\ SnapshotsSound(shots)
    BY <1>1, <1>2 DEF JobsSound, JobSound, Purging
  <1>4. "purge" \in mishaps /\ Lost(stores[p]) <= c
    BY <1>1, <1>2 DEF Recording
  <1>5. RecordSound(r)
    BY <1>1, <1>3 DEF CatalogSound
  <1> HIDE DEF r
  <1>6. [r EXCEPT !.min = c, !.snapshots = shots] = t
    <2> DEFINE min == r.min
               old == r.snapshots
               policy == r.policy
    <2>1. r = [min |-> min, snapshots |-> old, policy |-> policy]
      BY <1>5, RecordFields
    <2>2. t = [min |-> c, snapshots |-> shots, policy |-> policy]
      OBVIOUS
    <2> HIDE DEF c, shots, t, min, old, policy
    <2>3. PurgedRecord(RecordOf(min, old, policy), c, shots) = RecordOf(c, shots, policy)
      BY TwoReplaced
    <2>4. r = RecordOf(min, old, policy) /\ t = RecordOf(c, shots, policy)
      BY <2>1, <2>2, Zenon DEF RecordOf
    <2>5. [r EXCEPT !.min = c, !.snapshots = shots] = PurgedRecord(r, c, shots)
      BY DEF PurgedRecord
    <2> QED
      BY <2>3, <2>4, <2>5, Zenon
  <1>7. RecordSound(t) /\ t.min = c
    <2>1. r.policy \in Policy /\ IsSeq(shots) /\ \A k \in 1 .. Len(shots) : SnapshotSound(shots[k])
      BY <1>3, <1>5, RecordFields DEF SnapshotsSound
    <2> HIDE DEF shots, c
    <2> QED
      BY <1>3, <2>1, RecordMade
  <1>8. Replaced(catalog, p, t, catalog')
    BY <1>2, <1>6 DEF Replaced
  <1> HIDE DEF t
  <1>9. /\ CatalogSound(catalog')
        /\ \A q \in Project : RecordIn(catalog', q) = IF q = p THEN t ELSE RecordIn(catalog, q)
    BY <1>1, <1>3, <1>7, <1>8, OneRecord
  <1>10. JobsSound(jobs') /\ \A v \in Worker : jobs'[v] = IF v = w THEN Idle ELSE jobs[v]
    <2>1. JobSound(Idle)
      BY DEF Idle, JobSound
    <2>2. Replaced(jobs, w, Idle, jobs')
      BY <1>2 DEF Replaced
    <2> QED
      BY <1>1, <2>1, <2>2, OneJob
  <1>11. Recording(stores', jobs', mishaps')
    BY <1>1, <1>2, <1>10 DEF Recording, Idle
  <1>12. OnlyOldLost(stores', catalog', jobs', mishaps')
    <2> SUFFICES ASSUME NEW q \in Project
                 PROVE  \/ Lost(stores[q]) <= RecordIn(catalog', q).min
                        \/ \E v \in Worker : jobs'[v].at = "record" /\ jobs'[v].project = q
                        \/ {"catalog lost", "purge cut short", "half-made fork"} \cap mishaps # {}
      BY <1>2 DEF OnlyOldLost
    <2>1. CASE q = p
      BY <1>4, <1>7, <1>9, <2>1
    <2>2. CASE q # p
      <3>1. RecordIn(catalog', q) = RecordIn(catalog, q)
        BY <1>9, <2>2
      <3>2. \A v \in Worker : jobs[v].at = "record" /\ jobs[v].project = q => jobs'[v] = jobs[v]
        BY <1>10, <2>2
      <3> QED
        BY <1>1, <3>1, <3>2 DEF OnlyOldLost
    <2> QED
      BY <2>1, <2>2
  <1>13. Whole(stores', catalog', jobs', mishaps')
    BY <1>2, <1>4 DEF Whole
  <1> QED
    BY <1>1, <1>2, <1>9, <1>10, <1>11, <1>12, <1>13 DEF ServerSound

(* readGraphView: a page more, or none *)
LEMMA ReadsViewKeeps ==
  ASSUME ServerSound, NEW w \in Worker, ReadsView(w)
  PROVE  ServerSound'
  <1> DEFINE j == jobs[w]
             sp == stores[j.project]
             page == Page(sp, j.cursor, 64)
             events == [i \in DOMAIN page |-> page[i].event]
             k == IF page = <<>> THEN [j EXCEPT !.at = "head"]
                  ELSE [j EXCEPT !.cursor = @ + Len(page), !.graph = ApplyGraphEvents(@, events)]
  <1>1. /\ StoresSound(stores) /\ CatalogSound(catalog) /\ JobsSound(jobs)
        /\ OnlyOldLost(stores, catalog, jobs, mishaps) /\ Recording(stores, jobs, mishaps)
        /\ Whole(stores, catalog, jobs, mishaps)
    BY DEF ServerSound
  <1>2. /\ j.at = "view" /\ stores' = stores /\ catalog' = catalog /\ mishaps' = mishaps
    BY DEF ReadsView
  <1>3. jobs' = [jobs EXCEPT ![w] = k]
    <2>1. jobs' = IF page = <<>> THEN [jobs EXCEPT ![w].at = "head"]
                  ELSE [jobs EXCEPT ![w].cursor = @ + Len(page),
                                    ![w].graph = ApplyGraphEvents(@, events)]
      BY DEF ReadsView
    <2>2. jobs = [v \in Worker |-> jobs[v]]
      BY <1>1 DEF JobsSound
    <2> HIDE DEF page, events
    <2> QED
      BY <2>1, <2>2
  <1>4. /\ j = [at |-> j.at, project |-> j.project, cursor |-> j.cursor, graph |-> j.graph, for |-> j.for]
        /\ j.project \in Project /\ j.cursor \in Nat /\ FiniteGraph(j.graph)
    BY <1>1, <1>2 DEF JobsSound, JobSound, Viewing
  <1>5. StoreSound(sp)
    BY <1>1, <1>4 DEF StoresSound
  <1>6. /\ IsSeq(events) /\ Len(events) = Len(page) /\ Len(page) \in Nat
        /\ \A i \in 1 .. Len(page) : IsGraphEvent(events[i])
    <2> DEFINE c == j.cursor
    <2>1. c \in Nat /\ 64 \in Nat /\ StoreSound(sp)
      BY <1>4, <1>5
    <2>2. page = Page(sp, c, 64)
      OBVIOUS
    <2> HIDE DEF sp, c
    <2>3. GraphEventsOn(Page(sp, c, 64))
      BY <2>1, PageHasGraphEvents
    <2> HIDE DEF page
    <2> QED
      BY <2>2, <2>3 DEF GraphEventsOn
  <1>7. FiniteGraph(ApplyGraphEvents(j.graph, events))
    <2> HIDE DEF events, page, j
    <2> QED
      BY <1>4, <1>6, FiniteDrawn
  <1>8. ASSUME AllMirrored(stores), AllDrawn(stores, catalog, jobs)
        PROVE  /\ j.cursor + Len(page) <= Committed(sp)
               /\ ApplyGraphEvents(j.graph, events) = GraphOf(sp, j.cursor + Len(page))
               /\ j.cursor <= Committed(sp) /\ j.graph = GraphOf(sp, j.cursor)
    <2>1. Lost(sp) = 0
      BY <1>4, <1>8 DEF AllMirrored, IndexSound
    <2>2. j.cursor <= Committed(sp) /\ j.graph = GraphOf(sp, j.cursor)
      BY <1>2, <1>8 DEF AllDrawn, ViewDrawn
    <2>3. Committed(sp) \in Nat
      BY <1>5, HistoryAt DEF StoreSound
    <2>4. j.cursor \in 0 .. Committed(sp)
      BY <1>4, <2>2, <2>3
    <2>5. /\ j.cursor + Len(page) \in 0 .. Committed(sp)
          /\ ApplyGraphEvents(GraphOf(sp, j.cursor), events) = GraphOf(sp, j.cursor + Len(page))
      BY <1>5, <2>1, <2>4, PageDraws
    <2> HIDE DEF j, sp, page, events
    <2> QED
      BY <2>2, <2>3, <2>5
  <1> DEFINE n == Len(page)
             g == ApplyGraphEvents(j.graph, events)
  <1>9. /\ k.at \in {"view", "head"} /\ k.project = j.project
        /\ k = [at |-> k.at, project |-> k.project, cursor |-> k.cursor, graph |-> k.graph, for |-> k.for]
        /\ \/ k.cursor = j.cursor /\ k.graph = j.graph
           \/ k.cursor = j.cursor + n /\ k.graph = g
    <2>1. k = [j EXCEPT !.at = "head"] \/ k = [j EXCEPT !.cursor = j.cursor + n, !.graph = g]
      OBVIOUS
    <2> DEFINE a == j.at
               p == j.project
               c == j.cursor
               h == j.graph
               f == j.for
    <2>2. j = [at |-> a, project |-> p, cursor |-> c, graph |-> h, for |-> f] /\ a = "view"
      BY <1>2, <1>4
    <2> HIDE DEF k, n, g, a, p, c, h, f, j
    <2>3. \/ k = [j EXCEPT !.at = "head"]
          \/ k = [j EXCEPT !.cursor = c + n, !.graph = g]
      BY <2>1 DEF c
    <2>4. \/ k = [at |-> "head", project |-> p, cursor |-> c, graph |-> h, for |-> f]
          \/ k = [at |-> "view", project |-> p, cursor |-> c + n, graph |-> g, for |-> f]
      BY <2>2, <2>3
    <2>5. /\ k.at \in {"view", "head"} /\ k.project = p
          /\ k = [at |-> k.at, project |-> k.project, cursor |-> k.cursor, graph |-> k.graph, for |-> k.for]
          /\ \/ k.cursor = c /\ k.graph = h
             \/ k.cursor = c + n /\ k.graph = g
      BY <2>4
    <2> QED
      BY <2>5 DEF p, c, h
  <1>10. JobSound(k)
    <2>1. n \in Nat /\ FiniteGraph(g)
      BY <1>6, <1>7
    <2> HIDE DEF k, n, g, j
    <2> QED
      BY <1>4, <1>9, <2>1 DEF JobSound, Viewing
  <1>11. AllMirrored(stores) /\ AllDrawn(stores, catalog, jobs) => ViewDrawn(k, stores)
    <2>1. AllMirrored(stores) /\ AllDrawn(stores, catalog, jobs)
            => /\ j.cursor + n <= Committed(sp) /\ g = GraphOf(sp, j.cursor + n)
               /\ j.cursor <= Committed(sp) /\ j.graph = GraphOf(sp, j.cursor)
      BY <1>8
    <2>2. sp = stores[j.project]
      OBVIOUS
    <2> HIDE DEF k, n, g, j, sp
    <2> QED
      BY <1>9, <2>1, <2>2 DEF ViewDrawn
  <1>a. jobs[w].at # "record" /\ k.at # "record"
    BY <1>2, <1>9
  <1> HIDE DEF k, j, sp, page, events, n, g
  <1>12. /\ JobsSound(jobs') /\ SameRecorders(jobs, jobs')
         /\ ViewDrawn(k, stores) /\ (\A v \in Worker : ViewDrawn(jobs[v], stores))
              => \A v \in Worker : ViewDrawn(jobs'[v], stores)
    <2>1. Replaced(jobs, w, k, jobs')
      BY <1>3 DEF Replaced
    <2> QED
      BY <1>1, <1>10, <1>a, <2>1, OneJob
  <1>13. OnlyOldLost(stores', catalog', jobs', mishaps') /\ Recording(stores', jobs', mishaps')
    BY <1>1, <1>2, <1>12, LossesStay
  <1>14. Whole(stores', catalog', jobs', mishaps')
    BY <1>1, <1>2, <1>11, <1>12 DEF Whole, AllDrawn
  <1> QED
    BY <1>1, <1>2, <1>12, <1>13, <1>14 DEF ServerSound

(* A sequence with one element before it. *)
LEMMA SeqBefore ==
  ASSUME NEW s, IsSeq(s), NEW x
  PROVE  /\ IsSeq(<<x>> \o s) /\ Len(<<x>> \o s) = Len(s) + 1 /\ (<<x>> \o s)[1] = x
         /\ \A i \in 1 .. Len(s) + 1 : i # 1 => i - 1 \in 1 .. Len(s) /\ (<<x>> \o s)[i] = s[i - 1]
  <1> DEFINE S == ElementsOf(s) \cup {x}
             one == <<x>>
  <1>1. s \in Seq(ElementsOf(s)) /\ Len(s) \in Nat
    BY IsSeqIsSeq
  <1>2. s \in Seq(S) /\ one \in Seq(S) /\ Len(one) = 1 /\ one[1] = x
    BY <1>1
  <1> HIDE DEF S, one
  <1>3. /\ one \o s \in Seq(S) /\ Len(one \o s) = 1 + Len(s)
        /\ \A i \in 1 .. 1 + Len(s) : (one \o s)[i] = IF i <= 1 THEN one[i] ELSE s[i - 1]
    <2>1. /\ one \o s \in Seq(S) /\ Len(one \o s) = Len(one) + Len(s)
          /\ \A i \in 1 .. Len(one) + Len(s) :
               (one \o s)[i] = IF i <= Len(one) THEN one[i] ELSE s[i - Len(one)]
      BY <1>2, ConcatProperties
    <2> QED
      BY <1>2, <2>1
  <1>4. IsSeq(one \o s)
    BY <1>3, SeqIsSeq
  <1>5. (one \o s)[1] = x
    <2>1. 1 \in 1 .. 1 + Len(s)
      BY <1>1
    <2> QED
      BY <1>2, <1>3, <2>1
  <1>6. \A i \in 1 .. Len(s) + 1 : i # 1 => i - 1 \in 1 .. Len(s) /\ (one \o s)[i] = s[i - 1]
    BY <1>1, <1>3
  <1>7. Len(one \o s) = Len(s) + 1
    BY <1>1, <1>3
  <1> QED
    BY <1>4, <1>5, <1>6, <1>7 DEF one

(* createSnapshot, at its end *)
LEMMA SealsKeeps ==
  ASSUME NoneIsNoRecord, ServerSound, NEW w \in Worker, Seals(w)
  PROVE  ServerSound'
  <1> DEFINE j == jobs[w]
             p == j.project
             r == RecordIn(catalog, p)
             x == Snapshot(w)
             shots == <<x>> \o r.snapshots
             t == [min |-> r.min, snapshots |-> shots, policy |-> r.policy]
  <1>1. /\ StoresSound(stores) /\ CatalogSound(catalog) /\ JobsSound(jobs)
        /\ OnlyOldLost(stores, catalog, jobs, mishaps) /\ Recording(stores, jobs, mishaps)
        /\ Whole(stores, catalog, jobs, mishaps)
    BY DEF ServerSound
  <1>2. /\ j.at = "head" /\ stores' = stores
        /\ catalog' = [catalog EXCEPT ![p] = WithSnapshot(r, x)]
        /\ jobs' = [jobs EXCEPT ![w] = Idle]
        /\ mishaps' = mishaps \/ mishaps' = mishaps \cup {"torn snapshot"}
    BY RecordIs DEF Seals
  <1>3. p \in Project /\ j.cursor \in Nat /\ FiniteGraph(j.graph)
    BY <1>1, <1>2 DEF JobsSound, JobSound, Viewing
  <1>4. StoreSound(stores[p]) /\ RecordSound(r)
    BY <1>1, <1>3 DEF StoresSound, CatalogSound
  <1>5. x.cursor = Len(Events(stores[p])) /\ x.graph = Shown(j.graph)
    BY DEF Snapshot, HeadOf, CursorHead, Events, Streams
  <1>6. ASSUME AllMirrored(stores), AllDrawn(stores, catalog, jobs)
        PROVE  SnapshotDrawn(x, stores[p])
    <2> DEFINE sp == stores[p]
               c == j.cursor
    <2>1. IndexSound(sp) /\ StoreSound(sp) /\ c \in Nat
      BY <1>3, <1>4, <1>6 DEF AllMirrored
    <2>2. c <= Committed(sp) /\ j.graph = GraphOf(sp, c)
      BY <1>2, <1>6 DEF AllDrawn, ViewDrawn
    <2>3. x.cursor = Len(Events(sp)) /\ x.graph = Shown(j.graph)
      BY <1>5
    <2> HIDE DEF sp, c, x, j
    <2>4. Committed(sp) \in Nat /\ Len(Events(sp)) \in Nat /\ Committed(sp) - Len(Events(sp)) = 0
      BY <2>1, HistoryAt, IsSeqIsSeq DEF StoreSound, IndexSound, Lost
    <2>5. x.cursor = Committed(sp) /\ c \in 0 .. x.cursor
      BY <2>1, <2>2, <2>3, <2>4
    <2>6. SnapshotDrawn(x, sp)
      BY <2>2, <2>3, <2>4, <2>5 DEF SnapshotDrawn
    <2> QED
      BY <2>6 DEF sp
  <1>7. SnapshotSound(x)
    <2>1. Len(Events(stores[p])) \in Nat
      BY <1>4, IsSeqIsSeq DEF StoreSound
    <2> HIDE DEF x, p, j
    <2> QED
      BY <1>3, <1>5, <2>1, FiniteShown DEF SnapshotSound
  <1> HIDE DEF x
  <1>8. /\ r.min \in Nat /\ r.policy \in Policy /\ IsSeq(r.snapshots) /\ Len(r.snapshots) \in Nat
        /\ r = [min |-> r.min, snapshots |-> r.snapshots, policy |-> r.policy]
        /\ \A i \in 1 .. Len(r.snapshots) : SnapshotSound(r.snapshots[i])
    BY <1>4, RecordFields
  <1> HIDE DEF r
  <1>9. catalog' = [catalog EXCEPT ![p] = t]
    <2>1. WithSnapshot(r, x) = [r EXCEPT !.snapshots = shots]
      BY DEF WithSnapshot
    <2> DEFINE min == r.min
               old == r.snapshots
               policy == r.policy
    <2>2. r = [min |-> min, snapshots |-> old, policy |-> policy]
      BY <1>8
    <2>3. t = [min |-> min, snapshots |-> shots, policy |-> policy]
      OBVIOUS
    <2> HIDE DEF shots, t, min, old, policy
    <2>4. [[min |-> min, snapshots |-> old, policy |-> policy] EXCEPT !.snapshots = shots]
            = [min |-> min, snapshots |-> shots, policy |-> policy]
      OBVIOUS
    <2>5. WithSnapshot(r, x) = t
      BY <2>1, <2>2, <2>3, <2>4, Zenon
    <2> QED
      BY <1>2, <2>5
  <1>10. /\ IsSeq(shots) /\ Len(shots) = Len(r.snapshots) + 1 /\ shots[1] = x
         /\ \A i \in 1 .. Len(r.snapshots) + 1 :
              i # 1 => i - 1 \in 1 .. Len(r.snapshots) /\ shots[i] = r.snapshots[i - 1]
    BY <1>8, SeqBefore
  <1> HIDE DEF shots
  <1>11. \A i \in 1 .. Len(shots) : SnapshotSound(shots[i])
    BY <1>7, <1>8, <1>10
  <1>12. RecordSound(t) /\ t.min = r.min /\ t.snapshots = shots
    BY <1>8, <1>10, <1>11, RecordMade
  <1> HIDE DEF t
  <1>13. /\ CatalogSound(catalog')
         /\ \A q \in Project : RecordIn(catalog', q) = IF q = p THEN t ELSE RecordIn(catalog, q)
    <2>1. Replaced(catalog, p, t, catalog')
      BY <1>9 DEF Replaced
    <2> HIDE DEF p
    <2> QED
      BY <1>1, <1>3, <1>12, <2>1, OneRecord
  <1> HIDE DEF j, p
  <1>14. /\ JobsSound(jobs') /\ SameRecorders(jobs, jobs')
         /\ (\A v \in Worker : ViewDrawn(jobs[v], stores)) => \A v \in Worker : ViewDrawn(jobs'[v], stores)
    <2>1. JobSound(Idle) /\ Idle.at # "record" /\ ViewDrawn(Idle, stores)
      BY DEF Idle, JobSound, ViewDrawn
    <2>2. Replaced(jobs, w, Idle, jobs') /\ jobs[w].at # "record"
      BY <1>2 DEF Replaced, j
    <2> QED
      BY <1>1, <2>1, <2>2, OneJob
  <1>15. mishaps \subseteq mishaps'
    BY <1>2
  <1>16. OnlyOldLost(stores', catalog', jobs', mishaps') /\ Recording(stores', jobs', mishaps')
    <2>1. \A q \in Project : RecordIn(catalog', q).min = RecordIn(catalog, q).min
      BY <1>12, <1>13 DEF r
    <2> QED
      BY <1>1, <1>2, <1>14, <1>15, <2>1, LossesStay
  <1>17. ASSUME AllMirrored(stores), AllDrawn(stores, catalog, jobs)
         PROVE  AllDrawn(stores, catalog', jobs')
    <2>1. \A v \in Worker : ViewDrawn(jobs'[v], stores)
      BY <1>14, <1>17 DEF AllDrawn
    <2>2. ASSUME NEW q \in Project PROVE SnapshotsDrawn(RecordIn(catalog', q), stores[q])
      <3>1. CASE q = p
        <4>1. SnapshotsDrawn(r, stores[p])
          BY <1>3, <1>17 DEF AllDrawn, r
        <4>2. ASSUME NEW i \in 1 .. Len(shots) PROVE SnapshotDrawn(shots[i], stores[p])
          <5>1. CASE i = 1
            BY <1>6, <1>10, <1>17, <5>1
          <5>2. CASE i # 1
            <6>1. i - 1 \in 1 .. Len(r.snapshots) /\ shots[i] = r.snapshots[i - 1]
              BY <1>10, <5>2
            <6> QED
              BY <4>1, <6>1 DEF SnapshotsDrawn
          <5> QED
            BY <5>1, <5>2
        <4>3. RecordIn(catalog', q).snapshots = shots
          BY <1>12, <1>13, <3>1
        <4> QED
          BY <3>1, <4>2, <4>3 DEF SnapshotsDrawn
      <3>2. CASE q # p
        BY <1>13, <1>17, <3>2 DEF AllDrawn
      <3> QED
        BY <3>1, <3>2
    <2> QED
      BY <2>1, <2>2 DEF AllDrawn
  <1>18. Whole(stores', catalog', jobs', mishaps')
    BY <1>1, <1>2, <1>17 DEF Whole
  <1> QED
    BY <1>1, <1>2, <1>13, <1>14, <1>16, <1>18 DEF ServerSound

(* The server is started again: nobody is at anything. *)
LEMMA RestartKeeps ==
  ASSUME DefaultPolicy \in Policy, ServerSound, RestartsServer
  PROVE  ServerSound'
  <1>1. /\ StoresSound(stores) /\ CatalogSound(catalog) /\ JobsSound(jobs)
        /\ OnlyOldLost(stores, catalog, jobs, mishaps) /\ Whole(stores, catalog, jobs, mishaps)
    BY DEF ServerSound
  <1>2. /\ stores' = stores /\ jobs' = [w \in Worker |-> Idle]
        /\ \/ /\ catalog' = catalog
              /\ mishaps' = IF \E w \in Worker : jobs[w].at = "record" THEN mishaps \cup {"purge cut short"}
                            ELSE mishaps
           \/ /\ catalog' = [p \in Project |-> IF p = Main THEN NewProject ELSE None]
              /\ mishaps' = mishaps \cup {"catalog lost"}
    BY DEF RestartsServer
  <1>3. \A w \in Worker : JobSound(jobs'[w]) /\ ViewDrawn(jobs'[w], stores) /\ jobs'[w].at # "record"
    BY <1>2 DEF Idle, JobSound, ViewDrawn
  <1>4. JobsSound(jobs') /\ Recording(stores', jobs', mishaps')
    <2>1. jobs' = [w \in Worker |-> jobs'[w]]
      BY <1>2
    <2> QED
      BY <1>3, <2>1 DEF JobsSound, Recording
  <1>a. mishaps \subseteq mishaps'
    BY <1>2
  <1>5. CASE /\ catalog' = catalog
             /\ mishaps' = IF \E w \in Worker : jobs[w].at = "record" THEN mishaps \cup {"purge cut short"}
                           ELSE mishaps
    <2>1. Whole(stores', catalog', jobs', mishaps')
      BY <1>1, <1>2, <1>3, <1>5, <1>a DEF Whole, AllDrawn
    <2>2. OnlyOldLost(stores', catalog', jobs', mishaps')
      BY <1>1, <1>2, <1>5 DEF OnlyOldLost
    <2> QED
      BY <1>1, <1>2, <1>4, <1>5, <2>1, <2>2 DEF ServerSound
  <1>6. CASE /\ catalog' = [p \in Project |-> IF p = Main THEN NewProject ELSE None]
             /\ mishaps' = mishaps \cup {"catalog lost"}
    <2>1. \A p \in Project : RecordIn(catalog', p) = NewProject
      BY <1>6 DEF RecordIn
    <2>2. RecordSound(NewProject) /\ Len(NewProject.snapshots) = 0
      <3> DEFINE none == <<>>
      <3>1. IsSeq(none) /\ 0 \in Nat /\ \A k \in 1 .. Len(none) : SnapshotSound(none[k])
        BY DEF IsSeq
      <3>2. NewProject = [min |-> 0, snapshots |-> none, policy |-> DefaultPolicy]
        BY DEF NewProject
      <3>3. Len(NewProject.snapshots) = 0
        BY DEF NewProject
      <3> HIDE DEF none
      <3> QED
        BY <3>1, <3>2, <3>3, RecordMade
    <2>3. CatalogSound(catalog')
      <3>1. catalog' = [p \in Project |-> catalog'[p]]
        BY <1>6
      <3> QED
        BY <2>1, <2>2, <3>1 DEF CatalogSound
    <2>4. Whole(stores', catalog', jobs', mishaps')
      <3>1. \A p \in Project : SnapshotsDrawn(RecordIn(catalog', p), stores[p])
        BY <2>1, <2>2 DEF SnapshotsDrawn
      <3> QED
        BY <1>1, <1>2, <1>3, <1>6, <3>1 DEF Whole, AllDrawn
    <2>5. OnlyOldLost(stores', catalog', jobs', mishaps')
      BY <1>6 DEF OnlyOldLost
    <2> QED
      BY <1>1, <1>2, <1>4, <2>3, <2>4, <2>5 DEF ServerSound
  <1> QED
    BY <1>2, <1>5, <1>6

(* What happens to an explorer *)
LEMMA MishapKeeps ==
  ASSUME ServerSound, ExplorerMishap
  PROVE  ServerSound'
  <1>1. mishaps \subseteq mishaps' /\ stores' = stores /\ catalog' = catalog /\ jobs' = jobs
    BY DEF ExplorerMishap
  <1>2. OnlyOldLost(stores', catalog', jobs', mishaps') /\ Recording(stores', jobs', mishaps')
    <2>1. SameRecorders(jobs, jobs')
      BY <1>1 DEF SameRecorders
    <2> QED
      BY <1>1, <2>1, LossesStay DEF ServerSound
  <1>3. Whole(stores', catalog', jobs', mishaps')
    BY <1>1 DEF ServerSound, Whole
  <1> QED
    BY <1>1, <1>2, <1>3 DEF ServerSound

(* A step of others. *)
LEMMA StutterKeeps ==
  ASSUME ServerKept, UNCHANGED serverVars
  PROVE  ServerKept'
  <1>1. stores' = stores /\ catalog' = catalog /\ jobs' = jobs /\ mishaps' = mishaps
    BY DEF serverVars
  <1> QED
    BY <1>1 DEF ServerKept, ServerSound

(* A server that starts with nothing. *)
LEMMA InitSound ==
  ASSUME DefaultPolicy \in Policy, ServerInit
  PROVE  ServerSound
  <1>1. /\ stores = [p \in Project |-> EmptySpace]
        /\ catalog = [p \in Project |-> IF p = Main THEN NewProject ELSE None]
        /\ jobs = [w \in Worker |-> Idle] /\ mishaps = {}
    BY DEF ServerInit
  <1>2. /\ Committed(EmptySpace) = 0 /\ Counted(EmptySpace.idem)
    <2>1. EmptySpace.idem = {}
      BY DEF EmptySpace
    <2>2. IsFiniteSet({}) /\ Cardinality({}) = 0
      BY FS_EmptySet
    <2>3. Counted({})
      BY <2>2 DEF Counted
    <2> QED
      BY <2>1, <2>2, <2>3 DEF Committed
  <1>3. StoreSound(EmptySpace) /\ Lost(EmptySpace) = 0 /\ IndexSound(EmptySpace) /\ Mirrored(EmptySpace)
    <2>1. Events(EmptySpace) = <<>> /\ EmptySpace.txIndex = <<>>
      BY DEF EmptySpace, Events, Streams
    <2>2. IsSeq(<<>>) /\ Len(<<>>) = 0
      BY DEF IsSeq
    <2>3. Lost(EmptySpace) = 0
      <3>1. Len(Events(EmptySpace)) = 0
        BY <2>1, <2>2
      <3> QED
        BY <1>2, <3>1 DEF Lost
    <2> QED
      BY <1>2, <2>1, <2>2, <2>3 DEF StoreSound, IndexSound, Mirrored
  <1>4. \A p \in Project : RecordIn(catalog, p) = NewProject
    BY <1>1 DEF RecordIn
  <1>5. RecordSound(NewProject) /\ Len(NewProject.snapshots) = 0 /\ NewProject.min = 0
    <2> DEFINE none == <<>>
    <2>1. IsSeq(none) /\ 0 \in Nat /\ \A k \in 1 .. Len(none) : SnapshotSound(none[k])
      BY DEF IsSeq
    <2>2. NewProject = [min |-> 0, snapshots |-> none, policy |-> DefaultPolicy]
      BY DEF NewProject
    <2>3. Len(NewProject.snapshots) = 0 /\ NewProject.min = 0
      BY DEF NewProject
    <2> HIDE DEF none
    <2> QED
      BY <2>1, <2>2, <2>3, RecordMade
  <1>6. StoresSound(stores) /\ AllMirrored(stores)
    BY <1>1, <1>3 DEF StoresSound, AllMirrored
  <1>7. CatalogSound(catalog)
    <2>1. catalog = [p \in Project |-> catalog[p]]
      BY <1>1
    <2> QED
      BY <1>4, <1>5, <2>1 DEF CatalogSound
  <1>8. /\ JobsSound(jobs) /\ Recording(stores, jobs, mishaps)
        /\ \A w \in Worker : ViewDrawn(jobs[w], stores)
    BY <1>1 DEF JobsSound, JobSound, ViewDrawn, Recording, Idle
  <1>9. OnlyOldLost(stores, catalog, jobs, mishaps)
    <2>1. \A p \in Project : Lost(stores[p]) = 0 /\ RecordIn(catalog, p).min = 0
      BY <1>1, <1>3, <1>4, <1>5
    <2>2. \A p \in Project : Lost(stores[p]) <= RecordIn(catalog, p).min
      <3> SUFFICES ASSUME NEW p \in Project PROVE Lost(stores[p]) <= RecordIn(catalog, p).min
        OBVIOUS
      <3>1. Lost(stores[p]) = 0 /\ RecordIn(catalog, p).min = 0
        BY <2>1
      <3> QED
        BY <3>1
    <2> QED
      BY <2>2, Zenon DEF OnlyOldLost
  <1>10. \A p \in Project : SnapshotsDrawn(RecordIn(catalog, p), stores[p])
    BY <1>4, <1>5 DEF SnapshotsDrawn
  <1> QED
    BY <1>6, <1>7, <1>8, <1>9, <1>10 DEF ServerSound, Whole, AllDrawn

-----------------------------------------------------------------------------
(* The theorems *)

(* What happened is not forgotten. *)
LEMMA MishapsGrow ==
  ASSUME [ServerNext]_serverVars
  PROVE  mishaps \subseteq mishaps'
  <1>1. ASSUME NEW p \in Project, ProjectStep(p) PROVE mishaps \subseteq mishaps'
    BY <1>1 DEF ProjectStep, Commands, CreatesSnapshot, SetsPolicy, ForkBegins, PurgeBegins
  <1>2. ASSUME NEW w \in Worker, WorkerStep(w) PROVE mishaps \subseteq mishaps'
    BY <1>2 DEF WorkerStep, ReadsView, Seals, ForkCopies, ForkSets, ChoosesCut, Compacts, RecordsPurge
  <1> QED
    BY <1>1, <1>2 DEF ServerNext, RestartsServer, ExplorerMishap, serverVars

(* Each step keeps the invariant, and so do the steps of others. *)
LEMMA ServerStepKeeps ==
  ASSUME NoneIsNoRecord, DefaultPolicy \in Policy, ServerKept, [ServerNext]_serverVars
  PROVE  ServerKept'
  <1>1. CASE {"purge", "repeated purge"} \subseteq mishaps
    BY <1>1, MishapsGrow DEF ServerKept
  <1>2. CASE UNCHANGED serverVars
    BY <1>2, StutterKeeps
  <1>3. CASE ServerSound /\ ServerNext
    <2>1. ASSUME NEW p \in Project, ProjectStep(p) PROVE ServerSound'
      <3>1. CASE \E e : IsGraphEvent(e) /\ Commands(p, e)
        BY <1>3, <3>1, CommandsKeep
      <3>2. CASE CreatesSnapshot(p)
        BY <1>3, <3>2, OccupiedKeeps DEF CreatesSnapshot
      <3>3. CASE \E w \in Worker : \E s : Occupy(w, p, s) /\ UNCHANGED <<stores, catalog, mishaps>>
        BY <1>3, <3>3, OccupiedKeeps
      <3>4. CASE \E policy \in Policy : SetsPolicy(p, policy)
        BY <1>3, <3>4, SetsPolicyKeeps
      <3>5. CASE \E q \in Project, i \in Nat : ForkBegins(p, q, i)
        BY <1>3, <3>5, ForkBeginsKeeps
      <3>6. CASE PurgeBegins(p)
        BY <1>3, <3>6, PurgeBeginsKeeps
      <3> QED
        BY <2>1, <3>1, <3>2, <3>3, <3>4, <3>5, <3>6 DEF ProjectStep
    <2>2. ASSUME NEW w \in Worker, WorkerStep(w) PROVE ServerKept'
      <3>1. CASE ReadsView(w)
        BY <1>3, <3>1, ReadsViewKeeps DEF ServerKept
      <3>2. CASE Seals(w)
        BY <1>3, <3>2, SealsKeeps DEF ServerKept
      <3>3. CASE ForkCopies(w)
        BY <1>3, <3>3, ForkCopiesKeeps DEF ServerKept
      <3>4. CASE \E isFollowed \in BOOLEAN : ForkSets(w, isFollowed)
        BY <1>3, <3>4, ForkSetsKeeps DEF ServerKept
      <3>5. CASE ChoosesCut(w)
        BY <1>3, <3>5, ChoosesCutKeeps DEF ServerKept
      <3>6. CASE Compacts(w)
        BY <1>3, <3>6, CompactsKeeps
      <3>7. CASE RecordsPurge(w)
        BY <1>3, <3>7, RecordsPurgeKeeps DEF ServerKept
      <3> QED
        BY <2>2, <3>1, <3>2, <3>3, <3>4, <3>5, <3>6, <3>7 DEF WorkerStep
    <2>3. ASSUME RestartsServer PROVE ServerSound'
      BY <1>3, <2>3, RestartKeeps
    <2>4. ASSUME ExplorerMishap PROVE ServerSound'
      BY <1>3, <2>4, MishapKeeps
    <2> QED
      BY <1>3, <2>1, <2>2, <2>3, <2>4 DEF ServerNext, ServerKept
  <1> QED
    BY <1>1, <1>2, <1>3 DEF ServerKept

(* The invariant, of the server beside any explorers. *)
THEOREM ServerStaysSound ==
  ASSUME NoneIsNoRecord, DefaultPolicy \in Policy
  PROVE  ServerSpec => []ServerKept
  <1>1. ServerInit => ServerKept
    BY InitSound DEF ServerKept
  <1>2. ServerKept /\ [ServerNext]_serverVars => ServerKept'
    BY ServerStepKeeps
  <1> QED
    BY <1>1, <1>2, PTL DEF ServerSpec

(* The invariant says of each project what PurgeKeepsTail says. *)
LEMMA TailKept == ASSUME ServerKept PROVE PurgeKeepsTail
  <1> SUFFICES ASSUME ServerSound, NEW p \in Project
               PROVE  LET tail == TailOf(stores[p])
                          lost == Committed(stores[p]) - Len(tail)
                      IN  /\ \A i \in DOMAIN tail : tail[i] = lost + i
                          /\ \/ lost <= Record(p).min
                             \/ \E w \in Worker : IsRecording(w, p)
                             \/ {"catalog lost", "purge cut short", "half-made fork"} \cap mishaps # {}
    BY DEF PurgeKeepsTail, ServerKept
  <1> DEFINE sp == stores[p]
             tail == TailOf(sp)
             n == Len(Events(sp))
  <1>1. /\ StoreSound(sp)
        /\ \/ Lost(sp) <= Record(p).min
           \/ \E w \in Worker : IsRecording(w, p)
           \/ {"catalog lost", "purge cut short", "half-made fork"} \cap mishaps # {}
    BY RecordIs DEF ServerSound, StoresSound, OnlyOldLost, IsRecording
  <1> HIDE DEF sp
  <1>2. /\ IsSeq(Events(sp)) /\ n \in Nat /\ DOMAIN Events(sp) = 1 .. n
        /\ \A i \in 1 .. n : Events(sp)[i].tx = Tx(Lost(sp) + i, History(sp)[Lost(sp) + i])
    BY <1>1, IsSeqIsSeq DEF StoreSound
  <1>3. tail = [i \in 1 .. n |-> Events(sp)[i].tx.n]
    BY <1>2 DEF TailOf, Events
  <1>4. ASSUME NEW i \in 1 .. n PROVE tail[i] = Lost(sp) + i
    <2> DEFINE event == History(sp)[Lost(sp) + i]
    <2>1. tail[i] = Events(sp)[i].tx.n /\ Events(sp)[i].tx = Tx(Lost(sp) + i, event)
      BY <1>2, <1>3
    <2> HIDE DEF event, tail
    <2> QED
      BY <2>1 DEF Tx
  <1>5. Len(tail) = n /\ DOMAIN tail = 1 .. n
    <2>1. tail = [i \in 1 .. n |-> tail[i]]
      BY <1>3
    <2> HIDE DEF tail, n
    <2>2. IsSeq(tail) /\ Len(tail) = n
      BY <1>2, <2>1, TupleIsSeq
    <2> QED
      BY <2>2, IsSeqIsSeq
  <1> HIDE DEF tail
  <1>6. Committed(sp) - Len(tail) = Lost(sp)
    BY <1>5 DEF Lost
  <1> QED
    BY <1>1, <1>4, <1>5, <1>6 DEF sp, tail

(* And what SnapshotsNotAhead says. *)
LEMMA NotAhead == ASSUME ServerKept PROVE SnapshotsNotAhead
  <1> SUFFICES ASSUME ServerSound, "purge" \notin mishaps, NEW p \in Project, NEW i \in DOMAIN Record(p).snapshots
               PROVE  LET s == Record(p).snapshots[i] IN
                      \E k \in 0 .. s.cursor : s.graph = Shown(GraphAt(p, k))
    BY DEF SnapshotsNotAhead, ServerKept
  <1> DEFINE r == Record(p)
             s == r.snapshots[i]
  <1>1. RecordSound(r) /\ SnapshotsDrawn(r, stores[p])
    BY RecordIs DEF ServerSound, CatalogSound, Whole, AllDrawn
  <1> HIDE DEF r
  <1>2. i \in 1 .. Len(r.snapshots)
    BY <1>1, RecordFields DEF r
  <1>3. \E k \in 0 .. s.cursor : s.graph = Shown(GraphOf(stores[p], k))
    BY <1>1, <1>2 DEF SnapshotsDrawn, SnapshotDrawn
  <1>4. \A k : GraphOf(stores[p], k) = GraphAt(p, k)
    BY DEF GraphOf, GraphAt
  <1> HIDE DEF s
  <1>5. \E k \in 0 .. s.cursor : s.graph = Shown(GraphAt(p, k))
    BY <1>3, <1>4
  <1> QED
    BY <1>5 DEF s, r

(* What came after the snapshot that a purge cuts at is still there, in order *)
(* and without a hole, of any projects and snapshots, whatever the workers    *)
(* were doing and between which steps of a purge, until a project that lost   *)
(* something is purged again.                                                 *)
THEOREM TailsAreKept ==
  ASSUME NoneIsNoRecord, DefaultPolicy \in Policy
  PROVE  ServerSpec => []PurgeKeepsTail
  <1>1. ServerKept => PurgeKeepsTail
    BY TailKept
  <1> QED
    BY <1>1, ServerStaysSound, PTL

(* No snapshot has an event after its cursor, however many commands came in   *)
(* while it was read.                                                         *)
THEOREM SnapshotsStayBehind ==
  ASSUME NoneIsNoRecord, DefaultPolicy \in Policy
  PROVE  ServerSpec => []SnapshotsNotAhead
  <1>1. ServerKept => SnapshotsNotAhead
    BY NotAhead
  <1> QED
    BY <1>1, ServerStaysSound, PTL
=============================================================================
