--------------------------- MODULE Followers_proofs ---------------------------
(***************************************************************************)
(* The followers of a publisher, each beside it, for every log.            *)
(*                                                                         *)
(* The digest client, for every stream: its durable state implements       *)
(* Follower, and its candidate is sound.                                   *)
(*                                                                         *)
(* The passive replicators, any number of them: no checkpoint is ahead of  *)
(* the sink, and the sink implements Follower.                             *)
(*                                                                         *)
(* Before that, of the sink's store by itself: the events an IndexedDB     *)
(* store keeps are numbered in their order, none beyond the head, and each *)
(* in the range of the index entry of its transaction, for any appends,    *)
(* compactions and deletions (NumbersStayOrdered).  An entry is found for  *)
(* every event (StreamSound), and an id is in the index once (IdsSound),   *)
(* since its slot is taken.  A compaction takes an entry and its events    *)
(* together and leaves the heads alone.  Until there is one, positions are *)
(* numbers (StreamTiled), and the reads agree (ReadsStayInAgreement).      *)
(*                                                                         *)
(* The two readers over HTTP, behind a proxy that breaks the stream: what  *)
(* mesh-app watch printed is the beginning of the log, and the notes of a  *)
(* notes replica are the server's (WatchStaysComplete,                     *)
(* NotesStayInAgreement).  What the stream or an answer holds begins where *)
(* the reader has been and has no hole; so whatever is applied twice is    *)
(* known, and what is new comes next (Pipe, PollSound).                    *)
(***************************************************************************)
EXTENDS DigestClient, Replica, NotesReplica, Gateway_proofs

-----------------------------------------------------------------------------
(* The publisher appends, or the client takes a step. *)

DigestNext == \/ (\E r \in AppendRequest : Publish(r)) /\ UNCHANGED <<client, task, upsets>>
              \/ DigestStep /\ UNCHANGED src

DigestSpec == PublisherInit /\ DigestInit /\ [][DigestNext]_digestVars

Copies == INSTANCE Follower WITH Tx <- TxId, log <- VisibleIds, copy <- DurableIds

-----------------------------------------------------------------------------
(* The inductive invariant *)

Total == CountVisibleTxs(src, Hidden)

(* The first k that can be pulled. *)
Pulled(k) == SubSeq(Pullable(src, Hidden), 1, k)

Client == [durable : Seq(Frame), durableCursor : Nat, candidate : Seq(Frame), candidateCursor : Nat,
           pollValidated : Nat, seen : SUBSET TxId, needsPoll : BOOLEAN]

(* Both states of the client are what can be pulled up to their cursors. *)
ClientSound ==
  /\ client \in Client
  /\ client.durableCursor <= Total /\ client.durable = Pulled(client.durableCursor)
  /\ client.candidateCursor <= Total /\ client.candidate = Pulled(client.candidateCursor)
  /\ client.seen = IdsOfState(client.candidate)

(* A task has collected what can be pulled from where it began; a validation  *)
(* began at the durable cursor, which only its end moves.  Every round        *)
(* brought something.                                                         *)
TaskSound ==
  \/ task = NoTask
  \/ \E op \in {"validate", "recover"}, from, cursor, rounds \in Nat :
       /\ task = TaskAt(op, from, SubSeq(Pullable(src, Hidden), from + 1, cursor), cursor, rounds)
       /\ from + rounds <= cursor /\ cursor <= Total
       /\ from = IF op = "validate" THEN client.durableCursor ELSE 0

DigestSound == src \in Space /\ ClientSound /\ TaskSound

(* The candidate is not behind the durable state. *)
NotBehind == client.durableCursor <= client.candidateCursor

-----------------------------------------------------------------------------
(* Lemmas about states of the client *)

(* The ids of a longer state. *)
LEMMA IdsOfAppend ==
  ASSUME NEW s \in Seq(Frame), NEW x \in Frame
  PROVE  IdsOfState(Append(s, x)) = IdsOfState(s) \cup {x.tx}
  <1> DEFINE t == Append(s, x)
  <1>1. Len(s) \in Nat /\ DOMAIN s = 1 .. Len(s) /\ DOMAIN t = 1 .. Len(s) + 1
    OBVIOUS
  <1>2. t[Len(s) + 1] = x /\ \A i \in 1 .. Len(s) : t[i] = s[i]
    OBVIOUS
  <1>3. \A i \in 1 .. Len(s) + 1 : i \in 1 .. Len(s) \/ i = Len(s) + 1
    BY <1>1
  <1>4. \A i \in 1 .. Len(s) : i \in 1 .. Len(s) + 1
    BY <1>1
  <1> HIDE DEF t
  <1>5. IdsOfState(t) = {t[i].tx : i \in 1 .. Len(s) + 1} /\ IdsOfState(s) = {s[i].tx : i \in 1 .. Len(s)}
    BY <1>1, Zenon DEF IdsOfState
  <1>6. Len(s) + 1 \in 1 .. Len(s) + 1
    BY <1>1
  <1>7. \A e : e \in {t[i].tx : i \in 1 .. Len(s) + 1} <=> e \in {s[i].tx : i \in 1 .. Len(s)} \/ e = x.tx
    BY <1>2, <1>3, <1>4, <1>6, Zenon
  <1> QED
    BY <1>5, <1>7, Zenon DEF t

(* The ids of a state are ids. *)
LEMMA IdsType ==
  ASSUME NEW s \in Seq(Frame)
  PROVE  IdsOfState(s) \in SUBSET TxId
  <1>1. \A i \in DOMAIN s : s[i].tx \in TxId
    <2> SUFFICES ASSUME NEW i \in DOMAIN s PROVE s[i].tx \in TxId
      OBVIOUS
    <2>1. s[i] \in Frame
      OBVIOUS
    <2> QED
      BY <2>1 DEF Frame
  <1> QED
    BY <1>1 DEF IdsOfState

(* What can be pulled, and its beginnings. *)
LEMMA PulledProperties ==
  ASSUME src \in Space
  PROVE  /\ Total \in Nat
         /\ Pullable(src, Hidden) \in Seq(Frame) /\ Len(Pullable(src, Hidden)) = Total
         /\ Delta(0, Visible) = Pullable(src, Hidden)
         /\ \A k \in 0 .. Total : /\ Pulled(k) \in Seq(Frame) /\ Len(Pulled(k)) = k
                                  /\ \A i \in 1 .. k : Pulled(k)[i] = Pullable(src, Hidden)[i]
  <1>1. /\ Total \in Nat
        /\ Pullable(src, Hidden) \in Seq(Frame) /\ Len(Pullable(src, Hidden)) = Total
    BY PullableProperties DEF Total
  <1>2. Delta(0, Visible) = Pullable(src, Hidden)
    BY DEF Pullable, Visible
  <1>3. ASSUME NEW k \in 0 .. Total
        PROVE  /\ Pulled(k) \in Seq(Frame) /\ Len(Pulled(k)) = k
               /\ \A i \in 1 .. k : Pulled(k)[i] = Pullable(src, Hidden)[i]
    BY <1>1, PrefixProperties DEF Pulled
  <1> QED
    BY <1>1, <1>2, <1>3

(* The ids that can be seen are a sequence. *)
LEMMA VisibleIdsType ==
  ASSUME src \in Space
  PROVE  /\ VisibleIds = SeenIds(src, Hidden) /\ VisibleIds \in Seq(TxId)
         /\ Len(VisibleIds) = CountVisibleTxs(src, Hidden) /\ Len(VisibleIds) \in Nat
  <1>1. VisibleIds = SeenIds(src, Hidden)
    BY DEF VisibleIds, Visible, SeenIds
  <1>2. SeenIds(src, Hidden) \in Seq(TxId) /\ Len(SeenIds(src, Hidden)) = CountVisibleTxs(src, Hidden)
    BY SeenProperties
  <1> QED
    BY <1>1, <1>2

(* What can be pulled after the first a, up to e. *)
Piece(a, e) == SubSeq(Pullable(src, Hidden), a + 1, e)

(* A piece, and what its elements are. *)
LEMMA PieceProperties ==
  ASSUME src \in Space, NEW a \in Nat, NEW e \in Nat, a <= e, e <= Total
  PROVE  /\ Piece(a, e) \in Seq(Frame) /\ Len(Piece(a, e)) = e - a
         /\ \A i \in 1 .. e - a : /\ a + i \in 1 .. Total
                                  /\ Piece(a, e)[i] = Pullable(src, Hidden)[a + i]
                                  /\ Piece(a, e)[i].tx = VisibleIds[a + i]
  <1> DEFINE P == Pullable(src, Hidden)
  <1>1. /\ Total \in Nat /\ P \in Seq(Frame) /\ Len(P) = Total
        /\ \A i \in 1 .. Total : P[i] = [cursor |-> i, tx |-> Visible[i].tx]
    BY PullableProperties DEF Total, Visible
  <1>2. \A i \in 1 .. Total : VisibleIds[i] = Visible[i].tx
    <2>1. DOMAIN Visible = 1 .. Total
      BY VisibleType DEF Visible, Total
    <2> QED
      BY <2>1 DEF VisibleIds
  <1> HIDE DEF P
  <1>3. a + 1 \in Int /\ e \in Int /\ \A i \in a + 1 .. e : P[i] \in Frame
    BY <1>1
  <1>4. /\ SubSeq(P, a + 1, e) \in Seq(Frame)
        /\ Len(SubSeq(P, a + 1, e)) = IF a + 1 <= e THEN e - (a + 1) + 1 ELSE 0
        /\ \A i \in 1 .. (e - (a + 1) + 1) : SubSeq(P, a + 1, e)[i] = P[a + 1 + i - 1]
    BY <1>3, SubSeqProperties
  <1>5. \A i \in 1 .. e - a : a + i \in 1 .. Total /\ a + 1 + i - 1 = a + i /\ i \in 1 .. (e - (a + 1) + 1)
    BY <1>1
  <1>6. (IF a + 1 <= e THEN e - (a + 1) + 1 ELSE 0) = e - a
    OBVIOUS
  <1>7. \A i \in 1 .. e - a : SubSeq(P, a + 1, e)[i] = P[a + i]
    BY <1>4, <1>5
  <1>8. \A i \in 1 .. e - a : P[a + i].tx = VisibleIds[a + i]
    BY <1>1, <1>2, <1>5
  <1> QED
    BY <1>4, <1>5, <1>6, <1>7, <1>8 DEF Piece, P

(* When something is published, there is not less to pull, and what could be  *)
(* pulled stays as it was.                                                    *)
LEMMA PieceStays ==
  ASSUME src \in Space, NEW r \in AppendRequest, Publish(r)
  PROVE  /\ src' \in Space /\ Total \in Nat /\ Total' \in Nat /\ Total <= Total'
         /\ \A a, e \in Nat : a <= e /\ e <= Total => Piece(a, e)' = Piece(a, e)
         /\ \A k \in 0 .. Total : /\ Pulled(k)' = Pulled(k)
                                  /\ SubSeq(VisibleIds', 1, k) = SubSeq(VisibleIds, 1, k)
         /\ \A i \in 1 .. Total : VisibleIds'[i] = VisibleIds[i]
  <1> DEFINE P == Pullable(src, Hidden)
             x == NextFrame(src, Hidden, r)
             V == VisibleIds
  <1>1. src' = AppendTx(src, r) /\ src' \in Space
    BY AppendTxType DEF Publish
  <1>2. /\ P' = IF r.tx \in Hidden THEN P ELSE Append(P, x)
        /\ V' = IF r.tx \in Hidden THEN V ELSE Append(V, r.tx)
    <2>1. P' = Pullable(AppendTx(src, r), Hidden) /\ V' = SeenIds(AppendTx(src, r), Hidden)
      BY <1>1 DEF VisibleIds, Visible, SeenIds
    <2>2. V = SeenIds(src, Hidden)
      BY DEF VisibleIds, Visible, SeenIds
    <2> QED
      BY <2>1, <2>2, SeenGrows, Zenon
  <1>3. /\ Total \in Nat /\ P \in Seq(Frame) /\ Len(P) = Total
        /\ V \in Seq(TxId) /\ Len(V) = Total
    BY PullableProperties, VisibleIdsType DEF Total
  <1>4. Total' \in Nat /\ P' \in Seq(Frame) /\ Len(P') = Total'
    BY <1>1, PullableProperties DEF Total
  <1>5. x \in Frame /\ r.tx \in TxId
    BY <1>3 DEF Frame, AppendRequest, NextFrame, Total
  <1> HIDE DEF P, x, V
  <1>6. Total <= Total' /\ (\A i \in 1 .. Total : P'[i] = P[i] /\ V'[i] = V[i])
    BY <1>2, <1>3, <1>4, <1>5, AppendProperties
  <1>7. ASSUME NEW from \in Nat, NEW k \in Nat, from <= k, k <= Total
        PROVE  SubSeq(P', from + 1, k) = SubSeq(P, from + 1, k)
    <2> DEFINE s == SubSeq(P, from + 1, k)
               t == SubSeq(P', from + 1, k)
    <2>1. \A i \in from + 1 .. k : i \in 1 .. Total /\ P'[i] = P[i]
      <3>1. \A i \in from + 1 .. k : i \in 1 .. Total
        BY <1>3, <1>7
      <3> QED
        BY <1>6, <3>1
    <2>2. \A i \in from + 1 .. k : P[i] \in Frame /\ P'[i] \in Frame
      BY <1>3, <2>1
    <2>3. from + 1 \in Int /\ k \in Int
      OBVIOUS
    <2>4. /\ s \in Seq(Frame) /\ Len(s) = (IF from + 1 <= k THEN k - (from + 1) + 1 ELSE 0)
          /\ \A i \in 1 .. (k - (from + 1) + 1) : s[i] = P[from + 1 + i - 1]
      BY <2>2, <2>3, SubSeqProperties
    <2>5. /\ t \in Seq(Frame) /\ Len(t) = (IF from + 1 <= k THEN k - (from + 1) + 1 ELSE 0)
          /\ \A i \in 1 .. (k - (from + 1) + 1) : t[i] = P'[from + 1 + i - 1]
      BY <2>2, <2>3, SubSeqProperties
    <2> HIDE DEF s, t
    <2>6. \A i \in 1 .. (k - (from + 1) + 1) : from + 1 + i - 1 \in from + 1 .. k
      OBVIOUS
    <2>7. Len(s) = Len(t) /\ \A i \in 1 .. Len(s) : s[i] = t[i]
      BY <1>7, <2>1, <2>4, <2>5, <2>6
    <2>8. s = t
      BY <2>4, <2>5, <2>7, SeqEqual
    <2> QED
      BY <2>8 DEF s, t
  <1>8. \A k \in 0 .. Total : SubSeq(P', 1, k) = SubSeq(P, 1, k)
    <2> SUFFICES ASSUME NEW k \in 0 .. Total PROVE SubSeq(P', 1, k) = SubSeq(P, 1, k)
      OBVIOUS
    <2>1. 0 \in Nat /\ 0 <= k /\ 0 + 1 = 1 /\ k \in Nat /\ k <= Total
      BY <1>3
    <2>2. SubSeq(P', 0 + 1, k) = SubSeq(P, 0 + 1, k)
      BY <1>7, <2>1
    <2> QED
      BY <2>1, <2>2
  <1>9. \A k \in 0 .. Total : SubSeq(V', 1, k) = SubSeq(V, 1, k)
    BY <1>2, <1>3, <1>5, PrefixOfAppend
  <1>10. /\ \A a, e \in Nat : a <= e /\ e <= Total => Piece(a, e)' = Piece(a, e)
         /\ \A k \in 0 .. Total : Pulled(k)' = Pulled(k)
    BY <1>7, <1>8 DEF Piece, Pulled, P
  <1> QED
    BY <1>1, <1>3, <1>4, <1>6, <1>9, <1>10 DEF V

-----------------------------------------------------------------------------
(* The publisher's step *)

(* What the client has stays what can be pulled when more can be pulled.      *)
LEMMA PublishKeeps ==
  ASSUME DigestSound, NEW r \in AppendRequest, Publish(r), UNCHANGED <<client, task, upsets>>
  PROVE  DigestSound' /\ Total <= Total'
  <1>1. /\ src \in Space /\ src' \in Space /\ Total \in Nat /\ Total' \in Nat /\ Total <= Total'
        /\ \A a, e \in Nat : a <= e /\ e <= Total => Piece(a, e)' = Piece(a, e)
        /\ \A k \in 0 .. Total : Pulled(k)' = Pulled(k)
    BY PieceStays DEF DigestSound
  <1>2. \A k \in Nat : k <= Total => Pulled(k)' = Pulled(k)
    BY <1>1
  <1>3. ClientSound'
    <2>1. ClientSound /\ client' = client
      BY DEF DigestSound
    <2>2. client.durableCursor \in Nat /\ client.candidateCursor \in Nat
      BY <2>1 DEF ClientSound, Client
    <2> QED
      BY <1>1, <1>2, <2>1, <2>2 DEF ClientSound
  <1>4. TaskSound'
    <2>1. TaskSound /\ task' = task /\ client' = client
      BY DEF DigestSound
    <2>2. CASE task = NoTask
      BY <2>1, <2>2 DEF TaskSound
    <2>3. CASE task # NoTask
      <3>1. PICK op \in {"validate", "recover"}, from \in Nat, cursor \in Nat, rounds \in Nat :
              /\ task = TaskAt(op, from, Piece(from, cursor), cursor, rounds)
              /\ from + rounds <= cursor /\ cursor <= Total
              /\ from = IF op = "validate" THEN client.durableCursor ELSE 0
        BY <2>1, <2>3 DEF TaskSound, Piece
      <3>2. Piece(from, cursor)' = Piece(from, cursor)
        <4>1. from <= cursor /\ cursor <= Total
          BY <3>1
        <4> QED
          BY <1>1, <4>1
      <3>3. cursor <= Total'
        BY <1>1, <3>1
      <3> QED
        BY <2>1, <3>1, <3>2, <3>3 DEF TaskSound, Piece
    <2> QED
      BY <2>2, <2>3
  <1> QED
    BY <1>1, <1>3, <1>4 DEF DigestSound

-----------------------------------------------------------------------------
(* The client's steps *)

(* The frame of the next position extends the candidate; other frames, and    *)
(* damaged ones, only make the client ask for a poll.                         *)
LEMMA FramesKeep ==
  ASSUME DigestSound, src' = src,
         \/ \E frame \in Frames : ApplyFrame(frame) \/ DistrustFrame(frame)
         \/ DamagedFrame
  PROVE  DigestSound' /\ (NotBehind => NotBehind') /\ client'.durable = client.durable
  <1> DEFINE P == Pullable(src, Hidden)
  <1>1. /\ src \in Space /\ Total \in Nat /\ P \in Seq(Frame) /\ Len(P) = Total
        /\ Delta(0, Visible) = P /\ ClientSound /\ TaskSound
    BY PulledProperties DEF DigestSound
  <1>2. Total' = Total /\ (\A k : Pulled(k)' = Pulled(k)) /\ P' = P
    BY DEF Total, Pulled
  <1>3. client \in Client
    BY <1>1 DEF ClientSound
  <1> HIDE DEF P
  <1>4. CASE \E frame \in Frames : ApplyFrame(frame)
    <2>1. PICK i \in 1 .. Total : ApplyFrame(P[i])
      <3>1. DOMAIN Visible = 1 .. Total
        BY <1>1, VisibleType DEF Visible, Total
      <3> QED
        BY <1>1, <1>4, <3>1, Zenon DEF Frames
    <2>2. P[i] = [cursor |-> i, tx |-> Visible[i].tx] /\ P[i] \in Frame
      <3>1. i \in 1 .. CountVisibleTxs(src, Hidden)
        BY DEF Total
      <3>2. P[i] = [cursor |-> i, tx |-> VisibleTxs(src, Hidden)[i].tx]
        BY <1>1, <3>1, PullableProperties DEF P
      <3> QED
        BY <1>1, <3>2 DEF Visible
    <2> DEFINE c == client.candidateCursor
    <2>3. c \in Nat /\ i = c + 1 /\ c + 1 <= Len(P)
      <3>1. P[i].cursor = i
        BY <2>2
      <3>2. P[i].cursor = c + 1
        BY <2>1, Zenon DEF ApplyFrame, IsNext
      <3>3. c \in Nat
        BY <1>3 DEF Client
      <3> QED
        BY <1>1, <3>1, <3>2, <3>3
    <2>4. /\ client.candidate = SubSeq(P, 1, c) /\ client.candidate \in Seq(Frame)
          /\ client.seen = IdsOfState(client.candidate)
      BY <1>1, <1>3 DEF ClientSound, Client, Pulled, P
    <2>5. client' = [client EXCEPT !.candidate = Append(client.candidate, P[i]),
                                   !.seen = client.seen \cup {P[i].tx},
                                   !.candidateCursor = c + 1]
      <3>1. P[i].cursor = c + 1
        BY <2>2, <2>3
      <3> QED
        BY <2>1, <3>1, Zenon DEF ApplyFrame
    <2>6. Append(client.candidate, P[i]) = SubSeq(P, 1, c + 1)
      BY <1>1, <2>3, <2>4, PrefixNext
    <2>7. Append(client.candidate, P[i]) \in Seq(Frame)
      BY <2>2, <2>4
    <2>8. IdsOfState(Append(client.candidate, P[i])) = client.seen \cup {P[i].tx}
      BY <2>2, <2>4, IdsOfAppend
    <2>9. client.seen \cup {P[i].tx} \in SUBSET TxId
      BY <1>3, <2>2 DEF Client, Frame
    <2> HIDE DEF c
    <2>10. /\ client'.durable = client.durable /\ client'.durableCursor = client.durableCursor
           /\ client'.candidate = Append(client.candidate, P[i])
           /\ client'.candidateCursor = c + 1
           /\ client'.seen = client.seen \cup {P[i].tx}
           /\ client' \in Client
      <3>1. c + 1 \in Nat
        BY <2>3
      <3> DEFINE cand == Append(client.candidate, P[i])
                 ids  == client.seen \cup {P[i].tx}
      <3>2. cand \in Seq(Frame) /\ ids \in SUBSET TxId
        BY <2>7, <2>9
      <3>3. client' = [client EXCEPT !.candidate = cand, !.seen = ids, !.candidateCursor = c + 1]
        BY <2>5
      <3> HIDE DEF cand, ids
      <3>4. /\ client'.durable = client.durable /\ client'.durableCursor = client.durableCursor
            /\ client'.candidate = cand /\ client'.candidateCursor = c + 1 /\ client'.seen = ids
        BY <1>3, <3>3 DEF Client
      <3>5. client' \in Client
        BY <1>3, <3>1, <3>2, <3>3 DEF Client
      <3> QED
        BY <3>4, <3>5 DEF cand, ids
    <2>11. ClientSound'
      <3>1. client.durableCursor <= Total /\ client.durable = Pulled(client.durableCursor)
        BY <1>1 DEF ClientSound
      <3>2. c + 1 <= Total /\ Append(client.candidate, P[i]) = Pulled(c + 1)
        BY <1>1, <2>3, <2>6 DEF Pulled, P
      <3> QED
        BY <1>2, <2>8, <2>10, <3>1, <3>2 DEF ClientSound
    <2>12. TaskSound'
      <3>1. task' = task
        BY <2>1 DEF ApplyFrame
      <3> QED
        BY <1>1, <1>2, <2>10, <3>1 DEF TaskSound, P
    <2>13. NotBehind => NotBehind'
      <3>1. client.durableCursor \in Nat
        BY <1>3 DEF Client
      <3> QED
        BY <2>3, <2>10, <3>1 DEF NotBehind, c
    <2> QED
      BY <1>1, <2>10, <2>11, <2>12, <2>13 DEF DigestSound
  <1>5. CASE (\E frame \in Frames : DistrustFrame(frame)) \/ DamagedFrame
    <2>1. client' = [client EXCEPT !.needsPoll = TRUE] /\ task' = task
      BY <1>5 DEF DistrustFrame, DamagedFrame
    <2>2. /\ client' \in Client
          /\ client'.durable = client.durable /\ client'.durableCursor = client.durableCursor
          /\ client'.candidate = client.candidate
          /\ client'.candidateCursor = client.candidateCursor
          /\ client'.seen = client.seen
      BY <1>3, <2>1 DEF Client
    <2>3. ClientSound'
      BY <1>1, <1>2, <2>2 DEF ClientSound
    <2>4. TaskSound'
      BY <1>1, <1>2, <2>1, <2>2 DEF TaskSound, P
    <2> QED
      BY <1>1, <2>2, <2>3, <2>4 DEF DigestSound, NotBehind
  <1> QED
    BY <1>4, <1>5

(* A task begins with nothing, where it has to. *)
LEMMA StartsKeep ==
  ASSUME DigestSound, src' = src, StartValidate \/ StartRecover
  PROVE  DigestSound' /\ client' = client
  <1> DEFINE P == Pullable(src, Hidden)
  <1>1. /\ src \in Space /\ Total \in Nat /\ P \in Seq(Frame) /\ Len(P) = Total
        /\ ClientSound /\ client' = client
    BY PulledProperties DEF DigestSound, StartValidate, StartRecover
  <1>2. Total' = Total /\ (\A k : Pulled(k)' = Pulled(k)) /\ P' = P
    BY DEF Total, Pulled
  <1>3. ClientSound'
    BY <1>1, <1>2 DEF ClientSound
  <1>4. client.durableCursor \in Nat /\ client.durableCursor <= Total
    BY <1>1 DEF ClientSound, Client
  <1>5. \A from \in Nat : SubSeq(P, from + 1, from) = <<>>
    BY SubSeqEmpty
  <1> HIDE DEF P
  <1>6. PICK op \in {"validate", "recover"}, from \in Nat :
          /\ task' = TaskAt(op, from, <<>>, from, 0)
          /\ from = IF op = "validate" THEN client.durableCursor ELSE 0
    <2>1. CASE StartValidate
      BY <1>4, <2>1 DEF StartValidate
    <2>2. CASE StartRecover
      BY <2>2 DEF StartRecover
    <2> QED
      BY <2>1, <2>2
  <1>7. /\ task' = TaskAt(op, from, SubSeq(P, from + 1, from), from, 0)
        /\ 0 \in Nat /\ from + 0 <= from /\ from <= Total
    <2>1. from <= Total
      BY <1>1, <1>4, <1>6
    <2>2. SubSeq(P, from + 1, from) = <<>>
      BY <1>5
    <2> QED
      <3>1. 0 \in Nat /\ from + 0 <= from
        OBVIOUS
      <3> QED
        BY <1>6, <2>1, <2>2, <3>1, Zenon
  <1>8. TaskSound'
    BY <1>1, <1>2, <1>6, <1>7 DEF TaskSound, P
  <1> QED
    BY <1>1, <1>3, <1>8 DEF DigestSound

(* A round brings the next ones. *)
LEMMA CollectKeeps ==
  ASSUME DigestSound, src' = src, Collect
  PROVE  DigestSound' /\ client' = client
  <1> DEFINE P == Pullable(src, Hidden)
  <1>1. /\ src \in Space /\ Total \in Nat /\ P \in Seq(Frame) /\ Len(P) = Total
        /\ ClientSound /\ TaskSound /\ client' = client /\ task # NoTask
    BY PulledProperties DEF DigestSound, Collect
  <1>2. Total' = Total /\ (\A k : Pulled(k)' = Pulled(k)) /\ P' = P
    BY DEF Total, Pulled
  <1> HIDE DEF P
  <1>3. ClientSound'
    BY <1>1, <1>2 DEF ClientSound
  <1>4. PICK op \in {"validate", "recover"}, from \in Nat, cursor \in Nat, rounds \in Nat :
          /\ task = TaskAt(op, from, SubSeq(P, from + 1, cursor), cursor, rounds)
          /\ from + rounds <= cursor /\ cursor <= Total
          /\ from = IF op = "validate" THEN client.durableCursor ELSE 0
    BY <1>1 DEF TaskSound, P
  <1>5. /\ task.op = op /\ task.from = from /\ task.txs = SubSeq(P, from + 1, cursor)
        /\ task.cursor = cursor /\ task.rounds = rounds
    BY <1>4 DEF TaskAt
  <1>6. PICK fits \in Fits :
          /\ SyncPull(src, Hidden, cursor, LimitTx, fits).txs # <<>>
          /\ task' = TaskAt(op, from, SubSeq(P, from + 1, cursor)
                                        \o SyncPull(src, Hidden, cursor, LimitTx, fits).txs,
                            SyncPull(src, Hidden, cursor, LimitTx, fits).after, rounds + 1)
    BY <1>5 DEF Collect
  <1> DEFINE pulled == SyncPull(src, Hidden, cursor, LimitTx, fits)
             after  == pulled.after
  <1>7. LimitTx \in Nat /\ fits \in Nat \ {0}
    BY DigestAssumption
  <1>8. /\ after \in Nat /\ after >= cursor /\ cursor < Total
        /\ after <= Total /\ after > cursor
        /\ pulled.txs = SubSeq(P, cursor + 1, after)
    <2>1. PullsNext(pulled, P, Total, cursor)
      BY <1>1, <1>7, PullProperties, Zenon DEF Total, P
    <2>2. pulled.txs # <<>>
      BY <1>6
    <2> HIDE DEF pulled
    <2>3. ~(cursor >= Total)
      BY <2>1, <2>2 DEF PullsNext
    <2> QED
      BY <1>1, <1>4, <2>1, <2>3 DEF PullsNext
  <1> HIDE DEF pulled, after
  <1>9. SubSeq(P, from + 1, cursor) \o SubSeq(P, cursor + 1, after) = SubSeq(P, from + 1, after)
    <2>1. from + 1 \in 1 .. Len(P) + 1 /\ cursor \in (from + 1) - 1 .. Len(P) /\ after \in cursor .. Len(P)
      BY <1>1, <1>4, <1>8
    <2> QED
      BY <1>1, <2>1, ConcatAdjacentSubSeq
  <1>10. task' = TaskAt(op, from, SubSeq(P, from + 1, after), after, rounds + 1)
    BY <1>6, <1>8, <1>9 DEF pulled, after
  <1>11. rounds + 1 \in Nat /\ from + (rounds + 1) <= after
    BY <1>4, <1>8
  <1>12. TaskSound'
    BY <1>1, <1>2, <1>4, <1>8, <1>10, <1>11 DEF TaskSound, P
  <1> QED
    BY <1>1, <1>3, <1>12 DEF DigestSound

(* The end of a task leaves the durable state, a candidate that is as much of *)
(* the log, and no task.                                                      *)
LEMMA EndSound ==
  ASSUME DigestSound, src' = src, task' = NoTask, client' \in Client,
         NEW d \in Nat, d <= Total, client'.durableCursor = d, client'.durable = Pulled(d),
         NEW c \in Nat, c <= Total, client'.candidateCursor = c, client'.candidate = Pulled(c),
         client'.seen = IdsOfState(client'.candidate)
  PROVE  DigestSound'
  <1>1. Total' = Total /\ (\A k : Pulled(k)' = Pulled(k))
    BY DEF Total, Pulled
  <1>2. ClientSound'
    BY <1>1 DEF ClientSound
  <1>3. TaskSound'
    BY DEF TaskSound
  <1> QED
    BY <1>2, <1>3 DEF DigestSound

(* A task that ends has collected up to its cursor, and everything unless it  *)
(* was cut short.                                                             *)
LEMMA CollectedAll ==
  ASSUME DigestSound, NEW op \in {"validate", "recover"}, Collected(op)
  PROVE  /\ task.cursor \in Nat /\ task.cursor <= Total
         /\ task.txs \in Seq(Frame)
         /\ op = "recover" => task.txs = Pulled(task.cursor)
         /\ Total <= MaxRounds => task.cursor = Total
  <1> DEFINE P == Pullable(src, Hidden)
  <1>1. /\ src \in Space /\ Total \in Nat /\ P \in Seq(Frame) /\ Len(P) = Total /\ TaskSound
    BY PulledProperties DEF DigestSound
  <1> HIDE DEF P
  <1>2. task # NoTask
    BY DEF Collected, NoTask
  <1>3. PICK o \in {"validate", "recover"}, from \in Nat, cursor \in Nat, rounds \in Nat :
          /\ task = TaskAt(o, from, SubSeq(P, from + 1, cursor), cursor, rounds)
          /\ from + rounds <= cursor /\ cursor <= Total
          /\ from = IF o = "validate" THEN client.durableCursor ELSE 0
    BY <1>1, <1>2 DEF TaskSound, P
  <1>4. /\ task.op = o /\ task.txs = SubSeq(P, from + 1, cursor)
        /\ task.cursor = cursor /\ task.rounds = rounds
    BY <1>3 DEF TaskAt
  <1>5. task.txs \in Seq(Frame)
    <2>1. \A i \in from + 1 .. cursor : P[i] \in Frame
      BY <1>1, <1>3
    <2>2. from + 1 \in Int /\ cursor \in Int
      OBVIOUS
    <2> QED
      BY <1>4, <2>1, <2>2, SubSeqProperties
  <1>6. ASSUME op = "recover" PROVE task.txs = Pulled(task.cursor)
    <2>1. o = "recover"
      BY <1>4, <1>6 DEF Collected
    <2>2. from + 1 = 1
      BY <1>3, <2>1
    <2> QED
      BY <1>4, <2>2 DEF Pulled, P
  <1>7. ASSUME Total <= MaxRounds PROVE cursor = Total
    <2>1. CASE task.rounds = MaxRounds
      BY <1>1, <1>3, <1>4, <1>7, <2>1, DigestAssumption
    <2>2. CASE task.rounds # MaxRounds
      <3> DEFINE pulled == SyncPull(src, Hidden, cursor, LimitTx, 1)
      <3>1. pulled.txs = <<>>
        BY <1>4, <2>2, Zenon DEF Collected
      <3>2. LimitTx \in Nat /\ 1 \in Nat \ {0}
        BY DigestAssumption
      <3>3. PullsNext(pulled, P, Total, cursor)
        BY <1>1, <3>2, PullProperties, Zenon DEF Total, P
      <3> HIDE DEF pulled
      <3>4. ~(cursor < Total)
        BY <3>1, <3>3 DEF PullsNext
      <3> QED
        BY <1>1, <1>3, <3>4
    <2> QED
      BY <2>1, <2>2
  <1> QED
    BY <1>3, <1>4, <1>5, <1>6, <1>7

(* A validation that confirms makes the candidate durable, which is then not  *)
(* shorter than before; one that does not goes back to the durable state.     *)
LEMMA ValidateKeeps ==
  ASSUME DigestSound, src' = src, ValidateCommits \/ ValidateFails
  PROVE  /\ DigestSound' /\ NotBehind'
         /\ client'.durableCursor >= client.durableCursor
  <1>1. /\ src \in Space /\ Total \in Nat /\ ClientSound /\ client \in Client
        /\ \A k \in 0 .. Total : Pulled(k) \in Seq(Frame) /\ Len(Pulled(k)) = k
    BY PulledProperties DEF DigestSound, ClientSound
  <1> DEFINE d == client.durableCursor
             c == client.candidateCursor
  <1>2. /\ d \in Nat /\ d <= Total /\ client.durable = Pulled(d) /\ client.durable \in Seq(Frame)
        /\ c \in Nat /\ c <= Total /\ client.candidate = Pulled(c) /\ client.candidate \in Seq(Frame)
        /\ client.seen = IdsOfState(client.candidate)
    BY <1>1 DEF ClientSound, Client
  <1>3. task' = NoTask /\ Collected("validate")
    BY DEF ValidateCommits, ValidateFails
  <1>4. task.cursor \in Nat /\ task.txs \in Seq(Frame)
    BY <1>3, CollectedAll
  <1> HIDE DEF d, c
  <1>5. CASE ValidateCommits
    <2>1. client' = [client EXCEPT !.durable = client.candidate, !.durableCursor = c,
                                   !.pollValidated = task.cursor]
      BY <1>5 DEF ValidateCommits, c
    <2>2. client.candidate = client.durable \o task.txs
      BY <1>5 DEF ValidateCommits, PollConfirms
    <2>3. c >= d
      <3>1. Len(client.durable) = d /\ Len(client.candidate) = c
        BY <1>1, <1>2
      <3>2. Len(client.durable \o task.txs) = Len(client.durable) + Len(task.txs) /\ Len(task.txs) \in Nat
        BY <1>2, <1>4, ConcatProperties
      <3> QED
        BY <1>2, <2>2, <3>1, <3>2
    <2>4. /\ client' \in Client
          /\ client'.durable = client.candidate /\ client'.durableCursor = c
          /\ client'.candidate = client.candidate /\ client'.candidateCursor = c
          /\ client'.seen = client.seen
      BY <1>1, <1>2, <1>4, <2>1 DEF Client, c
    <2>5. DigestSound'
      BY <1>2, <1>3, <2>4, EndSound
    <2> QED
      BY <1>2, <2>3, <2>4, <2>5 DEF NotBehind, d
  <1>6. CASE ValidateFails
    <2>1. client' = [[client EXCEPT !.pollValidated = task.cursor]
                       EXCEPT !.candidate = client.durable, !.candidateCursor = d,
                              !.seen = IdsOfState(client.durable), !.needsPoll = TRUE]
      BY <1>1, <1>6 DEF ValidateFails, Rollback, Client, d
    <2>2. IdsOfState(client.durable) \in SUBSET TxId
      BY <1>2, IdsType
    <2>3. /\ client' \in Client
          /\ client'.durable = client.durable /\ client'.durableCursor = d
          /\ client'.candidate = client.durable /\ client'.candidateCursor = d
          /\ client'.seen = IdsOfState(client.durable)
      BY <1>1, <1>2, <1>4, <2>1, <2>2 DEF Client, d
    <2>4. DigestSound'
      BY <1>2, <1>3, <2>3, EndSound
    <2> QED
      BY <1>2, <2>3, <2>4 DEF NotBehind, d
  <1> QED
    BY <1>5, <1>6

(* A recovery makes what was polled the candidate. *)
LEMMA RecoverKeeps ==
  ASSUME DigestSound, src' = src, RecoverEnds
  PROVE  /\ DigestSound' /\ (Total <= MaxRounds => NotBehind')
         /\ client'.durable = client.durable
  <1>1. /\ src \in Space /\ Total \in Nat /\ ClientSound /\ client \in Client
    BY PulledProperties DEF DigestSound, ClientSound
  <1> DEFINE d == client.durableCursor
  <1>2. d \in Nat /\ d <= Total /\ client.durable = Pulled(d)
    BY <1>1 DEF ClientSound, Client
  <1>3. task' = NoTask /\ Collected("recover")
    BY DEF RecoverEnds
  <1>4. /\ task.cursor \in Nat /\ task.cursor <= Total /\ task.txs \in Seq(Frame)
        /\ task.txs = Pulled(task.cursor) /\ (Total <= MaxRounds => task.cursor = Total)
    BY <1>3, CollectedAll
  <1>5. IdsOfState(task.txs) \in SUBSET TxId
    BY <1>4, IdsType
  <1>6. client' = [client EXCEPT !.candidate = task.txs, !.candidateCursor = task.cursor,
                                 !.pollValidated = task.cursor,
                                 !.seen = IdsOfState(task.txs), !.needsPoll = FALSE]
    BY DEF RecoverEnds
  <1>7. /\ client' \in Client
        /\ client'.durable = client.durable /\ client'.durableCursor = d
        /\ client'.candidate = task.txs /\ client'.candidateCursor = task.cursor
        /\ client'.seen = IdsOfState(task.txs)
    BY <1>1, <1>4, <1>5, <1>6 DEF Client
  <1> HIDE DEF d
  <1>8. DigestSound'
    BY <1>2, <1>3, <1>4, <1>7, EndSound
  <1> QED
    BY <1>2, <1>4, <1>7, <1>8 DEF NotBehind

(* The next process begins with the durable state. *)
LEMMA RestartKeeps ==
  ASSUME DigestSound, src' = src, DigestRestart
  PROVE  DigestSound' /\ NotBehind' /\ client'.durable = client.durable
  <1>1. /\ src \in Space /\ Total \in Nat /\ ClientSound /\ client \in Client
    BY PulledProperties DEF DigestSound, ClientSound
  <1> DEFINE d == client.durableCursor
  <1>2. d \in Nat /\ d <= Total /\ client.durable = Pulled(d) /\ client.durable \in Seq(Frame)
    BY <1>1 DEF ClientSound, Client
  <1>3. IdsOfState(client.durable) \in SUBSET TxId
    BY <1>2, IdsType
  <1>4. /\ task' = NoTask
        /\ client' = [durable |-> client.durable, durableCursor |-> d,
                      candidate |-> client.durable, candidateCursor |-> d,
                      pollValidated |-> d, seen |-> IdsOfState(client.durable), needsPoll |-> FALSE]
    BY DEF DigestRestart, InitialState
  <1> HIDE DEF d
  <1>5. /\ client' \in Client
        /\ client'.durable = client.durable /\ client'.durableCursor = d
        /\ client'.candidate = client.durable /\ client'.candidateCursor = d
        /\ client'.seen = IdsOfState(client.durable)
    BY <1>2, <1>3, <1>4 DEF Client
  <1>6. DigestSound'
    BY <1>2, <1>4, <1>5, EndSound
  <1> QED
    BY <1>2, <1>5, <1>6 DEF NotBehind

-----------------------------------------------------------------------------
(* Any step *)

(* The invariant is inductive, and the durable state only becomes longer.     *)
LEMMA DigestStepKeeps ==
  ASSUME DigestSound, [DigestNext]_digestVars
  PROVE  /\ DigestSound'
         /\ (NotBehind /\ Total <= MaxRounds => NotBehind')
         /\ \/ src' = src /\ client'.durable = client.durable
            \/ src' = src /\ client'.durableCursor >= client.durableCursor
            \/ \E r \in AppendRequest : src' = AppendTx(src, r) /\ client' = client
  <1>1. CASE \E r \in AppendRequest : Publish(r) /\ UNCHANGED <<client, task, upsets>>
    <2>1. PICK r \in AppendRequest : Publish(r) /\ UNCHANGED <<client, task, upsets>>
      BY <1>1
    <2>2. DigestSound'
      BY <2>1, PublishKeeps
    <2> QED
      BY <2>1, <2>2 DEF Publish, NotBehind
  <1>2. CASE /\ src' = src
             /\ (\E frame \in Frames : ApplyFrame(frame) \/ DistrustFrame(frame)) \/ DamagedFrame
    BY <1>2, FramesKeep
  <1>3. CASE src' = src /\ (StartValidate \/ StartRecover)
    BY <1>3, StartsKeep DEF NotBehind
  <1>4. CASE src' = src /\ Collect
    BY <1>4, CollectKeeps DEF NotBehind
  <1>5. CASE src' = src /\ (ValidateCommits \/ ValidateFails)
    BY <1>5, ValidateKeeps
  <1>6. CASE src' = src /\ RecoverEnds
    BY <1>6, RecoverKeeps
  <1>7. CASE src' = src /\ DigestRestart
    BY <1>7, RestartKeeps
  <1>8. CASE UNCHANGED digestVars
    <2>1. src' = src /\ client' = client /\ task' = task
      BY <1>8 DEF digestVars
    <2> QED
      BY <2>1 DEF DigestSound, ClientSound, TaskSound, Total, Pulled, NotBehind
  <1>9. CASE DigestStep /\ UNCHANGED src
    BY <1>2, <1>3, <1>4, <1>5, <1>6, <1>7, <1>9 DEF DigestStep, DigestPoll
  <1> QED
    BY <1>1, <1>8, <1>9 DEF DigestNext

(* The client begins with the beginning of an empty log. *)
LEMMA DigestInitSound ==
  ASSUME PublisherInit, DigestInit
  PROVE  DigestSound /\ NotBehind
  <1>1. src \in Space
    BY EmptySpaceType DEF PublisherInit
  <1>2. /\ Total = 0 /\ Pulled(0) = <<>>
    BY <1>1, NothingYet, PulledProperties, EmptySeq DEF PublisherInit, Total, Pulled
  <1>3. /\ task = NoTask
        /\ client = [durable |-> <<>>, durableCursor |-> 0, candidate |-> <<>>, candidateCursor |-> 0,
                     pollValidated |-> 0, seen |-> IdsOfState(<<>>), needsPoll |-> FALSE]
    BY DEF DigestInit, InitialState
  <1>4. <<>> \in Seq(Frame) /\ IdsOfState(<<>>) \in SUBSET TxId
    BY EmptySeq, IdsType
  <1>5. ClientSound
    BY <1>2, <1>3, <1>4 DEF ClientSound, Client
  <1> QED
    BY <1>1, <1>3, <1>5 DEF DigestSound, TaskSound, NotBehind

-----------------------------------------------------------------------------
(* The theorems *)

(* Whatever the stream and the polls do, both states of the client are what   *)
(* the gateway gives from the start of the log up to their cursors.           *)
THEOREM DigestStates == DigestSpec => []DigestSound
  <1>1. PublisherInit /\ DigestInit => DigestSound
    BY DigestInitSound
  <1>2. DigestSound /\ [DigestNext]_digestVars => DigestSound'
    BY DigestStepKeeps
  <1> QED
    BY <1>1, <1>2, PTL DEF DigestSpec

(* A log that no poll has to be cut short for (256 rounds) keeps the          *)
(* candidate of the client sound.                                             *)
THEOREM CandidateStaysSound ==
  DigestSpec /\ [](Len(Visible) <= MaxRounds) => []CandidateSound
  <1>1. PublisherInit /\ DigestInit => NotBehind
    BY DigestInitSound
  <1>2. DigestSound /\ NotBehind /\ Len(Visible) <= MaxRounds /\ [DigestNext]_digestVars => NotBehind'
    BY DigestStepKeeps DEF Total, CountVisibleTxs, Visible
  <1>3. DigestSound /\ NotBehind => CandidateSound
    <2> SUFFICES ASSUME DigestSound, NotBehind PROVE CandidateSound
      OBVIOUS
    <2> DEFINE d == client.durableCursor
               c == client.candidateCursor
               P == Pullable(src, Hidden)
    <2>1. /\ Total \in Nat /\ P \in Seq(Frame) /\ Len(P) = Total /\ Delta(0, Visible) = P
          /\ \A k \in 0 .. Total : /\ Pulled(k) \in Seq(Frame) /\ Len(Pulled(k)) = k
                                   /\ \A i \in 1 .. k : Pulled(k)[i] = P[i]
      BY PulledProperties DEF DigestSound
    <2>2. /\ d \in Nat /\ client.durable = Pulled(d)
          /\ c \in Nat /\ c <= Total /\ client.candidate = Pulled(c) /\ d <= c
          /\ client.seen = IdsOfState(client.candidate)
      BY DEF DigestSound, ClientSound, Client, NotBehind
    <2> HIDE DEF d, c, P
    <2>3. d \in 0 .. Total /\ c \in 0 .. Total
      BY <2>1, <2>2
    <2> DEFINE s == SubSeq(Pulled(c), 1, d)
    <2>4. /\ s \in Seq(Frame) /\ Len(s) = d
          /\ \A i \in 1 .. d : s[i] = Pulled(c)[i]
      <3>1. d \in 0 .. Len(Pulled(c))
        BY <2>1, <2>2, <2>3
      <3> QED
        BY <2>1, <2>3, <3>1, PrefixProperties
    <2> HIDE DEF s
    <2>5. \A i \in 1 .. d : s[i] = P[i] /\ Pulled(d)[i] = P[i]
      <3>1. \A i \in 1 .. d : i \in 1 .. c
        BY <2>2
      <3> QED
        BY <2>1, <2>3, <2>4, <3>1
    <2>6. Len(s) = Len(Pulled(d)) /\ \A i \in 1 .. Len(s) : s[i] = Pulled(d)[i]
      BY <2>1, <2>3, <2>4, <2>5
    <2>7. s = Pulled(d)
      BY <2>1, <2>3, <2>4, <2>6, SeqEqual
    <2> QED
      BY <2>1, <2>2, <2>7 DEF CandidateSound, Pulled, s, d, c, P
  <1> QED
    BY <1>1, <1>2, <1>3, DigestStates, PTL DEF DigestSpec

(* The ids in a state, in order. *)
IdsIn(s) == [i \in DOMAIN s |-> s[i].tx]

(* The ids of what has been pulled are a beginning of those of the log. *)
LEMMA IdsOfPrefix ==
  ASSUME NEW sp \in Space, NEW hid, NEW k \in Nat, k <= CountVisibleTxs(sp, hid)
  PROVE  IdsIn(SubSeq(Pullable(sp, hid), 1, k)) = SubSeq(SeenIds(sp, hid), 1, k)
  <1> DEFINE P == Pullable(sp, hid)
             I == SeenIds(sp, hid)
             n == CountVisibleTxs(sp, hid)
             V == VisibleTxs(sp, hid)
             s == SubSeq(P, 1, k)
             t == [i \in DOMAIN s |-> s[i].tx]
             u == SubSeq(I, 1, k)
  <1>1. /\ n \in Nat /\ P \in Seq(Frame) /\ Len(P) = n
        /\ \A i \in 1 .. n : P[i] = [cursor |-> i, tx |-> V[i].tx]
    BY PullableProperties, Zenon
  <1>2. I \in Seq(TxId) /\ Len(I) = n /\ \A i \in 1 .. n : I[i] = V[i].tx
    BY SeenProperties, Zenon
  <1>3. k \in 0 .. n
    BY <1>1
  <1> HIDE DEF P, I, n, V
  <1>4. /\ s \in Seq(Frame) /\ Len(s) = k /\ DOMAIN s = 1 .. k
        /\ \A i \in 1 .. k : s[i] = P[i]
    BY <1>1, <1>3, PrefixProperties
  <1> HIDE DEF s
  <1>5. u \in Seq(TxId) /\ Len(u) = k /\ \A i \in 1 .. k : u[i] = I[i]
    BY <1>2, <1>3, PrefixProperties
  <1>6. \A i \in 1 .. k : i \in 1 .. n
    BY <1>1, <1>3
  <1>7. \A i \in 1 .. k : s[i].tx = I[i] /\ I[i] \in TxId
    <2> SUFFICES ASSUME NEW i \in 1 .. k PROVE s[i].tx = I[i] /\ I[i] \in TxId
      OBVIOUS
    <2>1. i \in 1 .. n
      BY <1>6
    <2>2. s[i] = P[i]
      BY <1>4
    <2>3. P[i] = [cursor |-> i, tx |-> V[i].tx]
      BY <1>1, <2>1
    <2>4. I[i] = V[i].tx /\ I[i] \in TxId
      BY <1>2, <2>1
    <2> QED
      BY <2>2, <2>3, <2>4
  <1>8. t \in [1 .. k -> TxId] /\ \A i \in 1 .. k : t[i] = I[i]
    BY <1>4, <1>7
  <1> HIDE DEF t, u
  <1>9. t \in Seq(TxId) /\ Len(t) = k
    BY <1>8, FunctionIsSeq
  <1>10. Len(t) = Len(u) /\ \A i \in 1 .. Len(t) : t[i] = u[i]
    BY <1>5, <1>8, <1>9
  <1>11. t = u
    BY <1>5, <1>9, <1>10, SeqEqual
  <1> QED
    BY <1>11 DEF IdsIn, t, u, s, I, P

(* The client implements Follower: its durable state is a beginning of what   *)
(* the principal can see, and only grows, whatever was lost, repeated,        *)
(* damaged, rolled back or restarted (validateAndCommit).                     *)
THEOREM DigestImplementsFollower == DigestSpec => Copies!Spec
  <1>1. PublisherInit /\ DigestInit => Copies!Init
    <2> SUFFICES ASSUME PublisherInit, DigestInit PROVE VisibleIds = <<>> /\ DurableIds = <<>>
      BY DEF Copies!Init
    <2>1. VisibleIds = SeenIds(EmptySpace, Hidden)
      BY DEF VisibleIds, Visible, SeenIds, PublisherInit
    <2>2. client.durable = <<>>
      BY DEF DigestInit, InitialState
    <2> QED
      BY <2>1, <2>2, NothingYet DEF DurableIds
  <1>2. DigestSound /\ DigestSound' /\ [DigestNext]_digestVars
          => [Copies!Next]_<<VisibleIds, DurableIds>>
    <2> SUFFICES ASSUME DigestSound, DigestSound', [DigestNext]_digestVars
                 PROVE  Copies!Next \/ UNCHANGED <<VisibleIds, DurableIds>>
      OBVIOUS
    <2>1. VisibleIds = SeenIds(src, Hidden) /\ VisibleIds' = SeenIds(src', Hidden)
      BY DEF VisibleIds, Visible, SeenIds
    <2>2. CASE src' = src /\ client'.durable = client.durable
      <3>1. VisibleIds' = VisibleIds
        BY <2>1, <2>2
      <3>2. DurableIds' = DurableIds
        BY <2>2 DEF DurableIds
      <3> QED
        BY <3>1, <3>2
    <2>3. CASE src' = src /\ client'.durableCursor >= client.durableCursor
      <3> DEFINE d == client.durableCursor
                 e == client'.durableCursor
                 I == SeenIds(src, Hidden)
      <3>1. /\ src \in Space /\ d \in Nat /\ d <= Total /\ client.durable = Pulled(d)
        BY DEF DigestSound, ClientSound, Client
      <3>2. /\ e \in Nat /\ e <= Total' /\ client'.durable = SubSeq(Pullable(src', Hidden), 1, e)
        BY DEF DigestSound, ClientSound, Client, Pulled
      <3>3. Total' = Total /\ Total = CountVisibleTxs(src, Hidden)
            /\ Pulled(d) = SubSeq(Pullable(src, Hidden), 1, d)
            /\ client'.durable = SubSeq(Pullable(src, Hidden), 1, e)
        <4>1. Total' = CountVisibleTxs(src', Hidden)
          BY DEF Total
        <4> QED
          BY <2>3, <3>2, <4>1 DEF Total, Pulled
      <3> HIDE DEF d, e
      <3>4. DurableIds = SubSeq(I, 1, d)
        <4>1. client.durable = SubSeq(Pullable(src, Hidden), 1, d) /\ d <= CountVisibleTxs(src, Hidden)
          BY <3>1, <3>3
        <4> QED
          BY <3>1, <4>1, IdsOfPrefix DEF DurableIds, IdsIn
      <3>5. DurableIds' = SubSeq(I, 1, e)
        <4>1. client'.durable = SubSeq(Pullable(src, Hidden), 1, e) /\ e <= CountVisibleTxs(src, Hidden)
          BY <3>2, <3>3
        <4>2. IdsIn(SubSeq(Pullable(src, Hidden), 1, e)) = SubSeq(SeenIds(src, Hidden), 1, e)
          BY <3>1, <3>2, <4>1, IdsOfPrefix
        <4>3. DurableIds' = IdsIn(client'.durable)
          BY DEF DurableIds, IdsIn
        <4> QED
          BY <4>1, <4>2, <4>3
      <3>6. I \in Seq(TxId) /\ Len(I) = Total /\ Total \in Nat
        BY <3>1, <3>3, SeenProperties, PulledProperties
      <3> HIDE DEF I
      <3>7. d \in 0 .. Len(I)
        BY <3>1, <3>6
      <3>8. Len(DurableIds) = d
        BY <3>4, <3>6, <3>7, PrefixProperties
      <3>9. e \in Len(DurableIds) .. Len(VisibleIds)
        BY <2>1, <2>3, <3>2, <3>3, <3>6, <3>8 DEF d, e, I
      <3>10. VisibleIds' = VisibleIds /\ DurableIds' = SubSeq(VisibleIds, 1, e)
        BY <2>1, <2>3, <3>5 DEF I
      <3> QED
        BY <3>9, <3>10 DEF Copies!Next, Copies!Copy
    <2>4. CASE \E r \in AppendRequest : src' = AppendTx(src, r) /\ client' = client
      <3>1. PICK r \in AppendRequest : src' = AppendTx(src, r) /\ client' = client
        BY <2>4
      <3>2. src \in Space /\ r.tx \in TxId
        BY DEF DigestSound, AppendRequest
      <3>3. VisibleIds' = VisibleIds \/ VisibleIds' = Append(VisibleIds, r.tx)
        BY <2>1, <3>1, <3>2, SeenGrows, Zenon
      <3>4. DurableIds' = DurableIds
        BY <3>1 DEF DurableIds
      <3> QED
        BY <3>2, <3>3, <3>4 DEF Copies!Next, Copies!Grow
    <2> QED
      BY <2>2, <2>3, <2>4, DigestStepKeeps
  <1> QED
    BY <1>1, <1>2, DigestStates, PTL DEF DigestSpec, Copies!Spec

-----------------------------------------------------------------------------
(* The events of one transaction *)

TxAt(evs, tx) == {i \in 1 .. Len(evs) : evs[i].tx = tx}

(* They are those that carry its id, in their order. *)
LEMMA OwnPlaces ==
  ASSUME NEW evs \in Seq(Event), NEW tx
  PROVE  /\ EventsOfTx(evs, tx) \in Seq(Event)
         /\ \E p : FilterPlaces(p, EventsOfTx(evs, tx), evs, TxAt(evs, tx), Len(evs))
  <1> DEFINE others == {evs[i].tx : i \in DOMAIN evs} \ {tx}
             own == Kept(evs, others)
  <1>1. EventsOfTx(evs, tx) = own
    BY DEF EventsOfTx
  <1>2. \A i \in 1 .. Len(evs) : i \in KeptAt(evs, others) <=> i \in TxAt(evs, tx)
    BY DEF KeptAt, TxAt
  <1> HIDE DEF others, own
  <1>3. own \in Seq(Event) /\ \E p : FilterPlaces(p, own, evs, KeptAt(evs, others), Len(evs))
    BY KeptProperties DEF own
  <1>4. PICK p : FilterPlaces(p, own, evs, KeptAt(evs, others), Len(evs))
    BY <1>3
  <1>5. FilterPlaces(p, own, evs, TxAt(evs, tx), Len(evs))
    BY <1>2, <1>4 DEF FilterPlaces
  <1> QED
    BY <1>1, <1>3, <1>5

(* The latest of them is that after which there is none. *)
LEMMA OwnLatest ==
  ASSUME NEW evs \in Seq(Event), NEW q \in 1 .. Len(evs),
         \A i \in q + 1 .. Len(evs) : evs[i].tx # evs[q].tx
  PROVE  Latest(EventsOfTx(evs, evs[q].tx)) = evs[q]
  <1> DEFINE tx == evs[q].tx
             own == EventsOfTx(evs, tx)
  <1>1. own \in Seq(Event) /\ Len(own) \in Nat /\ Len(evs) \in Nat
    BY OwnPlaces
  <1>2. PICK p : FilterPlaces(p, own, evs, TxAt(evs, tx), Len(evs))
    BY OwnPlaces
  <1>3. q \in TxAt(evs, tx)
    BY DEF TxAt
  <1>4. PICK k \in 1 .. Len(own) : p[k] = q
    BY <1>2, <1>3 DEF FilterPlaces
  <1>5. ASSUME NEW l \in 1 .. Len(own), k < l PROVE FALSE
    <2>1. p[l] \in 1 .. Len(evs) /\ p[l] \in TxAt(evs, tx) /\ q < p[l]
      BY <1>2, <1>4, <1>5 DEF FilterPlaces
    <2>2. p[l] \in q + 1 .. Len(evs) /\ evs[p[l]].tx = tx
      BY <2>1 DEF TxAt
    <2> QED
      BY <2>2
  <1> HIDE DEF own
  <1>6. k = Len(own)
    BY <1>1, <1>5
  <1>7. own[k] = evs[q]
    BY <1>2, <1>4 DEF FilterPlaces
  <1> QED
    BY <1>6, <1>7 DEF own, Latest

(* Of the first n positions, at has those from a to b. *)
Run(at, a, b, n) ==
  /\ a \in Nat /\ b \in Nat /\ n \in Nat /\ 1 <= a /\ a <= b /\ b <= n
  /\ \A i \in 1 .. n : i \in at <=> i \in a .. b

(* A filter that takes just those takes them one by one. *)
LEMMA FilterRun ==
  ASSUME NEW p, NEW g, NEW s, NEW at, NEW n, NEW a, NEW b,
         Len(g) \in Nat, FilterPlaces(p, g, s, at, n), Run(at, a, b, n)
  PROVE  /\ Len(g) = b - a + 1
         /\ \A k \in 1 .. Len(g) : p[k] = a + k - 1 /\ g[k] = s[a + k - 1]
  <1> DEFINE m == Len(g)
  <1>3. /\ \A k \in 1 .. m : p[k] \in a .. b /\ g[k] = s[p[k]]
        /\ \A k, l \in 1 .. m : k < l => p[k] < p[l]
        /\ \A i \in a .. b : \E k \in 1 .. m : p[k] = i
    <2>2. \A i \in a .. b : i \in 1 .. n
      BY DEF Run
    <2> QED
      BY <2>2 DEF FilterPlaces, Run
  <1>1. m \in Nat /\ a \in Nat /\ b \in Nat /\ n \in Nat /\ 1 <= a /\ a <= b /\ b <= n
    BY DEF Run
  <1> HIDE DEF m
  <1>4. \A k \in Nat : k \in 1 .. m => p[k] = a + k - 1
    <2> DEFINE S == {k \in Nat : k \in 1 .. m => p[k] = a + k - 1}
    <2>1. 0 \in S
      BY <1>1
    <2>2. ASSUME NEW k \in Nat, k \in S PROVE k + 1 \in S
      <3> SUFFICES ASSUME k + 1 \in 1 .. m PROVE p[k + 1] = a + k
        OBVIOUS
      <3>1. p[k + 1] \in a .. b
        BY <1>1, <1>3
      <3>2. CASE k = 0
        <4>1. PICK l \in 1 .. m : p[l] = a
          BY <1>1, <1>3
        <4>2. ~(1 < l)
          BY <1>3, <3>1, <3>2, <4>1
        <4> QED
          BY <1>1, <3>2, <4>1, <4>2
      <3>3. CASE k # 0
        <4>1. k \in 1 .. m /\ p[k] = a + k - 1
          BY <1>1, <2>2, <3>3
        <4>2. p[k] < p[k + 1]
          BY <1>1, <1>3, <4>1
        <4>3. a + k \in a .. b
          BY <1>1, <3>1, <4>1, <4>2
        <4>4. PICK l \in 1 .. m : p[l] = a + k
          BY <1>3, <4>3
        <4>a. l < k => p[l] < p[k]
          BY <1>3, <4>1
        <4>b. p[k] # a + k
          BY <1>1, <4>1
        <4>5. ~(l < k) /\ l # k
          BY <1>1, <4>1, <4>4, <4>a, <4>b
        <4>6. l = k + 1 \/ k + 1 < l
          BY <1>1, <4>5
        <4>7. k + 1 < l => p[k + 1] < a + k
          BY <1>3, <4>4
        <4> QED
          BY <1>1, <3>1, <4>1, <4>2, <4>4, <4>6, <4>7
      <3> QED
        BY <3>2, <3>3
    <2> HIDE DEF S
    <2>3. \A k \in Nat : k \in S
      BY <2>1, <2>2, NatInduct
    <2> QED
      BY <2>3 DEF S
  <1>5. m = b - a + 1
    <2>1. PICK l \in 1 .. m : p[l] = b
      BY <1>1, <1>3
    <2>2. p[l] = a + l - 1 /\ p[m] = a + m - 1 /\ p[m] \in a .. b
      BY <1>1, <1>3, <1>4
    <2> QED
      BY <1>1, <2>1, <2>2
  <1>6. ASSUME NEW k \in 1 .. m PROVE p[k] = a + k - 1 /\ g[k] = s[a + k - 1]
    <2>1. p[k] = a + k - 1
      BY <1>1, <1>4
    <2> QED
      BY <1>3, <2>1
  <1> QED
    BY <1>5, <1>6 DEF m

(* If they lie together, they are the slice from the first to the last. *)
LEMMA OwnSlice ==
  ASSUME NEW evs \in Seq(Event), NEW tx, NEW a, NEW b, Run(TxAt(evs, tx), a, b, Len(evs))
  PROVE  EventsOfTx(evs, tx) = SliceBySeqRange(evs, a, b)
  <1> DEFINE own == EventsOfTx(evs, tx)
             m == b - a + 1
             got == SliceBySeqRange(evs, a, b)
  <1>1. own \in Seq(Event) /\ Len(own) \in Nat
    BY OwnPlaces
  <1>2. PICK p : FilterPlaces(p, own, evs, TxAt(evs, tx), Len(evs))
    BY OwnPlaces
  <1> HIDE DEF own
  <1>0. Len(own) \in Nat
    BY <1>1
  <1>3. /\ Len(own) = b - a + 1
        /\ \A k \in 1 .. Len(own) : p[k] = a + k - 1 /\ own[k] = evs[a + k - 1]
    <2> DEFINE at == TxAt(evs, tx)
               n  == Len(evs)
    <2>1. FilterPlaces(p, own, evs, at, n) /\ Run(at, a, b, n)
      BY <1>2
    <2> HIDE DEF m, got, at, n
    <2>2. Len(own) = b - a + 1
      BY <1>0, <2>1, FilterRun
    <2>3. \A k \in 1 .. Len(own) : p[k] = a + k - 1 /\ own[k] = evs[a + k - 1]
      BY <1>0, <2>1, FilterRun
    <2> QED
      BY <2>2, <2>3
  <1>4. Len(own) = b - a + 1
    BY <1>3
  <1>a. /\ a \in Nat /\ b \in Nat /\ Len(evs) \in Nat /\ 1 <= a /\ a <= b /\ b <= Len(evs)
        /\ m \in Nat
    BY DEF Run
  <1>5. b - a + 1 = m
    OBVIOUS
  <1> HIDE DEF m
  <1>6. /\ got \in Seq(Event) /\ Len(got) = m
        /\ \A i \in 1 .. m : got[i] = evs[a - 1 + i]
    <2> DEFINE from == a - 1
    <2>1. from \in 0 .. Len(evs) /\ b \in 0 .. Len(evs) /\ from + 1 = a /\ from <= b /\ b - from = m
      BY <1>a, <1>5
    <2> HIDE DEF from
    <2>2. /\ SliceBySeqRange(evs, from + 1, b) \in Seq(Event)
          /\ Len(SliceBySeqRange(evs, from + 1, b)) = b - from
          /\ \A i \in 1 .. b - from : SliceBySeqRange(evs, from + 1, b)[i] = evs[from + i]
      BY <2>1, SliceProperties
    <2> QED
      BY <2>1, <2>2 DEF from
  <1>7. \A i \in 1 .. m : own[i] = evs[a - 1 + i]
    BY <1>a, <1>1, <1>3, <1>4, <1>5
  <1>8. own \in Seq(Event) /\ Len(own) = m
    BY <1>a, <1>1, <1>3, <1>4, <1>5
  <1>9. DOMAIN own = 1 .. m /\ DOMAIN got = 1 .. m
    BY <1>6, <1>8
  <1>10. own = [i \in 1 .. m |-> own[i]] /\ got = [i \in 1 .. m |-> got[i]]
    BY <1>6, <1>8, <1>9
  <1>11. \A i \in 1 .. m : own[i] = got[i]
    BY <1>6, <1>7
  <1> QED
    BY <1>10, <1>11 DEF own, got

(* A filter that leaves something out makes a sequence shorter. *)
LEMMA FilterShorter ==
  ASSUME NEW p, NEW g, Len(g) \in Nat, NEW s, NEW at, NEW n \in Nat, FilterPlaces(p, g, s, at, n)
  PROVE  /\ Len(g) <= n
         /\ (\E i \in 1 .. n : i \notin at) => Len(g) < n
  <1> DEFINE D == 1 .. Len(g)
             E == 1 .. n
  <1>1. IsFiniteSet(D) /\ Cardinality(D) = Len(g) /\ IsFiniteSet(E) /\ Cardinality(E) = n
    <2>1. 1 \in Int /\ Len(g) \in Int /\ n \in Int
      OBVIOUS
    <2>2. IsFiniteSet(D) /\ Cardinality(D) = IF 1 > Len(g) THEN 0 ELSE Len(g) - 1 + 1
      BY <2>1, FS_Interval
    <2>3. IsFiniteSet(E) /\ Cardinality(E) = IF 1 > n THEN 0 ELSE n - 1 + 1
      BY <2>1, FS_Interval
    <2> QED
      BY <2>2, <2>3
  <1>2. ASSUME NEW k \in D, NEW l \in D, p[k] = p[l] PROVE k = l
    <2>1. p[k] \in 1 .. n /\ ~(k < l) /\ ~(l < k)
      BY <1>2 DEF FilterPlaces
    <2> QED
      BY <2>1
  <1>3. p \in [D -> E] /\ \A k \in D : p[k] \in at
    BY DEF FilterPlaces
  <1> HIDE DEF D, E
  <1>4. ASSUME NEW T, IsFiniteSet(T), p \in [D -> T] PROVE ~(Cardinality(T) < Cardinality(D))
    <2> SUFFICES ASSUME Cardinality(T) < Cardinality(D) PROVE FALSE
      OBVIOUS
    <2>1. \E k, l \in D : k # l /\ p[k] = p[l]
      BY <1>1, <1>4, FS_PigeonHole, Zenon
    <2> QED
      BY <1>2, <2>1
  <1>5. Len(g) <= n
    BY <1>1, <1>3, <1>4
  <1>6. ASSUME NEW i \in E, i \notin at PROVE Len(g) < n
    <2>1. p \in [D -> E \ {i}]
      BY <1>3, <1>6
    <2>2. IsFiniteSet(E \ {i}) /\ Cardinality(E \ {i}) = n - 1
      BY <1>1, <1>6, FS_RemoveElement
    <2>3. ~(Cardinality(E \ {i}) < Cardinality(D))
      BY <1>4, <2>1, <2>2
    <2> QED
      BY <1>1, <2>2, <2>3
  <1> QED
    BY <1>5, <1>6 DEF E

-----------------------------------------------------------------------------
(* The store by itself *)

DbNext(R) == (\E r \in R : DbWrite(r)) \/ (\E c \in Nat : DbCompact(c)) \/ DbDelete

DbSpec(R) == DbInit /\ [][DbNext(R)]_db

(* A transaction is appended under one slot: a replica names the slot after   *)
(* it, and the servers draw its id at random.                                 *)
OneSlot(R) == \A p, q \in R : p.tx = q.tx => p.slot = q.slot

-----------------------------------------------------------------------------
(* Its inductive invariant *)

Covers(e, x, s) == e.tx = x.tx /\ x.seq \in e.start[s] .. e.end[s]

StreamSound(evs, index, head, s) ==
  /\ \A i, j \in 1 .. Len(evs) : i < j => evs[i].seq < evs[j].seq
  /\ \A i \in 1 .. Len(evs) : /\ evs[i].seq <= head
                              /\ \E k \in 1 .. Len(index) : Covers(index[k], evs[i], s)

IdsSound(index, idem, R) ==
  /\ \A k, l \in 1 .. Len(index) : index[k].tx = index[l].tx => k = l
  /\ \A k \in 1 .. Len(index) :
       \E q \in R : q.tx = index[k].tx /\ \E o \in idem : o.slot = q.slot

(* As long as a stream has all it was ever given, numbers are positions, and  *)
(* the events of a transaction are those at the positions of its entry.       *)
StreamTiled(evs, index, h, s) ==
  /\ Len(evs) <= h
  /\ Len(evs) = h =>
       /\ \A i \in 1 .. h : evs[i].seq = i
       /\ \A k \in 1 .. Len(index), i \in 1 .. h :
            evs[i].tx = index[k].tx
              => Run(TxAt(evs, index[k].tx), index[k].start[s], index[k].end[s], h)

DbTiled(d) == \A s \in Streams : StreamTiled(d.space.ev[s], d.space.txIndex, d.heads[s], s)

DbStates == [space : Space, heads : Cursor]

DbGood(d, R) ==
  /\ d \in DbStates
  /\ IdsSound(d.space.txIndex, d.space.idem, R)
  /\ \A s \in Streams : StreamSound(d.space.ev[s], d.space.txIndex, d.heads[s], s)
  /\ DbTiled(d)

DbSound(R) == DbGood(db, R)

-----------------------------------------------------------------------------
(* appendTx *)

(* What is appended to a stream is numbered from its head. *)
LEMMA DbBatchProperties ==
  ASSUME NEW d \in DbStates, NEW r \in AppendRequest, NEW s \in Streams
  PROVE  /\ d.heads[s] \in Nat /\ r.n[s] \in Nat
         /\ DbBatch(d, r, s) \in Seq(Event)
         /\ Len(DbBatch(d, r, s)) = r.n[s]
         /\ \A i \in 1 .. r.n[s] :
              DbBatch(d, r, s)[i] = [seq |-> d.heads[s] + i, tx |-> r.tx, n |-> i]
  <1>1. d.heads[s] \in Nat /\ r.n[s] \in Nat /\ r.tx \in TxId
    BY DEF DbStates, AppendRequest, Cursor
  <1> DEFINE h == d.heads[s]
             n == r.n[s]
             f == [i \in 1 .. n |-> [seq |-> h + i, tx |-> r.tx, n |-> i]]
  <1>2. DbBatch(d, r, s) = f
    BY DEF DbBatch
  <1>3. f \in [1 .. n -> Event]
    BY <1>1 DEF Event
  <1>4. f \in Seq(Event) /\ Len(f) = n
    BY <1>1, <1>3, FunctionIsSeq
  <1> QED
    BY <1>1, <1>2, <1>4

(* An append leaves the store well formed. *)
LEMMA DbAppendType ==
  ASSUME NEW d \in DbStates, NEW r \in AppendRequest
  PROVE  DbAppend(d, r) \in DbStates
  <1>1. DbHeadsAfter(d, r) \in Cursor
    BY DbBatchProperties DEF DbHeadsAfter, Cursor
  <1>2. /\ d.space.ev \in [Streams -> Seq(Event)] /\ d.space.txIndex \in Seq(Entry)
        /\ d.space.idem \in SUBSET Outcome
    BY DEF DbStates, Space
  <1>3. /\ r.tx \in TxId /\ r.slot \in Slot /\ r.hash \in Hash
        /\ Len(d.space.txIndex) + 1 \in Nat
    BY <1>2 DEF AppendRequest
  <1>4. [s \in Streams |-> IF r.n[s] > 0 THEN d.heads[s] + 1 ELSE d.heads[s]] \in Cursor
    BY DbBatchProperties DEF Cursor
  <1>5. DbEntry(d, r) \in Entry
    BY <1>1, <1>3, <1>4 DEF DbEntry, Entry
  <1>6. DbOutcome(d, r) \in Outcome
    BY <1>1, <1>3 DEF DbOutcome, Outcome, Receipt
  <1>7. [s \in Streams |-> d.space.ev[s] \o DbBatch(d, r, s)] \in [Streams -> Seq(Event)]
    <2> SUFFICES ASSUME NEW s \in Streams PROVE d.space.ev[s] \o DbBatch(d, r, s) \in Seq(Event)
      OBVIOUS
    <2>1. d.space.ev[s] \in Seq(Event) /\ DbBatch(d, r, s) \in Seq(Event)
      BY <1>2, DbBatchProperties
    <2> QED
      BY <2>1
  <1>8. Append(d.space.txIndex, DbEntry(d, r)) \in Seq(Entry)
    BY <1>2, <1>5
  <1>9. d.space.idem \cup {DbOutcome(d, r)} \in SUBSET Outcome
    BY <1>2, <1>6
  <1> QED
    BY <1>1, <1>7, <1>8, <1>9 DEF DbAppend, DbStates, Space

(* b holds the n events that transaction tx writes to a stream at head h, and *)
(* e is the entry for them.                                                   *)
NumberedFrom(b, h, n, tx) ==
  /\ h \in Nat /\ n \in Nat /\ b \in Seq(Event) /\ Len(b) = n
  /\ \A i \in 1 .. n : b[i] = [seq |-> h + i, tx |-> tx, n |-> i]

EntryFor(e, h, n, tx, s) == e.tx = tx /\ e.end[s] = h + n /\ (n > 0 => e.start[s] = h + 1)

(* The events appended to a stream come after those there are, and the new    *)
(* entry covers them.                                                         *)
LEMMA StreamGrows ==
  ASSUME NEW evs \in Seq(Event), NEW index \in Seq(Entry), NEW h, NEW s,
         StreamSound(evs, index, h, s), NEW tx, NEW n, NEW b, NumberedFrom(b, h, n, tx),
         NEW e \in Entry, EntryFor(e, h, n, tx, s)
  PROVE  StreamSound(evs \o b, Append(index, e), h + n, s)
  <1> DEFINE m == Len(evs)
             k == Len(index)
             more == evs \o b
             longer == Append(index, e)
  <1>b. /\ h \in Nat /\ n \in Nat /\ b \in Seq(Event) /\ Len(b) = n
        /\ \A i \in 1 .. n : b[i] = [seq |-> h + i, tx |-> tx, n |-> i]
        /\ e.tx = tx /\ e.end[s] = h + n /\ (n > 0 => e.start[s] = h + 1)
    BY DEF NumberedFrom, EntryFor
  <1>1. m \in Nat /\ k \in Nat /\ h \in Nat /\ n \in Nat
    BY <1>b
  <1>a. \A q \in 1 .. m + n : more[q] = IF q <= m THEN evs[q] ELSE b[q - m]
    BY <1>b, ConcatProperties
  <1>2. Len(more) = m + n /\ \A i \in 1 .. m : more[i] = evs[i]
    <2>1. Len(more) = m + n
      BY <1>b, ConcatProperties
    <2>2. ASSUME NEW i \in 1 .. m PROVE more[i] = evs[i]
      BY <1>1, <1>a
    <2> QED
      BY <2>1, <2>2
  <1>3. Len(longer) = k + 1 /\ longer[k + 1] = e /\ \A i \in 1 .. k : longer[i] = index[i]
    OBVIOUS
  <1>4. ASSUME NEW i \in 1 .. m PROVE evs[i].seq \in Nat /\ evs[i].seq <= h
    <2>1. evs[i] \in Event
      OBVIOUS
    <2> QED
      BY <2>1 DEF StreamSound, Event
  <1>5. \A i, j \in 1 .. m : i < j => evs[i].seq < evs[j].seq
    BY DEF StreamSound
  <1>6. \A i \in 1 .. m : \E l \in 1 .. k : Covers(index[l], evs[i], s)
    BY DEF StreamSound
  <1> HIDE DEF more, longer, m, k
  <1>7. ASSUME NEW q \in m + 1 .. m + n PROVE more[q].seq = h + (q - m) /\ more[q].tx = tx
    <2>1. q - m \in 1 .. n /\ q \in 1 .. m + n /\ ~(q <= m)
      BY <1>1
    <2>2. more[q] = [seq |-> h + (q - m), tx |-> tx, n |-> q - m]
      BY <1>a, <1>b, <2>1
    <2> QED
      BY <2>2
  <1>8. \A i \in 1 .. Len(more) : i \in 1 .. m \/ i \in m + 1 .. m + n
    BY <1>1, <1>2
  <1>9. ASSUME NEW i \in 1 .. Len(more), NEW j \in 1 .. Len(more), i < j
        PROVE  more[i].seq < more[j].seq
    <2>1. CASE j \in 1 .. m
      <3>1. i \in 1 .. m
        BY <1>1, <1>2, <1>9, <2>1
      <3> QED
        BY <1>2, <1>5, <1>9, <2>1, <3>1
    <2>2. CASE i \in 1 .. m /\ j \in m + 1 .. m + n
      <3>1. more[i].seq \in Nat /\ more[i].seq <= h
        BY <1>2, <1>4, <2>2
      <3>2. more[j].seq = h + (j - m)
        BY <1>7, <2>2
      <3>3. j - m \in Nat /\ j - m > 0
        BY <1>1, <2>2
      <3> QED
        BY <1>1, <3>1, <3>2, <3>3
    <2>3. CASE i \in m + 1 .. m + n /\ j \in m + 1 .. m + n
      <3>1. more[i].seq = h + (i - m) /\ more[j].seq = h + (j - m)
        BY <1>7, <2>3
      <3> QED
        BY <1>1, <1>9, <3>1
    <2>4. j \in 1 .. m \/ (i \in 1 .. m /\ j \in m + 1 .. m + n)
            \/ (i \in m + 1 .. m + n /\ j \in m + 1 .. m + n)
      BY <1>8
    <2> QED
      BY <2>1, <2>2, <2>3, <2>4
  <1>10. ASSUME NEW i \in 1 .. Len(more)
         PROVE  /\ more[i].seq <= h + n
                /\ \E l \in 1 .. Len(longer) : Covers(longer[l], more[i], s)
    <2>1. CASE i \in 1 .. m
      <3>1. PICK l \in 1 .. k : Covers(index[l], evs[i], s)
        BY <1>6, <2>1
      <3>2. l \in 1 .. Len(longer) /\ longer[l] = index[l] /\ more[i] = evs[i]
        BY <1>1, <1>2, <1>3, <2>1
      <3>3. evs[i].seq \in Nat /\ evs[i].seq <= h
        BY <1>4, <2>1
      <3> QED
        BY <1>1, <3>1, <3>2, <3>3
    <2>2. CASE i \in m + 1 .. m + n
      <3>1. more[i].seq = h + (i - m) /\ more[i].tx = tx
        BY <1>7, <2>2
      <3>2. n > 0 /\ h + (i - m) \in h + 1 .. h + n
        BY <1>1, <2>2
      <3>3. Covers(e, more[i], s)
        BY <1>b, <3>1, <3>2 DEF Covers
      <3>4. k + 1 \in 1 .. Len(longer)
        BY <1>1, <1>3
      <3> QED
        BY <1>3, <3>1, <3>2, <3>3, <3>4
    <2> QED
      BY <1>8, <2>1, <2>2
  <1> QED
    BY <1>9, <1>10 DEF StreamSound, more, longer

(* appendTx: the new entry is for what was appended, and for nothing else.    *)
LEMMA TilesGrow ==
  ASSUME NEW evs \in Seq(Event), NEW index \in Seq(Entry), NEW h, NEW s,
         StreamSound(evs, index, h, s), StreamTiled(evs, index, h, s),
         NEW tx, \A k \in 1 .. Len(index) : index[k].tx # tx,
         NEW n, NEW b, NumberedFrom(b, h, n, tx), NEW e \in Entry, EntryFor(e, h, n, tx, s)
  PROVE  StreamTiled(evs \o b, Append(index, e), h + n, s)
  <1> DEFINE m == Len(evs)
             k == Len(index)
             more == evs \o b
             longer == Append(index, e)
  <1>1. /\ h \in Nat /\ n \in Nat /\ b \in Seq(Event) /\ Len(b) = n
        /\ \A i \in 1 .. n : b[i].seq = h + i /\ b[i].tx = tx
        /\ e.tx = tx /\ e.end[s] = h + n /\ (n > 0 => e.start[s] = h + 1)
        /\ m \in Nat /\ k \in Nat
    BY DEF NumberedFrom, EntryFor
  <1>2. Len(more) = m + n /\ \A q \in 1 .. m + n : more[q] = IF q <= m THEN evs[q] ELSE b[q - m]
    BY <1>1, ConcatProperties
  <1>3. Len(longer) = k + 1 /\ longer[k + 1] = e /\ \A i \in 1 .. k : longer[i] = index[i]
    OBVIOUS
  <1>4. /\ m <= h
        /\ m = h => /\ \A i \in 1 .. h : evs[i].seq = i
                    /\ \A l \in 1 .. k, i \in 1 .. h :
                         evs[i].tx = index[l].tx
                           => Run(TxAt(evs, index[l].tx), index[l].start[s], index[l].end[s], h)
    BY DEF StreamTiled
  <1>5. \A l \in 1 .. k : index[l].tx # tx
    OBVIOUS
  <1>6. \A i \in 1 .. m : evs[i].tx # tx
    <2> SUFFICES ASSUME NEW i \in 1 .. m PROVE evs[i].tx # tx
      OBVIOUS
    <2>1. PICK l \in 1 .. k : Covers(index[l], evs[i], s)
      BY DEF StreamSound
    <2> QED
      BY <1>5, <2>1 DEF Covers
  <1>7. \A t : TxAt(evs, t) = {i \in 1 .. m : evs[i].tx = t}
               /\ TxAt(more, t) = {i \in 1 .. Len(more) : more[i].tx = t}
    BY DEF TxAt
  <1> HIDE DEF more, longer, m, k
  <1>8. Len(more) <= h + n
    BY <1>1, <1>2, <1>4
  <1>9. ASSUME Len(more) = h + n
        PROVE  /\ \A i \in 1 .. h + n : more[i].seq = i
               /\ \A l \in 1 .. Len(longer), i \in 1 .. h + n :
                    more[i].tx = longer[l].tx
                      => Run(TxAt(more, longer[l].tx), longer[l].start[s], longer[l].end[s], h + n)
    <2>1. m = h
      BY <1>1, <1>2, <1>9
    <2>2. /\ \A i \in 1 .. h : more[i] = evs[i]
          /\ \A i \in h + 1 .. h + n : more[i].seq = i /\ more[i].tx = tx
      <3>1. ASSUME NEW i \in 1 .. h PROVE more[i] = evs[i]
        <4>1. i \in 1 .. m + n /\ i <= m
          BY <1>1, <2>1
        <4> QED
          BY <1>2, <4>1
      <3>2. ASSUME NEW i \in h + 1 .. h + n PROVE more[i].seq = i /\ more[i].tx = tx
        <4>1. i \in 1 .. m + n /\ ~(i <= m) /\ i - m \in 1 .. n /\ h + (i - m) = i
          BY <1>1, <2>1
        <4>2. more[i] = b[i - m]
          BY <1>2, <4>1
        <4>3. b[i - m].seq = h + (i - m) /\ b[i - m].tx = tx
          BY <1>1, <4>1
        <4> QED
          BY <4>1, <4>2, <4>3
      <3> QED
        BY <3>1, <3>2
    <2>3. \A i \in 1 .. h + n : i \in 1 .. h \/ i \in h + 1 .. h + n
      BY <1>1
    <2>4. ASSUME NEW i \in 1 .. h + n PROVE more[i].seq = i
      BY <1>4, <2>1, <2>2, <2>3
    <2>5. ASSUME NEW l \in 1 .. Len(longer), NEW i \in 1 .. h + n, more[i].tx = longer[l].tx
          PROVE  Run(TxAt(more, longer[l].tx), longer[l].start[s], longer[l].end[s], h + n)
      <3>1. CASE l \in 1 .. k
        <4> DEFINE t == index[l].tx
                   x == index[l].start[s]
                   y == index[l].end[s]
        <4>1. longer[l] = index[l] /\ t # tx
          BY <1>3, <1>5, <3>1
        <4>2. i \in 1 .. h /\ evs[i].tx = t
          BY <2>2, <2>3, <2>5, <4>1
        <4>3. Run(TxAt(evs, t), x, y, h)
          BY <1>4, <2>1, <3>1, <4>2
        <4>4. \A j \in 1 .. h : j \in TxAt(more, t) <=> j \in TxAt(evs, t)
          BY <1>1, <1>7, <1>9, <2>1, <2>2
        <4>5. \A j \in h + 1 .. h + n : j \notin TxAt(more, t)
          BY <1>7, <2>2, <4>1
        <4> HIDE DEF t, x, y
        <4>6. Run(TxAt(more, t), x, y, h + n)
          <5>1. x \in Nat /\ y \in Nat /\ 1 <= x /\ x <= y /\ y <= h
            BY <4>3 DEF Run
          <5>2. \A j \in 1 .. h : j \in TxAt(evs, t) <=> j \in x .. y
            BY <4>3 DEF Run
          <5>3. ASSUME NEW j \in 1 .. h + n PROVE j \in TxAt(more, t) <=> j \in x .. y
            <6>1. CASE j \in 1 .. h
              BY <4>4, <5>2, <6>1
            <6>2. CASE j \in h + 1 .. h + n
              BY <1>1, <4>5, <5>1, <6>2
            <6> QED
              BY <2>3, <6>1, <6>2
          <5> QED
            BY <1>1, <5>1, <5>3 DEF Run
        <4> QED
          BY <4>1, <4>6 DEF t, x, y
      <3>2. CASE l = k + 1
        <4>1. longer[l] = e /\ more[i].tx = tx
          BY <1>1, <1>3, <2>5, <3>2
        <4>2. i \in h + 1 .. h + n
          BY <1>6, <2>1, <2>2, <2>3, <4>1
        <4>3. n > 0
          BY <1>1, <4>2
        <4>4. e.start[s] = h + 1 /\ e.end[s] = h + n /\ e.tx = tx
          BY <1>1, <4>3
        <4>5. ASSUME NEW j \in 1 .. h + n PROVE j \in TxAt(more, tx) <=> j \in h + 1 .. h + n
          <5>1. j \in TxAt(more, tx) <=> more[j].tx = tx
            BY <1>7, <1>9
          <5>2. CASE j \in 1 .. h
            BY <1>1, <1>6, <2>1, <2>2, <5>1, <5>2
          <5>3. CASE j \in h + 1 .. h + n
            BY <2>2, <5>1, <5>3
          <5> QED
            BY <2>3, <5>2, <5>3
        <4>6. Run(TxAt(more, tx), h + 1, h + n, h + n)
          BY <1>1, <4>3, <4>5 DEF Run
        <4> QED
          BY <4>1, <4>4, <4>6
      <3> QED
        BY <1>1, <1>3, <3>1, <3>2
    <2> QED
      BY <2>4, <2>5
  <1> QED
    BY <1>8, <1>9 DEF StreamTiled, more, longer

(* A new id joins the index, with its slot. *)
LEMMA IdsGrow ==
  ASSUME NEW R, NEW index \in Seq(Entry), NEW idem, IdsSound(index, idem, R),
         NEW r \in R, \A i \in 1 .. Len(index) : index[i].tx # r.tx,
         NEW e \in Entry, e.tx = r.tx, NEW o, o.slot = r.slot
  PROVE  IdsSound(Append(index, e), idem \cup {o}, R)
  <1> DEFINE k == Len(index)
             longer == Append(index, e)
  <1>1. /\ k \in Nat /\ Len(longer) = k + 1 /\ longer[k + 1] = e
        /\ \A i \in 1 .. k : longer[i] = index[i]
    OBVIOUS
  <1>2. \A i \in 1 .. k : index[i].tx # r.tx
    OBVIOUS
  <1>3. \A i, j \in 1 .. k : index[i].tx = index[j].tx => i = j
    BY DEF IdsSound
  <1>4. \A i \in 1 .. k : \E q \in R : q.tx = index[i].tx /\ \E p \in idem : p.slot = q.slot
    BY DEF IdsSound
  <1> HIDE DEF longer, k
  <1>5. \A i \in 1 .. Len(longer) : i \in 1 .. k \/ i = k + 1
    BY <1>1
  <1>6. \A i, j \in 1 .. Len(longer) : longer[i].tx = longer[j].tx => i = j
    BY <1>1, <1>2, <1>3, <1>5
  <1>7. ASSUME NEW i \in 1 .. Len(longer)
        PROVE  \E q \in R : q.tx = longer[i].tx /\ \E p \in idem \cup {o} : p.slot = q.slot
    <2>1. CASE i \in 1 .. k
      <3>1. PICK q \in R : q.tx = index[i].tx /\ \E p \in idem : p.slot = q.slot
        BY <1>4, <2>1
      <3> QED
        BY <1>1, <2>1, <3>1
    <2>2. CASE i = k + 1
      BY <1>1, <2>2
    <2> QED
      BY <1>5, <2>1, <2>2
  <1> QED
    BY <1>6, <1>7 DEF IdsSound, longer

(* appendTx of a request. *)
LEMMA DbWriteKeeps ==
  ASSUME NEW R, R \subseteq AppendRequest, OneSlot(R), DbSound(R), NEW r \in R, DbWrite(r)
  PROVE  DbSound(R)'
  <1> DEFINE e == DbEntry(db, r)
             o == DbOutcome(db, r)
  <1>1. db' = DbAppend(db, r) /\ ~IsKnown(db.space, r) /\ r \in AppendRequest /\ db \in DbStates
    BY DEF DbWrite, DbCommits, DbSound, DbGood
  <1>2. db' \in DbStates
    BY <1>1, DbAppendType
  <1>3. /\ db'.space.txIndex = Append(db.space.txIndex, e)
        /\ db'.space.idem = db.space.idem \cup {o}
        /\ db'.heads = DbHeadsAfter(db, r)
        /\ db'.space.ev = [s \in Streams |-> db.space.ev[s] \o DbBatch(db, r, s)]
    BY <1>1 DEF DbAppend
  <1>4. e.tx = r.tx /\ o.slot = r.slot /\ e.end = DbHeadsAfter(db, r)
    BY DEF DbEntry, DbOutcome
  <1>5. /\ db.space.txIndex \in Seq(Entry) /\ db.space.ev \in [Streams -> Seq(Event)]
        /\ db'.space.txIndex \in Seq(Entry)
    BY <1>1, <1>2 DEF DbStates, Space
  <1>6. e \in Entry
    <2>1. Len(Append(db.space.txIndex, e)) = Len(db.space.txIndex) + 1
          /\ Append(db.space.txIndex, e)[Len(db.space.txIndex) + 1] = e
      BY <1>5
    <2>2. Len(db.space.txIndex) + 1 \in 1 .. Len(db'.space.txIndex)
      BY <1>3, <1>5, <2>1
    <2> QED
      BY <1>3, <1>5, <2>1, <2>2
  <1>7. \A p \in db.space.idem : p.slot # r.slot
    BY <1>1 DEF IsKnown, OutcomesAt
  <1>a. \A i \in 1 .. Len(db.space.txIndex) : db.space.txIndex[i].tx # r.tx
    <2> SUFFICES ASSUME NEW i \in 1 .. Len(db.space.txIndex) PROVE db.space.txIndex[i].tx # r.tx
      OBVIOUS
    <2>1. PICK q \in R : q.tx = db.space.txIndex[i].tx /\ \E p \in db.space.idem : p.slot = q.slot
      BY DEF DbSound, DbGood, IdsSound
    <2> QED
      BY <1>7, <2>1 DEF OneSlot
  <1>8. IdsSound(db'.space.txIndex, db'.space.idem, R)
    <2>1. IdsSound(db.space.txIndex, db.space.idem, R)
      BY DEF DbSound, DbGood
    <2> HIDE DEF e, o
    <2>2. IdsSound(Append(db.space.txIndex, e), db.space.idem \cup {o}, R)
      BY <1>4, <1>5, <1>6, <1>a, <2>1, IdsGrow
    <2> QED
      BY <1>3, <2>2
  <1>9. ASSUME NEW s \in Streams
        PROVE  /\ StreamSound(db'.space.ev[s], db'.space.txIndex, db'.heads[s], s)
               /\ StreamTiled(db'.space.ev[s], db'.space.txIndex, db'.heads[s], s)
    <2> DEFINE h == db.heads[s]
               n == r.n[s]
               b == DbBatch(db, r, s)
    <2>1. /\ h \in Nat /\ n \in Nat /\ b \in Seq(Event) /\ Len(b) = n
          /\ \A i \in 1 .. n : b[i] = [seq |-> h + i, tx |-> r.tx, n |-> i]
      BY <1>1, DbBatchProperties
    <2>2. e.end[s] = h + n /\ db'.heads[s] = h + n
      BY <1>3, <1>4 DEF DbHeadsAfter
    <2>3. n > 0 => e.start[s] = h + 1
      BY DEF DbEntry
    <2>a. NumberedFrom(b, h, n, r.tx)
      BY <2>1 DEF NumberedFrom
    <2>b. EntryFor(e, h, n, r.tx, s)
      BY <1>4, <2>2, <2>3 DEF EntryFor
    <2>4. /\ StreamSound(db.space.ev[s], db.space.txIndex, h, s)
          /\ StreamTiled(db.space.ev[s], db.space.txIndex, h, s)
          /\ db.space.ev[s] \in Seq(Event)
      BY <1>5 DEF DbSound, DbGood, DbTiled
    <2>5. db'.space.ev[s] = db.space.ev[s] \o b
      BY <1>3
    <2> HIDE DEF h, n, b, e
    <2>6. StreamSound(db.space.ev[s] \o b, Append(db.space.txIndex, e), h + n, s)
      BY <1>5, <1>6, <2>4, <2>a, <2>b, StreamGrows
    <2>7. StreamTiled(db.space.ev[s] \o b, Append(db.space.txIndex, e), h + n, s)
      BY <1>5, <1>6, <1>a, <2>4, <2>a, <2>b, TilesGrow
    <2> QED
      BY <1>3, <2>2, <2>5, <2>6, <2>7
  <1> QED
    BY <1>2, <1>8, <1>9 DEF DbSound, DbGood, DbTiled

-----------------------------------------------------------------------------
(* compactUpToCursor, deleteDatabase *)

(* What a compaction keeps of a stream is covered by what it keeps of the     *)
(* index.                                                                     *)
LEMMA StreamKept ==
  ASSUME NEW evs \in Seq(Event), NEW index \in Seq(Entry), NEW h, NEW s, NEW pruned,
         StreamSound(evs, index, h, s)
  PROVE  StreamSound(Kept(evs, pruned), Kept(index, pruned), h, s)
  <1> DEFINE f == Kept(evs, pruned)
             g == Kept(index, pruned)
  <1>1. PICK p : FilterPlaces(p, f, evs, KeptAt(evs, pruned), Len(evs))
    BY KeptProperties
  <1>2. PICK q : FilterPlaces(q, g, index, KeptAt(index, pruned), Len(index))
    BY KeptProperties
  <1> HIDE DEF f, g
  <1>3. ASSUME NEW i \in 1 .. Len(f), NEW j \in 1 .. Len(f), i < j PROVE f[i].seq < f[j].seq
    <2>1. /\ p[i] \in 1 .. Len(evs) /\ p[j] \in 1 .. Len(evs) /\ p[i] < p[j]
          /\ f[i] = evs[p[i]] /\ f[j] = evs[p[j]]
      BY <1>1, <1>3 DEF FilterPlaces
    <2> QED
      BY <2>1 DEF StreamSound
  <1>4. ASSUME NEW i \in 1 .. Len(f)
        PROVE  f[i].seq <= h /\ \E k \in 1 .. Len(g) : Covers(g[k], f[i], s)
    <2>1. p[i] \in 1 .. Len(evs) /\ f[i] = evs[p[i]] /\ p[i] \in KeptAt(evs, pruned)
      BY <1>1 DEF FilterPlaces
    <2>2. f[i].tx \notin pruned
      BY <2>1 DEF KeptAt
    <2>3. PICK k \in 1 .. Len(index) : Covers(index[k], f[i], s)
      BY <2>1 DEF StreamSound
    <2>4. k \in KeptAt(index, pruned)
      BY <2>2, <2>3 DEF KeptAt, Covers
    <2>5. PICK l \in 1 .. Len(g) : q[l] = k
      BY <1>2, <2>4 DEF FilterPlaces
    <2>6. g[l] = index[k]
      BY <1>2, <2>5 DEF FilterPlaces
    <2>7. f[i].seq <= h
      BY <2>1 DEF StreamSound
    <2> QED
      BY <2>3, <2>5, <2>6, <2>7
  <1> QED
    BY <1>3, <1>4 DEF StreamSound, f, g

(* A stream that lost nothing in a compaction stayed as it was. *)
LEMMA NothingPruned ==
  ASSUME NEW evs \in Seq(Event), NEW pruned, Len(Kept(evs, pruned)) = Len(evs)
  PROVE  \A i \in 1 .. Len(evs) : Kept(evs, pruned)[i] = evs[i]
  <1> DEFINE f == Kept(evs, pruned)
             n == Len(evs)
             at == KeptAt(evs, pruned)
  <1>1. Len(f) = n /\ n \in Nat
    OBVIOUS
  <1>2. PICK p : FilterPlaces(p, f, evs, at, n)
    BY KeptProperties
  <1> HIDE DEF f, n, at
  <1>3. \A i \in 1 .. n : i \in at
    <2>1. (\E i \in 1 .. n : i \notin at) => Len(f) < n
      BY <1>1, <1>2, FilterShorter
    <2> QED
      BY <1>1, <2>1
  <1>4. ASSUME NEW i \in 1 .. n PROVE f[i] = evs[i]
    <2> DEFINE a == 1
    <2>1. Run(at, a, n, n)
      BY <1>1, <1>3 DEF Run
    <2>2. Len(f) \in Nat
      BY <1>1
    <2> HIDE DEF a
    <2>3. \A k \in 1 .. Len(f) : p[k] = a + k - 1 /\ f[k] = evs[a + k - 1]
      BY <1>2, <2>1, <2>2, FilterRun
    <2> QED
      BY <1>1, <2>3 DEF a
  <1> QED
    BY <1>4 DEF f, n

(* compactUpToCursor: a stream either lost something, or is what it was.      *)
LEMMA TilesKept ==
  ASSUME NEW evs \in Seq(Event), NEW index \in Seq(Entry), NEW h \in Nat, NEW s, NEW pruned,
         StreamTiled(evs, index, h, s)
  PROVE  StreamTiled(Kept(evs, pruned), Kept(index, pruned), h, s)
  <1> DEFINE f == Kept(evs, pruned)
             g == Kept(index, pruned)
             m == Len(evs)
             at == KeptAt(evs, pruned)
  <1>1. PICK p : FilterPlaces(p, f, evs, at, m)
    BY KeptProperties
  <1>2. PICK q : FilterPlaces(q, g, index, KeptAt(index, pruned), Len(index))
    BY KeptProperties
  <1>3. f \in Seq(Event) /\ m \in Nat
    BY KeptProperties
  <1>4. Len(f) \in Nat
    BY <1>3
  <1>5. /\ m <= h
        /\ m = h => /\ \A i \in 1 .. h : evs[i].seq = i
                    /\ \A l \in 1 .. Len(index), i \in 1 .. h :
                         evs[i].tx = index[l].tx
                           => Run(TxAt(evs, index[l].tx), index[l].start[s], index[l].end[s], h)
    BY DEF StreamTiled
  <1>6. Len(f) = m => \A i \in 1 .. m : f[i] = evs[i]
    BY NothingPruned
  <1>7. \A t : TxAt(evs, t) = {i \in 1 .. m : evs[i].tx = t}
               /\ TxAt(f, t) = {i \in 1 .. Len(f) : f[i].tx = t}
    BY DEF TxAt
  <1> HIDE DEF f, g, m, at
  <1>8. Len(f) <= m
    BY <1>1, <1>3, <1>4, FilterShorter
  <1>9. ASSUME Len(f) = h
        PROVE  /\ \A i \in 1 .. h : f[i].seq = i
               /\ \A l \in 1 .. Len(g), i \in 1 .. h :
                    f[i].tx = g[l].tx
                      => Run(TxAt(f, g[l].tx), g[l].start[s], g[l].end[s], h)
    <2>1. m = h /\ Len(f) = m
      BY <1>3, <1>5, <1>8, <1>9
    <2>2. \A i \in 1 .. h : f[i] = evs[i]
      BY <1>6, <2>1
    <2>3. ASSUME NEW l \in 1 .. Len(g), NEW i \in 1 .. h, f[i].tx = g[l].tx
          PROVE  Run(TxAt(f, g[l].tx), g[l].start[s], g[l].end[s], h)
      <3>1. q[l] \in 1 .. Len(index) /\ g[l] = index[q[l]]
        BY <1>2 DEF FilterPlaces
      <3>2. evs[i].tx = index[q[l]].tx
        BY <2>2, <2>3, <3>1
      <3>3. Run(TxAt(evs, g[l].tx), g[l].start[s], g[l].end[s], h)
        BY <1>5, <2>1, <3>1, <3>2
      <3>4. TxAt(f, g[l].tx) = TxAt(evs, g[l].tx)
        <4> DEFINE t == g[l].tx
        <4>1. /\ TxAt(evs, t) = {j \in 1 .. h : evs[j].tx = t}
              /\ TxAt(f, t) = {j \in 1 .. h : f[j].tx = t}
          BY <1>7, <1>9, <2>1
        <4> HIDE DEF t
        <4>2. {j \in 1 .. h : evs[j].tx = t} = {j \in 1 .. h : f[j].tx = t}
          BY <2>2
        <4>3. TxAt(f, t) = TxAt(evs, t)
          BY <4>1, <4>2
        <4> QED
          BY <4>3 DEF t
      <3> QED
        BY <3>3, <3>4
    <2> QED
      BY <1>5, <2>1, <2>2, <2>3
  <1>10. Len(f) <= h
    BY <1>3, <1>4, <1>5, <1>8
  <1> QED
    BY <1>9, <1>10 DEF StreamTiled, f, g

(* Ids and their slots stay. *)
LEMMA IdsKept ==
  ASSUME NEW R, NEW index \in Seq(Entry), NEW idem, NEW pruned, IdsSound(index, idem, R)
  PROVE  IdsSound(Kept(index, pruned), idem, R)
  <1> DEFINE g == Kept(index, pruned)
  <1>1. PICK q : FilterPlaces(q, g, index, KeptAt(index, pruned), Len(index))
    BY KeptProperties
  <1> HIDE DEF g
  <1>2. \A k \in 1 .. Len(g) : q[k] \in 1 .. Len(index) /\ g[k] = index[q[k]]
    BY <1>1 DEF FilterPlaces
  <1>3. ASSUME NEW k \in 1 .. Len(g), NEW l \in 1 .. Len(g), g[k].tx = g[l].tx PROVE k = l
    <2>1. q[k] = q[l] /\ q[k] \in 1 .. Len(index)
      BY <1>2, <1>3 DEF IdsSound
    <2>2. ~(k < l) /\ ~(l < k)
      BY <1>1, <2>1 DEF FilterPlaces
    <2> QED
      BY <2>2
  <1>4. ASSUME NEW k \in 1 .. Len(g)
        PROVE  \E p \in R : p.tx = g[k].tx /\ \E o \in idem : o.slot = p.slot
    BY <1>2 DEF IdsSound
  <1> QED
    BY <1>3, <1>4 DEF IdsSound, g

(* compactUpToCursor of the store. *)
LEMMA DbCompactKeeps ==
  ASSUME NEW R, DbSound(R), NEW c \in Nat, DbCompact(c)
  PROVE  DbSound(R)'
  <1> DEFINE pruned == PrunedTxIds(db.space, c)
             less   == Compact(db.space, c)
  <1>1. db \in DbStates /\ db' = [db EXCEPT !.space = less]
    BY DEF DbSound, DbGood, DbCompact
  <1>2. db.space \in Space /\ db.heads \in Cursor
    BY <1>1 DEF DbStates
  <1>3. /\ less \in Space /\ less.idem = db.space.idem
        /\ less.txIndex = Kept(db.space.txIndex, pruned)
        /\ \A s \in Streams : less.ev[s] = Kept(db.space.ev[s], pruned)
    BY <1>2, CompactType
  <1> HIDE DEF less, pruned
  <1>4. db' \in DbStates /\ db'.space = less /\ db'.heads = db.heads
    BY <1>1, <1>2, <1>3 DEF DbStates
  <1>5. /\ db.space.txIndex \in Seq(Entry)
        /\ \A s \in Streams : db.space.ev[s] \in Seq(Event)
    BY <1>2 DEF Space
  <1>6. IdsSound(db'.space.txIndex, db'.space.idem, R)
    BY <1>3, <1>4, <1>5, IdsKept DEF DbSound, DbGood
  <1>7. ASSUME NEW s \in Streams
        PROVE  StreamSound(db'.space.ev[s], db'.space.txIndex, db'.heads[s], s)
    BY <1>3, <1>4, <1>5, StreamKept DEF DbSound, DbGood
  <1>8. ASSUME NEW s \in Streams
        PROVE  StreamTiled(db'.space.ev[s], db'.space.txIndex, db'.heads[s], s)
    <2>1. StreamTiled(db.space.ev[s], db.space.txIndex, db.heads[s], s) /\ db.heads[s] \in Nat
      BY <1>2 DEF DbSound, DbGood, DbTiled, Cursor
    <2> QED
      BY <1>3, <1>4, <1>5, <2>1, TilesKept
  <1> QED
    BY <1>4, <1>6, <1>7, <1>8 DEF DbSound, DbGood, DbTiled

(* The empty store. *)
LEMMA EmptyDbSound == ASSUME NEW R, NEW d, d = EmptyDb PROVE DbGood(d, R)
  <1>1. Origin \in Cursor /\ EmptySpace \in Space
    BY EmptySpaceType DEF Origin, Cursor
  <1>2. d.space = EmptySpace /\ d.heads = Origin /\ d \in DbStates
    BY <1>1 DEF EmptyDb, DbStates
  <1>3. Len(EmptySpace.txIndex) = 0 /\ \A s \in Streams : Len(EmptySpace.ev[s]) = 0
    BY DEF EmptySpace
  <1>4. 1 .. 0 = {}
    OBVIOUS
  <1>5. \A s \in Streams : Origin[s] = 0
    BY DEF Origin
  <1> QED
    BY <1>2, <1>3, <1>4, <1>5 DEF DbGood, IdsSound, StreamSound, DbTiled, StreamTiled

-----------------------------------------------------------------------------
(* The reads *)

(* An id that is in the index once is looked up there; undefined is no entry. *)
LEMMA LooksUp ==
  ASSUME NEW index \in Seq(Entry), \A k, l \in 1 .. Len(index) : index[k].tx = index[l].tx => k = l,
         NEW k \in 1 .. Len(index)
  PROVE  LookUp(index, index[k].tx) = index[k] /\ index[k] # None
  <1>1. PICK j \in 1 .. Len(index) : /\ index[j].tx = index[k].tx
                                     /\ LookUp(index, index[k].tx) = index[j]
    BY LookUpProperties
  <1>2. index[k] \in Entry
    OBVIOUS
  <1> QED
    BY <1>1, <1>2, NoneIsNoEntry

(* Through the index: readTx answers with the events of the transaction.      *)
LEMMA TxReadsOwn ==
  ASSUME NEW R, NEW d, DbGood(d, R), NEW k \in 1 .. Len(d.space.txIndex), NEW s \in Streams,
         d.heads[s] = Len(d.space.ev[s]), OwnEvents(d, d.space.txIndex[k].tx, s) # <<>>
  PROVE  DbReadTx(d, d.space.txIndex[k].tx)[s] = OwnEvents(d, d.space.txIndex[k].tx, s)
  <1> DEFINE evs == d.space.ev[s]
             e   == d.space.txIndex[k]
             own == EventsOfTx(evs, e.tx)
  <1>1. /\ evs \in Seq(Event) /\ d.space.txIndex \in Seq(Entry)
        /\ \A i, l \in 1 .. Len(d.space.txIndex) :
             d.space.txIndex[i].tx = d.space.txIndex[l].tx => i = l
        /\ StreamTiled(evs, d.space.txIndex, d.heads[s], s)
    BY DEF DbGood, DbStates, Space, IdsSound, DbTiled
  <1>2. own \in Seq(Event) /\ own # <<>>
    BY <1>1, OwnPlaces DEF OwnEvents
  <1>3. PICK p : FilterPlaces(p, own, evs, TxAt(evs, e.tx), Len(evs))
    BY <1>1, OwnPlaces
  <1>4. LookUp(d.space.txIndex, e.tx) = e /\ e # None
    BY <1>1, LooksUp
  <1>5. DbReadTx(d, e.tx)[s] = SliceBySeqRange(evs, e.start[s], e.end[s])
    BY <1>4 DEF DbReadTx, ReadTx
  <1> HIDE DEF own
  <1>6. 1 \in 1 .. Len(own)
    BY <1>2
  <1>7. p[1] \in 1 .. Len(evs) /\ p[1] \in TxAt(evs, e.tx)
    BY <1>3, <1>6 DEF FilterPlaces
  <1>8. evs[p[1]].tx = e.tx
    BY <1>7 DEF TxAt
  <1>9. Run(TxAt(evs, e.tx), e.start[s], e.end[s], Len(evs))
    BY <1>1, <1>7, <1>8 DEF StreamTiled
  <1>10. own = SliceBySeqRange(evs, e.start[s], e.end[s])
    BY <1>1, <1>9, OwnSlice DEF own
  <1> QED
    BY <1>5, <1>10 DEF own, OwnEvents

(* The events after from up to end. *)
IsSlice(got, evs, from, end) ==
  /\ got \in Seq(Event) /\ Len(got) = end - from
  /\ \A i \in 1 .. end - from : got[i] = evs[from + i]

(* That is what a slice has, if from and end are positions of the stream. *)
LEMMA SliceFrom ==
  ASSUME NEW evs \in Seq(Event), NEW from, NEW end,
         from \in 0 .. Len(evs), end \in 0 .. Len(evs), from <= end
  PROVE  IsSlice(SliceBySeqRange(evs, from + 1, end), evs, from, end)
  BY SliceProperties DEF IsSlice

(* What was read ends with the last event of its transaction.                 *)
EndsATx(evs, read) ==
  \E q \in 1 .. Len(evs) : Latest(read) = evs[q] /\ \A i \in q + 1 .. Len(evs) : evs[i].tx # evs[q].tx

(* Through a range: readRange stops where a transaction ends.                 *)
LEMMA RangeEnds ==
  ASSUME NEW R, NEW d, DbGood(d, R), NEW s \in Streams, d.heads[s] = Len(d.space.ev[s]),
         NEW from \in 0 .. d.heads[s], NEW limit \in Nat, limit # 0,
         DbReadRange(d, s, from, limit) # <<>>
  PROVE  EndsATx(d.space.ev[s], DbReadRange(d, s, from, limit))
  <1> DEFINE evs == d.space.ev[s]
             index == d.space.txIndex
             h == Len(evs)
             read == DbReadRange(d, s, from, limit)
             bounded == SliceBySeqRange(evs, from + 1, h)
             last == bounded[limit]
             e == LookUp(index, last.tx)
  <1>a. /\ evs \in Seq(Event) /\ index \in Seq(Entry)
        /\ \A k, l \in 1 .. Len(index) : index[k].tx = index[l].tx => k = l
        /\ StreamSound(evs, index, h, s) /\ StreamTiled(evs, index, h, s)
    BY DEF DbGood, DbStates, Space, IdsSound, DbTiled
  <1>b. h \in Nat /\ from \in 0 .. h /\ h = Len(evs) /\ read # <<>>
    BY <1>a
  <1>c. read = IF Len(bounded) <= limit THEN bounded
               ELSE IF limit = 0 THEN <<>>
               ELSE IF e = None \/ last.seq >= e.end[s] THEN SubSeq(bounded, 1, limit)
               ELSE SliceBySeqRange(evs, from + 1, Least(h, e.end[s]))
    BY DEF DbReadRange, ReadRange
  <1> SUFFICES \E q \in 1 .. h : Latest(read) = evs[q] /\ \A i \in q + 1 .. h : evs[i].tx # evs[q].tx
    BY DEF EndsATx
  <1> HIDE DEF evs, index, h, read
  <1>1. h \in Nat /\ from \in 0 .. Len(evs) /\ h \in 0 .. Len(evs)
    BY <1>b
  <1>2. /\ bounded \in Seq(Event) /\ Len(bounded) = h - from
        /\ \A i \in 1 .. h - from : bounded[i] = evs[from + i]
    <2>1. from \in 0 .. Len(evs) /\ h \in 0 .. Len(evs) /\ from <= h
      BY <1>1, <1>b
    <2>2. IsSlice(bounded, evs, from, h)
      BY <1>a, <2>1, SliceFrom
    <2> HIDE DEF bounded
    <2> QED
      BY <2>2 DEF IsSlice
  <1>3. /\ \A i \in 1 .. h : evs[i].seq = i
        /\ \A k \in 1 .. Len(index), i \in 1 .. h :
             evs[i].tx = index[k].tx
               => Run(TxAt(evs, index[k].tx), index[k].start[s], index[k].end[s], h)
    BY <1>a, <1>b DEF StreamTiled
  <1>4. CASE Len(bounded) <= limit
    <2>1. read = bounded
      BY <1>4, <1>c
    <2> HIDE DEF bounded
    <2>2. Len(bounded) # 0
      BY <1>2, <1>b, <2>1
    <2>3. h - from \in 1 .. h - from /\ from + (h - from) = h /\ h \in 1 .. h
      BY <1>1, <1>2, <2>2
    <2>4. bounded[h - from] = evs[h]
      BY <1>2, <2>3
    <2>5. Latest(read) = evs[h]
      BY <1>2, <2>1, <2>4 DEF Latest
    <2>6. \A i \in h + 1 .. h : evs[i].tx # evs[h].tx
      BY <1>1
    <2> QED
      BY <2>3, <2>5, <2>6
  <1>5. CASE ~(Len(bounded) <= limit)
    <2> DEFINE q == from + limit
    <2>1. limit \in 1 .. h - from /\ q \in 1 .. h /\ q < h
      BY <1>1, <1>2, <1>5
    <2>2. last = evs[q]
      BY <1>2, <2>1
    <2>3. PICK k \in 1 .. Len(index) : Covers(index[k], evs[q], s)
      BY <1>a, <1>b, <2>1 DEF StreamSound
    <2>4. index[k].tx = last.tx
      BY <2>2, <2>3 DEF Covers
    <2>a. LookUp(index, index[k].tx) = index[k] /\ index[k] # None
      BY <1>a, LooksUp
    <2>5. e = index[k] /\ e # None
      BY <2>4, <2>a
    <2>6. Run(TxAt(evs, e.tx), e.start[s], e.end[s], h) /\ last.seq = q /\ e.tx = last.tx
      BY <1>3, <2>1, <2>2, <2>4, <2>5
    <2>7. /\ e.start[s] \in Nat /\ e.end[s] \in Nat /\ e.end[s] \in 1 .. h
          /\ \A i \in 1 .. h : evs[i].tx = e.tx <=> i \in e.start[s] .. e.end[s]
      <3>1. \A i \in 1 .. h : i \in TxAt(evs, e.tx) <=> evs[i].tx = e.tx
        BY <1>b DEF TxAt
      <3> HIDE DEF e
      <3> QED
        BY <2>6, <3>1 DEF Run
    <2>8. read = IF last.seq >= e.end[s] THEN SubSeq(bounded, 1, limit)
                 ELSE SliceBySeqRange(evs, from + 1, Least(h, e.end[s]))
      BY <1>5, <1>c, <2>5
    <2> HIDE DEF e, last, bounded
    <2>9. CASE q >= e.end[s]
      <3>1. read = SubSeq(bounded, 1, limit)
        BY <2>6, <2>8, <2>9
      <3>2. limit \in 0 .. Len(bounded) /\ limit \in 1 .. limit
        BY <1>2, <2>1
      <3>3. Len(read) = limit /\ read[limit] = bounded[limit]
        BY <1>2, <3>1, <3>2, PrefixProperties
      <3>4. Latest(read) = evs[q]
        BY <2>2, <3>3 DEF Latest, last
      <3>5. \A i \in q + 1 .. h : evs[i].tx # evs[q].tx
        BY <1>1, <2>1, <2>2, <2>6, <2>7, <2>9
      <3> QED
        BY <2>1, <3>4, <3>5
    <2>10. CASE ~(q >= e.end[s])
      <3> DEFINE z == e.end[s]
      <3>1. Least(h, z) = z
        BY <1>1, <2>7 DEF Least
      <3>2. read = SliceBySeqRange(evs, from + 1, z)
        BY <2>6, <2>8, <2>10, <3>1
      <3>3. z \in 0 .. Len(evs) /\ z \in 1 .. h /\ from <= z /\ z - from \in 1 .. z - from
            /\ from + (z - from) = z
        BY <1>1, <2>1, <2>7, <2>10
      <3> HIDE DEF z
      <3>4. Len(read) = z - from /\ read[z - from] = evs[from + (z - from)]
        <4>1. from \in 0 .. Len(evs) /\ z \in 0 .. Len(evs) /\ from <= z
          BY <1>1, <1>b, <3>3
        <4>2. IsSlice(read, evs, from, z)
          BY <1>a, <3>2, <4>1, SliceFrom
        <4> QED
          BY <3>3, <4>2 DEF IsSlice
      <3>5. Latest(read) = evs[z]
        BY <3>3, <3>4 DEF Latest
      <3>6. \A i \in z + 1 .. h : evs[i].tx # evs[z].tx
        <4>1. q \in e.start[s] .. e.end[s]
          BY <2>1, <2>2, <2>6, <2>7
        <4>2. z \in e.start[s] .. e.end[s]
          BY <2>1, <2>7, <4>1 DEF z
        <4>3. evs[z].tx = e.tx
          BY <2>7, <3>3, <4>2
        <4>4. ASSUME NEW i \in z + 1 .. h PROVE i \in 1 .. h /\ i \notin e.start[s] .. e.end[s]
          BY <1>b, <2>7, <3>3 DEF z
        <4> QED
          BY <2>7, <4>3, <4>4
      <3> QED
        BY <3>3, <3>5, <3>6
    <2> QED
      BY <2>9, <2>10
  <1> QED
    BY <1>4, <1>5

(* As a principal: its head counts the ids that are not hidden.               *)
LEMMA HeadCounts ==
  ASSUME NEW R, NEW d, DbGood(d, R), NEW hid
  PROVE  DbPrincipalHead(d, hid)
           = Cardinality({d.space.txIndex[k].tx : k \in DOMAIN d.space.txIndex} \ hid)
  <1> DEFINE index == d.space.txIndex
             n == Len(index)
             V == VisibleTxs(d.space, hid)
             m == Len(V)
             T == {index[k].tx : k \in DOMAIN index} \ hid
  <1>1. /\ d.space \in Space /\ index \in Seq(Entry) /\ n \in Nat
        /\ \A k, l \in 1 .. n : index[k].tx = index[l].tx => k = l
    BY DEF DbGood, DbStates, Space, IdsSound
  <1>2. PICK f : /\ f = FilterBody(f, Bundles(d.space), AllowedAt(d.space, hid), Nat)
                 /\ V = f[n]
    BY VisibleIsFilter, Zenon
  <1>3. PICK p : FilterPlaces(p, V, Bundles(d.space), AllowedAt(d.space, hid), n)
    BY <1>1, <1>2, FilterPositions
  <1>4. m \in Nat /\ CountVisibleTxs(d.space, hid) = m
    BY <1>1, VisibleType DEF CountVisibleTxs
  <1> HIDE DEF V
  <1>5. ASSUME NEW k \in 1 .. m
        PROVE  /\ p[k] \in 1 .. n /\ V[k].tx = index[p[k]].tx /\ V[k].tx \notin hid
    <2>1. p[k] \in 1 .. n /\ p[k] \in AllowedAt(d.space, hid) /\ V[k] = Bundles(d.space)[p[k]]
      BY <1>3 DEF FilterPlaces
    <2>2. V[k] = BundleOf(d.space, index[p[k]])
      BY <2>1 DEF Bundles
    <2>3. V[k].tx = index[p[k]].tx
      BY <2>2 DEF BundleOf
    <2> QED
      BY <2>1, <2>3 DEF AllowedAt
  <1>6. ASSUME NEW tx
        PROVE  tx \in T <=> tx \notin hid /\ \E i \in 1 .. n : index[i].tx = tx
    BY <1>1
  <1> DEFINE g == [k \in 1 .. m |-> V[k].tx]
  <1> HIDE DEF T, m, n, index
  <1>7. \A k \in 1 .. m : g[k] \in T
    BY <1>5, <1>6
  <1>8. ASSUME NEW k \in 1 .. m, NEW l \in 1 .. m, g[k] = g[l] PROVE k = l
    <2>1. p[k] = p[l] /\ p[k] \in 1 .. n
      BY <1>1, <1>5, <1>8
    <2>2. ~(k < l) /\ ~(l < k)
      BY <1>1, <1>3, <2>1 DEF FilterPlaces, m
    <2> QED
      BY <1>4, <2>2
  <1>9. ASSUME NEW t \in T PROVE \E k \in 1 .. m : g[k] = t
    <2>1. PICK i \in 1 .. n : index[i].tx = t /\ t \notin hid
      BY <1>6
    <2>2. i \in AllowedAt(d.space, hid)
      BY <1>1, <2>1 DEF AllowedAt, index
    <2>3. PICK k \in 1 .. m : p[k] = i
      BY <1>3, <2>2 DEF FilterPlaces, m
    <2> QED
      BY <1>5, <2>1, <2>3
  <1>10. g \in [1 .. m -> T]
    BY <1>7
  <1> HIDE DEF g
  <1>11. Cardinality(T) = m
    <2>1. m \in Nat
      BY <1>4 DEF m
    <2> QED
      BY <1>8, <1>9, <1>10, <2>1, NumberedSet
  <1>12. DbPrincipalHead(d, hid) = m
    BY <1>4 DEF DbPrincipalHead
  <1> QED
    BY <1>11, <1>12, Zenon DEF T, index

(* Only ids in the index are read. *)
LEMMA ReadsOnlyIndexed ==
  ASSUME NEW d, NEW tx, DbReadTx(d, tx) # None
  PROVE  tx \in {d.space.txIndex[k].tx : k \in DOMAIN d.space.txIndex}
  <1>1. EntriesOf(d.space.txIndex, tx) # {}
    BY DEF DbReadTx, ReadTx, LookUp
  <1> QED
    BY <1>1 DEF EntriesOf

(* One by one: what readTxForPrincipal answers with is not hidden, and what   *)
(* is not hidden and wrote both streams it does answer with.                  *)
LEMMA PrincipalReads ==
  ASSUME NEW R, NEW d, DbGood(d, R), \A s \in Streams : d.heads[s] = Len(d.space.ev[s]),
         NEW masks, NEW tx \in TxId
  PROVE  LET hid     == HiddenTxs(d, masks)
             visible == {d.space.txIndex[k].tx : k \in DOMAIN d.space.txIndex} \ hid
         IN  /\ DbReadTxForPrincipal(d, tx, masks) # None => tx \in visible
             /\ tx \in visible /\ (\A s \in Streams : OwnEvents(d, tx, s) # <<>>)
                  => DbReadTxForPrincipal(d, tx, masks) # None
  <1> DEFINE index == d.space.txIndex
             own   == [s \in Streams |-> OwnEvents(d, tx, s)]
  <1>1. /\ index \in Seq(Entry) /\ DOMAIN index = 1 .. Len(index)
        /\ \A k, l \in 1 .. Len(index) : index[k].tx = index[l].tx => k = l
        /\ \A s \in Streams : d.space.ev[s] \in Seq(Event)
    BY DEF DbGood, DbStates, Space, IdsSound
  <1>2. \A s \in Streams : own[s] \in Seq(Event)
    BY <1>1, OwnPlaces DEF OwnEvents
  <1>3. ASSUME tx \in {index[k].tx : k \in DOMAIN index}, NEW s \in Streams, own[s] # <<>>
        PROVE  DbReadTx(d, tx)[s] = own[s]
    BY <1>1, <1>3, TxReadsOwn
  <1>4. tx \in HiddenTxs(d, masks) <=> Masked(own, masks)
    BY DEF HiddenTxs
  <1>5. ASSUME DbReadTxForPrincipal(d, tx, masks) # None
        PROVE  tx \in {index[k].tx : k \in DOMAIN index} \ HiddenTxs(d, masks)
    <2>1. DbReadTx(d, tx) # None /\ ~Masked(DbReadTx(d, tx), masks)
      BY <1>5 DEF DbReadTxForPrincipal
    <2>2. tx \in {index[k].tx : k \in DOMAIN index}
      BY <2>1, ReadsOnlyIndexed
    <2>3. ASSUME Masked(own, masks) PROVE FALSE
      <3>1. PICK s \in Streams : \E i \in DOMAIN own[s] : EventId(s, own[s][i]) \in masks
        BY <2>3 DEF Masked
      <3>2. own[s] # <<>>
        BY <3>1
      <3>3. DbReadTx(d, tx)[s] = own[s]
        BY <1>3, <2>2, <3>2
      <3> QED
        BY <2>1, <3>1, <3>3 DEF Masked
    <2> QED
      BY <1>4, <2>2, <2>3
  <1>6. ASSUME tx \in {index[k].tx : k \in DOMAIN index} \ HiddenTxs(d, masks),
               \A s \in Streams : own[s] # <<>>
        PROVE  DbReadTxForPrincipal(d, tx, masks) # None
    <2>1. \A s \in Streams : DbReadTx(d, tx)[s] = own[s]
      BY <1>3, <1>6
    <2>2. PICK k \in 1 .. Len(index) : index[k].tx = tx
      BY <1>1, <1>6
    <2>3. LookUp(index, tx) # None
      BY <1>1, <2>2, LooksUp
    <2>4. DbReadTx(d, tx) = [s \in Streams |-> DbReadTx(d, tx)[s]]
      BY <2>3 DEF DbReadTx, ReadTx
    <2>5. DbReadTx(d, tx) \in [Streams -> Seq(Event)]
      BY <1>2, <2>1, <2>4
    <2>6. DbReadTx(d, tx) # None
      BY <2>5, NoneIsNoEntry
    <2>7. ~Masked(own, masks)
      BY <1>4, <1>6
    <2>8. ~Masked(DbReadTx(d, tx), masks)
      BY <2>1, <2>7 DEF Masked
    <2> QED
      BY <2>6, <2>8 DEF DbReadTxForPrincipal
  <1> QED
    BY <1>5, <1>6

(* The invariant holds throughout. *)
LEMMA DbStaysSound ==
  ASSUME NEW CONSTANT R, R \subseteq AppendRequest, OneSlot(R)
  PROVE  DbSpec(R) => []DbSound(R)
  <1>1. DbInit => DbSound(R)
    BY EmptyDbSound DEF DbInit, DbSound
  <1>2. DbSound(R) /\ [DbNext(R)]_db => DbSound(R)'
    <2> SUFFICES ASSUME DbSound(R), [DbNext(R)]_db PROVE DbSound(R)'
      OBVIOUS
    <2>1. ASSUME NEW r \in R, DbWrite(r) PROVE DbSound(R)'
      BY <2>1, DbWriteKeeps
    <2>2. ASSUME NEW c \in Nat, DbCompact(c) PROVE DbSound(R)'
      BY <2>2, DbCompactKeeps
    <2>3. CASE DbDelete
      BY <2>3, EmptyDbSound DEF DbDelete, DbSound
    <2>4. CASE UNCHANGED db
      BY <2>4 DEF DbSound, DbGood
    <2> QED
      BY <2>1, <2>2, <2>3, <2>4 DEF DbNext
  <1> QED
    BY <1>1, <1>2, PTL DEF DbSpec

(* Whatever was appended, compacted and deleted: sequence numbers are never   *)
(* given twice, none is beyond the head that is reported, and an index        *)
(* entry's range covers the events of its transaction (appendTx numbers from  *)
(* heads, which compactUpToCursor keeps).                                     *)
THEOREM NumbersStayOrdered ==
  ASSUME NEW CONSTANT R, R \subseteq AppendRequest, OneSlot(R)
  PROVE  DbSpec(R) => []DbOrdered
  <1>1. DbSound(R) => DbOrdered
    <2> SUFFICES ASSUME DbSound(R), NEW s \in Streams
                 PROVE  LET evs == db.space.ev[s] IN
                        /\ \A i, j \in DOMAIN evs : i < j => evs[i].seq < evs[j].seq
                        /\ \A i \in DOMAIN evs : evs[i].seq <= DbCursorHead(db)[s]
                        /\ \A k \in DOMAIN db.space.txIndex, i \in DOMAIN evs :
                             LET e == db.space.txIndex[k] IN
                             evs[i].tx = e.tx => evs[i].seq \in e.start[s] .. e.end[s]
      BY DEF DbOrdered
    <2> DEFINE evs == db.space.ev[s]
               index == db.space.txIndex
    <2>1. /\ StreamSound(evs, index, db.heads[s], s)
          /\ \A k, l \in 1 .. Len(index) : index[k].tx = index[l].tx => k = l
      BY DEF DbSound, DbGood, IdsSound
    <2>2. DOMAIN evs = 1 .. Len(evs) /\ DOMAIN index = 1 .. Len(index)
      BY DEF DbSound, DbGood, DbStates, Space
    <2>3. ASSUME NEW k \in 1 .. Len(index), NEW i \in 1 .. Len(evs), evs[i].tx = index[k].tx
          PROVE  evs[i].seq \in index[k].start[s] .. index[k].end[s]
      <3>1. PICK l \in 1 .. Len(index) : Covers(index[l], evs[i], s)
        BY <2>1 DEF StreamSound
      <3> QED
        BY <2>1, <2>3, <3>1 DEF Covers
    <2> HIDE DEF evs, index
    <2>4. /\ \A i, j \in DOMAIN evs : i < j => evs[i].seq < evs[j].seq
          /\ \A i \in DOMAIN evs : evs[i].seq <= DbCursorHead(db)[s]
      BY <2>1, <2>2 DEF StreamSound, DbCursorHead
    <2> QED
      BY <2>2, <2>3, <2>4 DEF evs, index
  <1> QED
    BY <1>1, DbStaysSound, PTL

(* Positions are numbers, so the reads agree. *)
LEMMA TiledReadsAgree ==
  ASSUME NEW R, DbSound(R), db.heads = CursorHead(db.space)
  PROVE  DbReadsAgree
  <1> DEFINE index == db.space.txIndex
  <1>1. /\ db \in DbStates /\ index \in Seq(Entry) /\ DOMAIN index = 1 .. Len(index)
        /\ \A k, l \in 1 .. Len(index) : index[k].tx = index[l].tx => k = l
        /\ DbGood(db, R)
    BY DEF DbSound, DbGood, DbStates, Space, IdsSound
  <1>2. \A s \in Streams : db.space.ev[s] \in Seq(Event) /\ db.heads[s] = Len(db.space.ev[s])
    BY <1>1 DEF CursorHead, DbStates, Space
  <1> HIDE DEF index
  <1>3. ASSUME NEW k \in DOMAIN index, NEW s \in Streams, OwnEvents(db, index[k].tx, s) # <<>>
        PROVE  DbReadTx(db, index[k].tx)[s] = OwnEvents(db, index[k].tx, s)
    BY <1>1, <1>2, <1>3, TxReadsOwn DEF index
  <1>4. ASSUME NEW s \in Streams, NEW from \in 0 .. db.heads[s], NEW limit \in 1 .. 2,
               DbReadRange(db, s, from, limit) # <<>>
        PROVE  LET read == DbReadRange(db, s, from, limit) IN
               Latest(OwnEvents(db, Latest(read).tx, s)) = Latest(read)
    <2> DEFINE evs == db.space.ev[s]
               read == DbReadRange(db, s, from, limit)
    <2>1. /\ evs \in Seq(Event) /\ db.heads[s] = Len(evs) /\ limit \in Nat /\ limit # 0
          /\ DbGood(db, R)
      BY <1>1, <1>2
    <2>a. EndsATx(evs, read)
      <3>1. /\ DbGood(db, R) /\ db.heads[s] = Len(db.space.ev[s]) /\ limit \in Nat /\ limit # 0
            /\ from \in 0 .. db.heads[s] /\ DbReadRange(db, s, from, limit) # <<>>
        BY <1>4, <2>1
      <3> QED
        BY <3>1, RangeEnds
    <2> HIDE DEF evs, read
    <2>2. PICK q \in 1 .. Len(evs) : /\ Latest(read) = evs[q]
                                    /\ \A i \in q + 1 .. Len(evs) : evs[i].tx # evs[q].tx
      BY <2>a DEF EndsATx
    <2>3. Latest(EventsOfTx(evs, evs[q].tx)) = evs[q]
      BY <2>1, <2>2, OwnLatest
    <2> QED
      BY <2>2, <2>3 DEF OwnEvents, evs, read
  <1>g. DbGood(db, R)
    BY <1>1
  <1>5. ASSUME NEW masks
        PROVE  LET hid      == HiddenTxs(db, masks)
                   visible  == {index[k].tx : k \in DOMAIN index} \ hid
                   readable == {tx \in TxId : DbReadTxForPrincipal(db, tx, masks) # None}
               IN  /\ DbPrincipalHead(db, hid) = Cardinality(visible)
                   /\ readable \subseteq visible
                   /\ \A tx \in visible \ readable : \E s \in Streams : OwnEvents(db, tx, s) = <<>>
    <2> DEFINE hid      == HiddenTxs(db, masks)
               visible  == {index[k].tx : k \in DOMAIN index} \ hid
               readable == {tx \in TxId : DbReadTxForPrincipal(db, tx, masks) # None}
    <2>1. DbPrincipalHead(db, hid) = Cardinality(visible)
      BY <1>g, HeadCounts DEF index
    <2>2. ASSUME NEW tx \in TxId
          PROVE  /\ DbReadTxForPrincipal(db, tx, masks) # None => tx \in visible
                 /\ tx \in visible /\ (\A s \in Streams : OwnEvents(db, tx, s) # <<>>)
                      => DbReadTxForPrincipal(db, tx, masks) # None
      BY <1>2, <1>g, PrincipalReads DEF index
    <2>3. visible \subseteq TxId
      <3>1. \A k \in DOMAIN index : index[k] \in Entry
        BY <1>1
      <3>2. \A k \in DOMAIN index : index[k].tx \in TxId
        BY <3>1 DEF Entry
      <3> QED
        BY <3>2, Zenon
    <2> HIDE DEF visible, hid
    <2>4. readable \subseteq visible
      BY <2>2
    <2>5. ASSUME NEW tx \in visible \ readable PROVE \E s \in Streams : OwnEvents(db, tx, s) = <<>>
      BY <2>2, <2>3
    <2> QED
      BY <2>1, <2>4, <2>5, Zenon DEF visible, hid
  <1> QED
    BY <1>3, <1>4, <1>5 DEF DbReadsAgree, index

(* As long as nothing was compacted, what readTx, readRange and a principal   *)
(* read agrees: readTx has the events of the transaction on the streams it    *)
(* wrote, readRange stops where a transaction ends, and whatever events a     *)
(* policy masks, the principal's head counts the transactions without a       *)
(* masked event, of which it can read all that wrote both streams, and none   *)
(* besides.  They agree because positions are numbers until then              *)
(* (StreamTiled), whatever was appended, compacted and deleted.               *)
THEOREM ReadsStayInAgreement ==
  ASSUME NEW CONSTANT R, R \subseteq AppendRequest, OneSlot(R)
  PROVE  DbSpec(R) => []DbReadsAgree
  <1>1. DbSound(R) => DbReadsAgree
    BY TiledReadsAgree DEF DbReadsAgree
  <1> QED
    BY <1>1, DbStaysSound, PTL

-----------------------------------------------------------------------------
(* The publisher appends a transaction with an id that is new, as the servers *)
(* draw them at random, or a replicator takes a step.                         *)

IsNewId(tx) == \A i \in 1 .. Len(src.txIndex) : src.txIndex[i].tx # tx

PublishNew == \E r \in AppendRequest : IsNewId(r.tx) /\ Publish(r)

ReplicaNext == \/ PublishNew /\ UNCHANGED <<db, checkpoint, rep, refusals, faults>>
               \/ ReplicaStep /\ UNCHANGED src

ReplicaSpec == PublisherInit /\ ReplicaInit /\ [][ReplicaNext]_replicaVars

Replicates == INSTANCE Follower WITH Tx <- TxId, log <- VisibleIds, copy <- SinkIds

-----------------------------------------------------------------------------
(* The inductive invariant *)

Distinct(V) == \A i, j \in 1 .. Len(V) : V[i] = V[j] => i = j

(* What the principal sees has no id twice. *)
SourceSound == src \in Space /\ Distinct(VisibleIds)

(* The sink has the first of what can be seen, each under its own slot. *)
SinkHas(index, idem, V) ==
  /\ \E S : index \in Seq(S)
  /\ Len(index) <= Len(V)
  /\ \A i \in 1 .. Len(index) : index[i].tx = V[i]
  /\ \A x : (\E o \in idem : o.slot = x) <=> (\E i \in 1 .. Len(index) : x = V[i])

SinkSound == SinkHas(db.space.txIndex, db.space.idem, VisibleIds)

(* Bundles in hand are what can be seen after the first a, in order. *)
Segment(bs, V, a) ==
  /\ \E S : bs \in Seq(S)
  /\ a + Len(bs) <= Len(V)
  /\ \A i \in 1 .. Len(bs) :
       \E p, ok : bs[i] = [tx |-> V[a + i], cursor |-> a + i, payload |-> p, intact |-> ok]

(* With n transactions in the sink: the position of a replicator, and the     *)
(* bundle before the one it works on, are in the sink; so is the one it is    *)
(* about to save as done.                                                     *)
WorkerSound(z, V, n) ==
  \E at, cursor, bundles :
    /\ z = [at |-> at, cursor |-> cursor, bundles |-> bundles]
    /\ cursor \in Nat /\ cursor <= n
    /\ \/ at \in {"load", "pull"}
       \/ /\ at \in {"read", "append", "save"} /\ bundles # <<>>
          /\ \E a \in Nat : /\ Segment(bundles, V, a)
                            /\ a <= n /\ (at = "save" => a + 1 <= n)

ReplicaSound ==
  /\ SourceSound /\ SinkSound
  /\ checkpoint \in Nat /\ checkpoint <= Len(db.space.txIndex)
  /\ \E S : rep \in [Replicator -> S]
  /\ \A w \in Replicator : WorkerSound(rep[w], VisibleIds, Len(db.space.txIndex))

-----------------------------------------------------------------------------
(* Lemmas *)

(* A step of one replicator. *)
LEMMA GotoEffect ==
  ASSUME NEW w \in Replicator, NEW at, NEW cursor, NEW bundles,
         \E S : rep \in [Replicator -> S], Goto(w, at, cursor, bundles)
  PROVE  /\ \E S : rep' \in [Replicator -> S]
         /\ rep'[w] = [at |-> at, cursor |-> cursor, bundles |-> bundles]
         /\ \A v \in Replicator : v # w => rep'[v] = rep[v]
  <1>1. PICK S : rep \in [Replicator -> S]
    OBVIOUS
  <1> DEFINE z == [at |-> at, cursor |-> cursor, bundles |-> bundles]
  <1>2. rep' = [rep EXCEPT ![w] = z]
    BY DEF Goto
  <1> HIDE DEF z
  <1>3. rep' \in [Replicator -> S \cup {z}]
    BY <1>1, <1>2
  <1>4. rep'[w] = z /\ \A v \in Replicator : v # w => rep'[v] = rep[v]
    BY <1>1, <1>2
  <1> QED
    BY <1>3, <1>4 DEF z

(* A segment stays one when more can be seen. *)
LEMMA SegmentGrows ==
  ASSUME NEW bs, NEW V, NEW U, NEW a \in Nat, Segment(bs, V, a),
         Len(V) \in Nat, Len(U) \in Nat, Len(V) <= Len(U), \A i \in 1 .. Len(V) : U[i] = V[i]
  PROVE  Segment(bs, U, a)
  <1>1. PICK S : bs \in Seq(S)
    BY DEF Segment
  <1>2. Len(bs) \in Nat /\ a + Len(bs) <= Len(V)
    BY <1>1 DEF Segment
  <1>3. \A i \in 1 .. Len(bs) : a + i \in 1 .. Len(V)
    BY <1>2
  <1>4. \A i \in 1 .. Len(bs) : U[a + i] = V[a + i]
    BY <1>3
  <1>5. a + Len(bs) <= Len(U)
    BY <1>2
  <1> QED
    BY <1>1, <1>4, <1>5 DEF Segment

(* So does a replicator's state, and when more is in the sink. *)
LEMMA WorkerGrows ==
  ASSUME NEW z, NEW V, NEW U, NEW m \in Nat, NEW n \in Nat, WorkerSound(z, V, m), m <= n,
         Len(V) \in Nat, Len(U) \in Nat, Len(V) <= Len(U), \A i \in 1 .. Len(V) : U[i] = V[i]
  PROVE  WorkerSound(z, U, n)
  <1>1. PICK at, cursor, bundles :
          /\ z = [at |-> at, cursor |-> cursor, bundles |-> bundles]
          /\ cursor \in Nat /\ cursor <= m
          /\ \/ at \in {"load", "pull"}
             \/ /\ at \in {"read", "append", "save"} /\ bundles # <<>>
                /\ \E a \in Nat : /\ Segment(bundles, V, a)
                                  /\ a <= m /\ (at = "save" => a + 1 <= m)
    BY DEF WorkerSound
  <1>2. cursor <= n
    BY <1>1
  <1>3. CASE at \in {"load", "pull"}
    BY <1>1, <1>2, <1>3 DEF WorkerSound
  <1>4. CASE at \in {"read", "append", "save"} /\ bundles # <<>>
             /\ \E a \in Nat : /\ Segment(bundles, V, a)
                               /\ a <= m /\ (at = "save" => a + 1 <= m)
    <2>1. PICK a \in Nat : Segment(bundles, V, a) /\ a <= m /\ (at = "save" => a + 1 <= m)
      BY <1>4
    <2>2. Segment(bundles, U, a)
      BY <2>1, SegmentGrows
    <2>3. a <= n /\ (at = "save" => a + 1 <= n)
      BY <2>1
    <2> QED
      BY <1>1, <1>2, <1>4, <2>2, <2>3 DEF WorkerSound
  <1> QED
    BY <1>1, <1>3, <1>4

(* What holds when nothing but one replicator's state changes. *)
LEMMA WorkerMoves ==
  ASSUME ReplicaSound, NEW w \in Replicator, NEW at, NEW cursor, NEW bundles,
         Goto(w, at, cursor, bundles), src' = src, db' = db,
         checkpoint' \in Nat, checkpoint' <= Len(db.space.txIndex),
         WorkerSound([at |-> at, cursor |-> cursor, bundles |-> bundles],
                     VisibleIds, Len(db.space.txIndex))
  PROVE  ReplicaSound'
  <1>1. \E S : rep \in [Replicator -> S]
    BY DEF ReplicaSound
  <1>2. /\ \E S : rep' \in [Replicator -> S]
        /\ rep'[w] = [at |-> at, cursor |-> cursor, bundles |-> bundles]
        /\ \A v \in Replicator : v # w => rep'[v] = rep[v]
    BY <1>1, GotoEffect
  <1>3. VisibleIds' = VisibleIds
    BY DEF VisibleIds, Visible
  <1>4. SourceSound' /\ SinkSound'
    BY <1>3 DEF ReplicaSound, SourceSound, SinkSound
  <1>5. \A v \in Replicator : WorkerSound(rep'[v], VisibleIds, Len(db.space.txIndex))
    BY <1>2 DEF ReplicaSound
  <1> QED
    BY <1>2, <1>3, <1>4, <1>5 DEF ReplicaSound

-----------------------------------------------------------------------------
(* The publisher's step *)

(* A new transaction comes next, if it can be seen; the rest stays. *)
LEMMA PublishNewKeeps ==
  ASSUME ReplicaSound, PublishNew, UNCHANGED <<db, checkpoint, rep, refusals, faults>>
  PROVE  /\ ReplicaSound'
         /\ VisibleIds' = VisibleIds \/ \E t \in TxId : VisibleIds' = Append(VisibleIds, t)
  <1>1. PICK r \in AppendRequest : IsNewId(r.tx) /\ Publish(r)
    BY DEF PublishNew
  <1>2. src \in Space /\ src' = AppendTx(src, r) /\ src' \in Space /\ r.tx \in TxId
    BY <1>1, AppendTxType DEF ReplicaSound, SourceSound, Publish, AppendRequest
  <1> DEFINE V == VisibleIds
             U == VisibleIds'
             n == Len(db.space.txIndex)
  <1>3. V = SeenIds(src, Hidden) /\ V \in Seq(TxId) /\ Len(V) \in Nat
        /\ Len(V) = CountVisibleTxs(src, Hidden)
    BY <1>2, VisibleIdsType
  <1>4. U = SeenIds(AppendTx(src, r), Hidden)
    BY <1>2 DEF VisibleIds, Visible, SeenIds
  <1>5. U = V \/ U = Append(V, r.tx)
    BY <1>2, <1>3, <1>4, SeenGrows
  <1>6. \A i \in 1 .. Len(V) : V[i] # r.tx
    <2> SUFFICES ASSUME NEW i \in 1 .. Len(V) PROVE V[i] # r.tx
      OBVIOUS
    <2>0. i \in 1 .. CountVisibleTxs(src, Hidden)
      BY <1>3
    <2>1. PICK j \in 1 .. Len(src.txIndex) : VisibleTxs(src, Hidden)[i].tx = src.txIndex[j].tx
      BY <1>2, <2>0, VisibleType
    <2>2. V[i] = VisibleTxs(src, Hidden)[i].tx
      BY <1>2, <1>3, <2>0, SeenProperties
    <2> QED
      BY <1>1, <2>1, <2>2 DEF IsNewId
  <1>7. Distinct(V) /\ SinkHas(db.space.txIndex, db.space.idem, V)
        /\ n <= Len(V) /\ n \in Nat
    BY DEF ReplicaSound, SourceSound, SinkSound, SinkHas
  <1>8. db' = db /\ checkpoint' = checkpoint /\ rep' = rep
    OBVIOUS
  <1> HIDE DEF V, U
  <1>9. U \in Seq(TxId) /\ Len(U) \in Nat /\ Len(V) <= Len(U) /\ \A i \in 1 .. Len(V) : U[i] = V[i]
    <2>1. CASE U = V
      BY <1>3, <2>1
    <2>2. CASE U = Append(V, r.tx)
      BY <1>2, <1>3, <2>2, AppendProperties
    <2> QED
      BY <1>5, <2>1, <2>2
  <1>10. Distinct(U)
    <2>1. CASE U = V
      BY <1>7, <2>1
    <2>2. CASE U = Append(V, r.tx)
      <3>1. Len(U) = Len(V) + 1 /\ U[Len(V) + 1] = r.tx
        BY <1>2, <1>3, <2>2, AppendProperties
      <3>2. \A i \in 1 .. Len(U) : i \in 1 .. Len(V) \/ i = Len(V) + 1
        BY <1>3, <3>1
      <3> QED
        BY <1>6, <1>7, <1>9, <3>1, <3>2 DEF Distinct
    <2> QED
      BY <1>5, <2>1, <2>2
  <1>11. SinkHas(db.space.txIndex, db.space.idem, U)
    <2>1. n <= Len(U) /\ \A i \in 1 .. n : U[i] = V[i]
      BY <1>3, <1>7, <1>9
    <2> QED
      BY <1>7, <2>1 DEF SinkHas
  <1>12. \A w \in Replicator : WorkerSound(rep[w], U, n)
    <2> SUFFICES ASSUME NEW w \in Replicator PROVE WorkerSound(rep[w], U, n)
      OBVIOUS
    <2>1. WorkerSound(rep[w], V, n)
      BY DEF ReplicaSound, V
    <2>2. n <= n
      BY <1>7
    <2> HIDE DEF n
    <2> QED
      BY <1>3, <1>7, <1>9, <2>1, <2>2, WorkerGrows
  <1>13. ReplicaSound'
    BY <1>2, <1>8, <1>10, <1>11, <1>12 DEF ReplicaSound, SourceSound, SinkSound, U
  <1> QED
    BY <1>2, <1>5, <1>13 DEF U, V

-----------------------------------------------------------------------------
(* The replicators' steps *)

(* A replicator begins where the last one saved. *)
LEMMA LoadKeeps ==
  ASSUME ReplicaSound, NEW w \in Replicator, Load(w), src' = src
  PROVE  ReplicaSound' /\ db' = db
  <1> DEFINE none == <<>>
  <1>1. /\ Goto(w, "pull", checkpoint, none) /\ db' = db /\ checkpoint' = checkpoint
        /\ checkpoint \in Nat /\ checkpoint <= Len(db.space.txIndex)
    BY DEF Load, ReplicaSound
  <1>2. WorkerSound([at |-> "pull", cursor |-> checkpoint, bundles |-> none],
                    VisibleIds, Len(db.space.txIndex))
    BY <1>1 DEF WorkerSound
  <1> HIDE DEF none
  <1>3. ReplicaSound'
    BY <1>1, <1>2, WorkerMoves
  <1> QED
    BY <1>1, <1>3

(* It begins again. *)
LEMMA EndsKeeps ==
  ASSUME ReplicaSound, NEW w \in Replicator, PullsNothing(w) \/ SinkDiverges(w), src' = src
  PROVE  ReplicaSound' /\ db' = db
  <1> DEFINE none == <<>>
  <1>1. Goto(w, "load", 0, none) /\ db' = db /\ checkpoint' = checkpoint
    BY DEF PullsNothing, SinkDiverges
  <1>2. /\ checkpoint' \in Nat /\ checkpoint' <= Len(db.space.txIndex)
        /\ Len(db.space.txIndex) \in Nat /\ 0 \in Nat
    BY <1>1 DEF ReplicaSound, SinkSound, SinkHas
  <1>3. WorkerSound([at |-> "load", cursor |-> 0, bundles |-> none],
                    VisibleIds, Len(db.space.txIndex))
    <2>1. 0 \in Nat /\ 0 <= Len(db.space.txIndex) /\ "load" \in {"load", "pull"}
      BY <1>2
    <2> QED
      BY <2>1, Zenon DEF WorkerSound
  <1> HIDE DEF none
  <1>4. ReplicaSound'
    BY <1>1, <1>2, <1>3, WorkerMoves
  <1> QED
    BY <1>1, <1>4

(* What it pulls is what can be seen after its position. *)
LEMMA PullKeeps ==
  ASSUME ReplicaSound, NEW w \in Replicator, Pull(w), src' = src
  PROVE  ReplicaSound' /\ db' = db
  <1> DEFINE n == Len(db.space.txIndex)
             c == rep[w].cursor
             V == VisibleIds
             N == CountVisibleTxs(src, Hidden)
             m == RangeLen(N, c, PullLimit)
  <1>1. PICK at, cursor, bundles :
          /\ rep[w] = [at |-> at, cursor |-> cursor, bundles |-> bundles]
          /\ cursor \in Nat /\ cursor <= n
    BY DEF ReplicaSound, WorkerSound
  <1>2. c \in Nat /\ c <= n
    BY <1>1
  <1>3. src \in Space /\ PullLimit \in Nat
    BY ReplicaAssumption DEF ReplicaSound, SourceSound
  <1>4. V = SeenIds(src, Hidden) /\ Len(V) = N /\ N \in Nat
        /\ \A i \in 1 .. N : V[i] = VisibleTxs(src, Hidden)[i].tx
    BY <1>3, VisibleIdsType, SeenProperties
  <1> HIDE DEF c, m, N, V
  <1>5. /\ m \in Nat /\ c + m <= Greatest(N, c)
        /\ \E txs : /\ ReadPrincipalTxRange(src, Hidden, c, PullLimit) = [txs |-> txs, cursor |-> c + m]
                    /\ IsPart(txs, VisibleTxs(src, Hidden), c, m)
    BY <1>2, <1>3, RangeProperties DEF N, m
  <1>6. PICK txs : /\ ReadPrincipalTxRange(src, Hidden, c, PullLimit) = [txs |-> txs, cursor |-> c + m]
                   /\ IsPart(txs, VisibleTxs(src, Hidden), c, m)
    BY <1>5
  <1>7. /\ DOMAIN txs = 1 .. m /\ Len(txs) = m
        /\ \A i \in 1 .. m : c + i \in 1 .. Len(VisibleTxs(src, Hidden))
                             /\ txs[i].tx = VisibleTxs(src, Hidden)[c + i].tx
    BY <1>6, Zenon DEF IsPart
  <1>8. PICK hurt : /\ txs # <<>>
                    /\ Goto(w, "read", c,
                            [i \in DOMAIN txs |-> [tx |-> txs[i].tx, cursor |-> c + i,
                                                   payload |-> Payload(txs[i].ev), intact |-> i # hurt]])
    <2>1. ReadPrincipalTxRange(src, Hidden, rep[w].cursor, PullLimit).txs = txs /\ c = rep[w].cursor
      BY <1>6 DEF c
    <2> QED
      BY <2>1, Zenon DEF Pull
  <1>9. db' = db /\ checkpoint' = checkpoint
    BY DEF Pull
  <1> DEFINE bs == [i \in 1 .. m |-> [tx |-> txs[i].tx, cursor |-> c + i,
                                      payload |-> Payload(txs[i].ev), intact |-> i # hurt]]
  <1>10. Goto(w, "read", c, bs)
    BY <1>7, <1>8
  <1>11. \A i \in 1 .. m : c + i \in 1 .. N /\ txs[i].tx = V[c + i]
    BY <1>4, <1>7 DEF CountVisibleTxs, N
  <1>12. \A i \in 1 .. m : bs[i] = [tx |-> V[c + i], cursor |-> c + i,
                                    payload |-> Payload(txs[i].ev), intact |-> i # hurt]
    BY <1>11
  <1>13. (\E S : bs \in Seq(S)) /\ Len(bs) = m
    <2> DEFINE S == {bs[i] : i \in 1 .. m}
    <2>1. bs \in [1 .. m -> S]
      OBVIOUS
    <2> HIDE DEF S, bs
    <2> QED
      BY <1>5, <2>1, FunctionIsSeq
  <1> HIDE DEF bs
  <1>14. bs # <<>> /\ m # 0
    <2>1. m # 0
      <3> SUFFICES ASSUME m = 0 PROVE FALSE
        OBVIOUS
      <3>1. txs = <<>>
        BY <1>6, <1>7
      <3> QED
        BY <1>8, <3>1
    <2> QED
      BY <1>5, <1>13, <2>1
  <1>15. Segment(bs, V, c)
    <2>1. c + m <= N
      BY <1>2, <1>4, <1>5, <1>11, <1>14
    <2> QED
      BY <1>4, <1>12, <1>13, <2>1 DEF Segment
  <1>16. WorkerSound([at |-> "read", cursor |-> c, bundles |-> bs], V, n)
    <2>1. "read" \in {"read", "append", "save"} /\ "read" # "save"
      OBVIOUS
    <2> QED
      BY <1>2, <1>14, <1>15, <2>1, Zenon DEF WorkerSound
  <1>17. checkpoint' \in Nat /\ checkpoint' <= n
    BY <1>9 DEF ReplicaSound
  <1>18. ReplicaSound'
    BY <1>9, <1>10, <1>16, <1>17, WorkerMoves DEF V
  <1> QED
    BY <1>9, <1>18

(* A replicator with bundles in hand, the first of which is of what can be    *)
(* seen after the first a.                                                    *)
InHand(w, a) ==
  /\ rep[w].cursor \in Nat /\ rep[w].cursor <= Len(db.space.txIndex)
  /\ rep[w].bundles # <<>> /\ Segment(rep[w].bundles, VisibleIds, a)
  /\ a <= Len(db.space.txIndex) /\ a + 1 \in 1 .. Len(VisibleIds)
  /\ First(w).tx = VisibleIds[a + 1] /\ First(w).cursor = a + 1

(* A replicator that handles a bundle has in hand a stretch of what can be seen,
   beginning with it; the sink has the bundle when its cursor is to be saved. *)
LEMMA HandKnown ==
  ASSUME ReplicaSound, NEW w \in Replicator, rep[w].at \in {"read", "append", "save"}
  PROVE  \E a \in Nat : /\ InHand(w, a)
                        /\ rep[w].at = "save" => a + 1 <= Len(db.space.txIndex)
  <1> DEFINE n == Len(db.space.txIndex)
             V == VisibleIds
  <1>1. PICK at, cursor, bundles :
          /\ rep[w] = [at |-> at, cursor |-> cursor, bundles |-> bundles]
          /\ cursor \in Nat /\ cursor <= n
          /\ \/ at \in {"load", "pull"}
             \/ /\ at \in {"read", "append", "save"} /\ bundles # <<>>
                /\ \E a \in Nat : /\ Segment(bundles, V, a)
                                  /\ a <= n /\ (at = "save" => a + 1 <= n)
    BY DEF ReplicaSound, WorkerSound
  <1>2. rep[w].at = at /\ rep[w].cursor = cursor /\ rep[w].bundles = bundles
    BY <1>1
  <1>3. at \notin {"load", "pull"}
    BY <1>2
  <1>4. PICK a \in Nat : /\ bundles # <<>> /\ Segment(bundles, V, a)
                         /\ a <= n /\ (at = "save" => a + 1 <= n)
    BY <1>1, <1>3
  <1>5. Len(V) \in Nat
    BY VisibleIdsType DEF ReplicaSound, SourceSound
  <1> HIDE DEF n, V
  <1>6. PICK S : bundles \in Seq(S)
    BY <1>4 DEF Segment
  <1>7. Len(bundles) \in Nat /\ Len(bundles) # 0 /\ Head(bundles) = bundles[1]
    BY <1>4, <1>6
  <1>8. a + 1 \in 1 .. Len(V)
    BY <1>4, <1>5, <1>7 DEF Segment
  <1>9. PICK p, ok : bundles[1] = [tx |-> V[a + 1], cursor |-> a + 1, payload |-> p, intact |-> ok]
    <2>1. 1 \in 1 .. Len(bundles)
      BY <1>7
    <2> QED
      BY <1>4, <2>1, Zenon DEF Segment
  <1>10. Head(bundles).tx = V[a + 1] /\ Head(bundles).cursor = a + 1
    BY <1>7, <1>9
  <1> QED
    BY <1>1, <1>2, <1>4, <1>8, <1>10 DEF InHand, First, n, V

(* It stays sound as it goes on with the same bundles, to be saved only when  *)
(* the first of them is in the sink.                                          *)
LEMMA HandSound ==
  ASSUME NEW w \in Replicator, NEW a \in Nat, InHand(w, a), NEW n \in Nat, a <= n,
         NEW at \in {"read", "append", "save"}, at = "save" => a + 1 <= n,
         NEW cursor \in Nat, cursor <= n
  PROVE  WorkerSound([at |-> at, cursor |-> cursor, bundles |-> rep[w].bundles], VisibleIds, n)
  <1>1. rep[w].bundles # <<>> /\ Segment(rep[w].bundles, VisibleIds, a)
    BY DEF InHand
  <1> QED
    BY <1>1, Zenon DEF WorkerSound

(* What the sink answers for is in it. *)
LEMMA KnownIsIn ==
  ASSUME ReplicaSound, NEW a \in Nat, a + 1 \in 1 .. Len(VisibleIds),
         NEW i \in 1 .. Len(db.space.txIndex), VisibleIds[a + 1] = VisibleIds[i]
  PROVE  a + 1 <= Len(db.space.txIndex)
  <1>1. Distinct(VisibleIds) /\ Len(db.space.txIndex) <= Len(VisibleIds)
        /\ Len(db.space.txIndex) \in Nat
    BY DEF ReplicaSound, SourceSound, SinkSound, SinkHas
  <1>2. Len(VisibleIds) \in Nat
    BY VisibleIdsType DEF ReplicaSound, SourceSound
  <1>3. i \in 1 .. Len(VisibleIds)
    BY <1>1, <1>2
  <1>4. a + 1 = i
    BY <1>1, <1>3 DEF Distinct
  <1> QED
    BY <1>1, <1>4

(* Asking the sink for the transaction keeps the invariant. *)
LEMMA SinkReadKeeps ==
  ASSUME ReplicaSound, NEW w \in Replicator, SinkUnknown(w) \/ SinkKnown(w), src' = src
  PROVE  ReplicaSound' /\ db' = db
  <1> DEFINE n == Len(db.space.txIndex)
  <1>1. rep[w].at = "read" /\ db' = db /\ checkpoint' = checkpoint
    BY DEF SinkUnknown, SinkKnown
  <1>2. PICK a \in Nat : InHand(w, a)
    BY <1>1, HandKnown
  <1>3. checkpoint' \in Nat /\ checkpoint' <= n /\ n \in Nat
    BY <1>1 DEF ReplicaSound, SinkSound, SinkHas
  <1>4. CASE SinkUnknown(w)
    <2>1. Goto(w, "append", rep[w].cursor, rep[w].bundles)
      BY <1>4 DEF SinkUnknown
    <2>2. WorkerSound([at |-> "append", cursor |-> rep[w].cursor, bundles |-> rep[w].bundles],
                      VisibleIds, n)
      <3>1. a <= n /\ rep[w].cursor \in Nat /\ rep[w].cursor <= n
        BY <1>2 DEF InHand
      <3> QED
        BY <1>2, <1>3, <3>1, HandSound
    <2> QED
      BY <1>1, <1>3, <2>1, <2>2, WorkerMoves
  <1>5. CASE SinkKnown(w)
    <2>1. Goto(w, "save", First(w).cursor, rep[w].bundles) /\ Stored(First(w).tx) # None
      BY <1>5 DEF SinkKnown
    <2>2. EntriesOf(db.space.txIndex, First(w).tx) # {}
      BY <2>1, Zenon DEF Stored, DbReadTx, ReadTx, LookUp
    <2>3. PICK i \in DOMAIN db.space.txIndex : db.space.txIndex[i].tx = First(w).tx
      BY <2>2 DEF EntriesOf
    <2>4. i \in 1 .. n /\ db.space.txIndex[i].tx = VisibleIds[i]
      BY <2>3 DEF ReplicaSound, SinkSound, SinkHas
    <2>5. a + 1 \in 1 .. Len(VisibleIds) /\ First(w).tx = VisibleIds[a + 1] /\ First(w).cursor = a + 1
      BY <1>2 DEF InHand
    <2>6. a + 1 <= n
      BY <2>3, <2>4, <2>5, KnownIsIn
    <2>7. WorkerSound([at |-> "save", cursor |-> a + 1, bundles |-> rep[w].bundles], VisibleIds, n)
      <3>1. a <= n /\ a + 1 \in Nat
        BY <1>2 DEF InHand
      <3> QED
        BY <1>2, <1>3, <2>6, <3>1, HandSound
    <2> QED
      BY <1>1, <1>3, <2>1, <2>5, <2>7, WorkerMoves
  <1> QED
    BY <1>1, <1>4, <1>5

(* The append of what comes next adds an entry and a slot. *)
LEMMA SinkGrows ==
  ASSUME NEW index, NEW idem, NEW V, SinkHas(index, idem, V), Len(index) + 1 <= Len(V),
         Len(V) \in Nat,
         NEW e, e.tx = V[Len(index) + 1], NEW o, o.slot = V[Len(index) + 1]
  PROVE  SinkHas(Append(index, e), idem \cup {o}, V) /\ Len(Append(index, e)) = Len(index) + 1
  <1> DEFINE n == Len(index)
             more == Append(index, e)
  <1>1. PICK S : index \in Seq(S)
    BY DEF SinkHas
  <1>2. n \in Nat
    BY <1>1
  <1>3. index \in Seq(S \cup {e})
    BY <1>1
  <1>4. /\ more \in Seq(S \cup {e}) /\ Len(more) = n + 1 /\ more[n + 1] = e
        /\ \A i \in 1 .. n : more[i] = index[i]
    BY <1>3, AppendProperties
  <1> HIDE DEF more
  <1>5. \A i \in 1 .. Len(more) : more[i].tx = V[i]
    <2>1. \A i \in 1 .. Len(more) : i \in 1 .. n \/ i = n + 1
      BY <1>2, <1>4
    <2>2. \A i \in 1 .. n : index[i].tx = V[i]
      BY DEF SinkHas
    <2> QED
      BY <1>4, <2>1, <2>2
  <1>6. \A x : (\E p \in idem \cup {o} : p.slot = x) <=> (\E i \in 1 .. Len(more) : x = V[i])
    <2> SUFFICES ASSUME NEW x
                 PROVE  (\E p \in idem \cup {o} : p.slot = x) <=> (\E i \in 1 .. Len(more) : x = V[i])
      OBVIOUS
    <2>1. (\E p \in idem : p.slot = x) <=> (\E i \in 1 .. n : x = V[i])
      BY Zenon DEF SinkHas
    <2>2. (\E p \in idem \cup {o} : p.slot = x) <=> (\E p \in idem : p.slot = x) \/ o.slot = x
      BY Zenon
    <2>3. (\E i \in 1 .. Len(more) : x = V[i]) <=> (\E i \in 1 .. n : x = V[i]) \/ x = V[n + 1]
      BY <1>2, <1>4
    <2> QED
      BY <2>1, <2>2, <2>3
  <1> QED
    BY <1>4, <1>5, <1>6 DEF SinkHas, more

(* Appending to the sink keeps the invariant: what is appended is the next visible
   transaction of the source, or one the sink has. *)
LEMMA SinkAppendKeeps ==
  ASSUME ReplicaSound, NEW w \in Replicator, SinkAppend(w), src' = src
  PROVE  ReplicaSound' /\ Len(db.space.txIndex) <= Len(db'.space.txIndex)
  <1> DEFINE n == Len(db.space.txIndex)
             V == VisibleIds
             r == ReplicaRequest(First(w))
  <1>1. /\ rep[w].at = "append" /\ checkpoint' = checkpoint
        /\ Goto(w, "save", First(w).cursor, rep[w].bundles)
        /\ IF IsReplay(db.space, r) THEN db' = db ELSE DbWrite(r)
    BY DEF SinkAppend
  <1>2. PICK a \in Nat : InHand(w, a)
    BY <1>1, HandKnown
  <1>3. a + 1 \in 1 .. Len(V) /\ First(w).tx = V[a + 1] /\ First(w).cursor = a + 1 /\ a <= n
    BY <1>2 DEF InHand
  <1>4. r.slot = First(w).tx /\ r.tx = First(w).tx
    BY DEF ReplicaRequest
  <1>5. /\ SinkHas(db.space.txIndex, db.space.idem, V) /\ n \in Nat /\ n <= Len(V)
        /\ checkpoint \in Nat /\ checkpoint <= n
    BY DEF ReplicaSound, SinkSound, SinkHas
  <1>6. Len(V) \in Nat
    BY VisibleIdsType DEF ReplicaSound, SourceSound
  <1>7. IsKnown(db.space, r) <=> \E i \in 1 .. n : First(w).tx = V[i]
    <2>1. IsKnown(db.space, r) <=> \E o \in db.space.idem : o.slot = First(w).tx
      BY <1>4, Zenon DEF IsKnown, OutcomesAt
    <2>2. (\E o \in db.space.idem : o.slot = First(w).tx) <=> (\E i \in 1 .. n : First(w).tx = V[i])
      BY <1>5, Zenon DEF SinkHas
    <2> QED
      BY <2>1, <2>2
  <1>8. CASE IsReplay(db.space, r)
    <2>1. db' = db
      BY <1>1, <1>8
    <2>2. PICK i \in 1 .. n : First(w).tx = V[i]
      BY <1>7, <1>8 DEF IsReplay
    <2>3. a + 1 <= n /\ a + 1 \in Nat
      <3>1. VisibleIds[a + 1] = VisibleIds[i] /\ a + 1 \in 1 .. Len(VisibleIds)
        BY <1>3, <2>2
      <3>2. a + 1 <= Len(db.space.txIndex)
        BY <3>1, KnownIsIn
      <3> QED
        BY <3>2
    <2>4. WorkerSound([at |-> "save", cursor |-> a + 1, bundles |-> rep[w].bundles], V, n)
      BY <1>2, <1>3, <1>5, <2>3, HandSound
    <2>5. Goto(w, "save", a + 1, rep[w].bundles)
      BY <1>1, <1>3
    <2>6. ReplicaSound'
      BY <1>1, <1>5, <2>1, <2>4, <2>5, WorkerMoves
    <2> QED
      BY <1>5, <2>1, <2>6
  <1>9. CASE ~IsReplay(db.space, r)
    <2>1. DbCommits(db, r) /\ db' = DbAppend(db, r)
      BY <1>1, <1>9 DEF DbWrite
    <2>2. a = n
      <3>1. ~\E i \in 1 .. n : V[a + 1] = V[i]
        BY <1>3, <1>7, <2>1 DEF DbCommits
      <3> QED
        BY <1>3, <1>5, <3>1
    <2>3. /\ db'.space.txIndex = Append(db.space.txIndex, DbEntry(db, r))
          /\ db'.space.idem = db.space.idem \cup {DbOutcome(db, r)}
      BY <2>1 DEF DbAppend
    <2>4. DbEntry(db, r).tx = V[n + 1] /\ DbOutcome(db, r).slot = V[n + 1]
      BY <1>3, <1>4, <2>2 DEF DbEntry, DbOutcome
    <2> DEFINE N == n + 1
    <2>5. n + 1 <= Len(V)
      BY <1>3, <2>2
    <2>6. /\ SinkHas(db'.space.txIndex, db'.space.idem, V) /\ Len(db'.space.txIndex) = N
          /\ N \in Nat /\ n <= N
      <3> DEFINE index == db.space.txIndex
                 idem  == db.space.idem
                 e     == DbEntry(db, r)
                 o     == DbOutcome(db, r)
      <3>1. /\ SinkHas(index, idem, V) /\ Len(index) + 1 <= Len(V) /\ Len(V) \in Nat
            /\ e.tx = V[Len(index) + 1] /\ o.slot = V[Len(index) + 1]
        BY <1>5, <1>6, <2>4, <2>5
      <3>2. db'.space.txIndex = Append(index, e) /\ db'.space.idem = idem \cup {o}
        BY <2>3
      <3>3. N = Len(index) + 1 /\ N \in Nat /\ n <= N
        BY <1>5
      <3> HIDE DEF index, idem, e, o, V, N
      <3>4. SinkHas(Append(index, e), idem \cup {o}, V) /\ Len(Append(index, e)) = Len(index) + 1
        BY <3>1, SinkGrows
      <3> QED
        BY <3>2, <3>3, <3>4
    <2>7. /\ \E S : rep' \in [Replicator -> S]
          /\ rep'[w] = [at |-> "save", cursor |-> a + 1, bundles |-> rep[w].bundles]
          /\ \A v \in Replicator : v # w => rep'[v] = rep[v]
      <3>1. \E S : rep \in [Replicator -> S]
        BY DEF ReplicaSound
      <3>2. Goto(w, "save", a + 1, rep[w].bundles)
        BY <1>1, <1>3
      <3> QED
        BY <3>1, <3>2, GotoEffect
    <2>8. WorkerSound([at |-> "save", cursor |-> a + 1, bundles |-> rep[w].bundles], V, N)
      <3>1. a <= N /\ a + 1 <= N /\ a + 1 \in Nat
        BY <1>5, <2>2
      <3> QED
        BY <1>2, <2>6, <3>1, HandSound
    <2>9. \A v \in Replicator : v # w => WorkerSound(rep'[v], V, N)
      <3> SUFFICES ASSUME NEW v \in Replicator, v # w PROVE WorkerSound(rep[v], V, N)
        BY <2>7
      <3>1. WorkerSound(rep[v], V, n)
        BY DEF ReplicaSound
      <3>2. Len(V) <= Len(V) /\ \A i \in 1 .. Len(V) : V[i] = V[i]
        BY <1>6
      <3> HIDE DEF n, N, V
      <3> QED
        BY <1>5, <1>6, <2>6, <3>1, <3>2, WorkerGrows
    <2>10. VisibleIds' = V /\ SourceSound'
      BY DEF ReplicaSound, SourceSound, VisibleIds, Visible
    <2>11. checkpoint' \in Nat /\ checkpoint' <= N
      BY <1>1, <1>5
    <2>12. \A v \in Replicator : WorkerSound(rep'[v], V, N)
      BY <2>7, <2>8, <2>9
    <2> HIDE DEF N, V
    <2> QED
      BY <2>6, <2>7, <2>10, <2>11, <2>12 DEF ReplicaSound, SinkSound
  <1> QED
    BY <1>8, <1>9

(* What is saved as done is in the sink; the bundles left follow it. *)
LEMMA SaveKeeps ==
  ASSUME ReplicaSound, NEW w \in Replicator, Save(w), src' = src
  PROVE  ReplicaSound' /\ db' = db
  <1> DEFINE n == Len(db.space.txIndex)
             V == VisibleIds
             bs == rep[w].bundles
             rest == Tail(bs)
  <1>1. /\ rep[w].at = "save" /\ checkpoint' = First(w).cursor /\ db' = db
        /\ Goto(w, IF rest = <<>> THEN "load" ELSE "read", IF rest = <<>> THEN 0 ELSE rep[w].cursor, rest)
    BY DEF Save
  <1>2. PICK a \in Nat : InHand(w, a) /\ a + 1 <= n
    BY <1>1, HandKnown
  <1>3. /\ First(w).cursor = a + 1 /\ rep[w].cursor \in Nat /\ rep[w].cursor <= n
        /\ bs # <<>> /\ Segment(bs, V, a) /\ a + 1 \in 1 .. Len(V)
    BY <1>2 DEF InHand
  <1>4. checkpoint' \in Nat /\ checkpoint' <= n
    BY <1>1, <1>2, <1>3
  <1>5. n \in Nat /\ Len(V) \in Nat
    BY VisibleIdsType DEF ReplicaSound, SourceSound, SinkSound, SinkHas
  <1> HIDE DEF bs, V, n
  <1>6. PICK S : bs \in Seq(S)
    BY <1>3 DEF Segment
  <1>7. /\ rest \in Seq(S) /\ Len(rest) = Len(bs) - 1 /\ Len(bs) \in Nat
        /\ \A i \in 1 .. Len(rest) : rest[i] = bs[i + 1]
    BY <1>3, <1>6, HeadTailProperties
  <1> HIDE DEF rest
  <1>8. Segment(rest, V, a + 1)
    <2>1. a + 1 + Len(rest) <= Len(V)
      BY <1>3, <1>5, <1>7 DEF Segment
    <2>2. ASSUME NEW i \in 1 .. Len(rest)
          PROVE  \E p, ok : rest[i] = [tx |-> V[a + 1 + i], cursor |-> a + 1 + i,
                                       payload |-> p, intact |-> ok]
      <3>1. i + 1 \in 1 .. Len(bs) /\ a + (i + 1) = a + 1 + i
        BY <1>7
      <3>2. PICK p, ok : bs[i + 1] = [tx |-> V[a + (i + 1)], cursor |-> a + (i + 1),
                                      payload |-> p, intact |-> ok]
        BY <1>3, <3>1, Zenon DEF Segment
      <3> QED
        BY <1>7, <3>1, <3>2
    <2> QED
      BY <1>7, <2>1, <2>2 DEF Segment
  <1>9. CASE rest = <<>>
    <2>1. Goto(w, "load", 0, rest)
      BY <1>1, <1>9
    <2>2. WorkerSound([at |-> "load", cursor |-> 0, bundles |-> rest], V, n)
      <3>1. 0 \in Nat /\ 0 <= n /\ "load" \in {"load", "pull"}
        BY <1>5
      <3> QED
        BY <3>1, Zenon DEF WorkerSound
    <2> QED
      BY <1>1, <1>4, <2>1, <2>2, WorkerMoves DEF n, V
  <1>10. CASE rest # <<>>
    <2>1. Goto(w, "read", rep[w].cursor, rest)
      BY <1>1, <1>10
    <2>2. WorkerSound([at |-> "read", cursor |-> rep[w].cursor, bundles |-> rest], V, n)
      <3>1. "read" \in {"read", "append", "save"} /\ "read" # "save" /\ a + 1 \in Nat
        OBVIOUS
      <3> QED
        BY <1>2, <1>3, <1>8, <1>10, <3>1, Zenon DEF WorkerSound
    <2> QED
      BY <1>1, <1>4, <2>1, <2>2, WorkerMoves DEF n, V
  <1> QED
    BY <1>9, <1>10

(* A restart forgets the bundles in hand, and it may be the checkpoint. *)
LEMMA RestingSound ==
  ASSUME NEW V, NEW n \in Nat
  PROVE  WorkerSound(Resting, V, n)
  <1>1. 0 \in Nat /\ 0 <= n /\ "load" \in {"load", "pull"}
    OBVIOUS
  <1> QED
    BY <1>1, Zenon DEF WorkerSound, Resting

(* A process that stops keeps the sink and the saved checkpoint. *)
LEMMA CrashKeeps ==
  ASSUME ReplicaSound, ReplicaCrash, src' = src
  PROVE  ReplicaSound' /\ db' = db
  <1>1. /\ rep' = [w \in Replicator |-> Resting] /\ db' = db
        /\ checkpoint' = 0 \/ checkpoint' = checkpoint
    BY DEF ReplicaCrash
  <1>2. checkpoint \in Nat /\ checkpoint <= Len(db.space.txIndex) /\ Len(db.space.txIndex) \in Nat
    BY DEF ReplicaSound, SinkSound, SinkHas
  <1>3. checkpoint' \in Nat /\ checkpoint' <= Len(db.space.txIndex)
    BY <1>1, <1>2
  <1>4. rep' \in [Replicator -> {Resting}]
    BY <1>1
  <1>5. \A w \in Replicator : WorkerSound(rep'[w], VisibleIds, Len(db.space.txIndex))
    BY <1>1, <1>2, RestingSound
  <1>6. VisibleIds' = VisibleIds /\ SourceSound' /\ SinkSound'
    BY <1>1 DEF ReplicaSound, SourceSound, SinkSound, VisibleIds, Visible
  <1> QED
    BY <1>1, <1>3, <1>4, <1>5, <1>6 DEF ReplicaSound

(* Every step keeps the invariant. *)
LEMMA ReplicaStepKeeps ==
  ASSUME ReplicaSound, ReplicaStep, src' = src
  PROVE  ReplicaSound' /\ Len(db.space.txIndex) <= Len(db'.space.txIndex)
  <1>1. Len(db.space.txIndex) <= Len(db.space.txIndex)
    BY DEF ReplicaSound, SinkSound, SinkHas
  <1>2. CASE ReplicaCrash
    BY <1>1, <1>2, CrashKeeps
  <1>3. ASSUME NEW w \in Replicator, ReplicatorStep(w)
        PROVE  ReplicaSound' /\ Len(db.space.txIndex) <= Len(db'.space.txIndex)
    <2>1. CASE Load(w)
      BY <1>1, <2>1, LoadKeeps
    <2>2. CASE Pull(w)
      BY <1>1, <2>2, PullKeeps
    <2>3. CASE PullsNothing(w) \/ SinkDiverges(w)
      BY <1>1, <2>3, EndsKeeps
    <2>4. CASE SinkUnknown(w) \/ SinkKnown(w)
      BY <1>1, <2>4, SinkReadKeeps
    <2>5. CASE SinkAppend(w)
      BY <2>5, SinkAppendKeeps
    <2>6. CASE Save(w)
      BY <1>1, <2>6, SaveKeeps
    <2> QED
      BY <1>3, <2>1, <2>2, <2>3, <2>4, <2>5, <2>6 DEF ReplicatorStep
  <1> QED
    BY <1>2, <1>3 DEF ReplicaStep

(* The initial state. *)
LEMMA ReplicaInitSound ==
  ASSUME PublisherInit, ReplicaInit
  PROVE  ReplicaSound /\ VisibleIds = <<>> /\ SinkIds = <<>>
  <1>1. src = EmptySpace /\ EmptySpace \in Space
    BY EmptySpaceType DEF PublisherInit
  <1>2. VisibleIds = <<>>
    BY <1>1, NothingYet DEF VisibleIds, Visible, SeenIds
  <1>3. db.space.txIndex = <<>> /\ db.space.idem = {}
    BY DEF ReplicaInit, DbInit, EmptyDb, EmptySpace
  <1>4. SourceSound
    BY <1>1, <1>2 DEF SourceSound, Distinct
  <1>5. SinkSound
    <2>1. db.space.txIndex \in Seq({}) /\ Len(db.space.txIndex) = 0 /\ Len(VisibleIds) = 0
      BY <1>2, <1>3
    <2> QED
      BY <1>3, <2>1 DEF SinkSound, SinkHas
  <1>6. checkpoint = 0 /\ rep = [w \in Replicator |-> Resting] /\ Len(db.space.txIndex) = 0
    BY <1>3 DEF ReplicaInit
  <1>7. rep \in [Replicator -> {Resting}] /\ \A w \in Replicator : WorkerSound(rep[w], VisibleIds, 0)
    BY <1>6, RestingSound
  <1>8. SinkIds = <<>>
    BY <1>3 DEF SinkIds
  <1> QED
    <2>1. checkpoint \in Nat /\ checkpoint <= Len(db.space.txIndex)
      BY <1>6
    <2>2. \E S : rep \in [Replicator -> S]
      BY <1>7
    <2>3. \A w \in Replicator : WorkerSound(rep[w], VisibleIds, Len(db.space.txIndex))
      BY <1>6, <1>7
    <2> QED
      BY <1>2, <1>4, <1>5, <1>8, <2>1, <2>2, <2>3, Zenon DEF ReplicaSound

(* A step that changes nothing changes no part of the invariant or of the mapping. *)
LEMMA ReplicaStutters ==
  ASSUME UNCHANGED replicaVars
  PROVE  /\ ReplicaSound => ReplicaSound'
         /\ VisibleIds' = VisibleIds /\ SinkIds' = SinkIds
  BY DEF replicaVars, ReplicaSound, SourceSound, SinkSound, VisibleIds, Visible, SinkIds

-----------------------------------------------------------------------------
(* Theorems *)

(* Whatever the publisher appends and however the replicators run, race and   *)
(* are restarted: the sink has the first of what the principal can see, once  *)
(* each and in order, and every replicator's bundles continue it.             *)
THEOREM ReplicaStates == ReplicaSpec => []ReplicaSound
  <1>1. PublisherInit /\ ReplicaInit => ReplicaSound
    BY ReplicaInitSound
  <1>2. ReplicaSound /\ [ReplicaNext]_replicaVars => ReplicaSound'
    BY PublishNewKeeps, ReplicaStepKeeps, ReplicaStutters DEF ReplicaNext
  <1> QED
    BY <1>1, <1>2, PTL DEF ReplicaSpec

(* No checkpoint, and no position of a replicator, is ahead of the sink.      *)
THEOREM CheckpointStaysBacked == ReplicaSpec => []CheckpointBacked
  <1>1. ReplicaSound => CheckpointBacked
    BY DEF ReplicaSound, WorkerSound, CheckpointBacked
  <1> QED
    BY <1>1, ReplicaStates, PTL

(* The ids in the sink are the first ids that can be seen. *)
SinkIsPrefix ==
  /\ SinkIds = SubSeq(VisibleIds, 1, Len(db.space.txIndex))
  /\ Len(SinkIds) = Len(db.space.txIndex)
  /\ Len(db.space.txIndex) \in Nat /\ Len(db.space.txIndex) <= Len(VisibleIds)

(* The transactions of the sink are a prefix of the visible ones of the source. *)
LEMMA SinkCopies == ReplicaSound => SinkIsPrefix
  <1> SUFFICES ASSUME ReplicaSound PROVE SinkIsPrefix
    OBVIOUS
  <1> DEFINE n == Len(db.space.txIndex)
             P == SubSeq(VisibleIds, 1, n)
  <1>1. VisibleIds \in Seq(TxId) /\ Len(VisibleIds) \in Nat
    BY VisibleIdsType DEF ReplicaSound, SourceSound
  <1>2. /\ n \in Nat /\ n <= Len(VisibleIds) /\ DOMAIN db.space.txIndex = 1 .. n
        /\ \A i \in 1 .. n : db.space.txIndex[i].tx = VisibleIds[i]
    BY DEF ReplicaSound, SinkSound, SinkHas
  <1>3. P \in Seq(TxId) /\ Len(P) = n /\ \A i \in 1 .. n : P[i] = VisibleIds[i]
    BY <1>1, <1>2, PrefixProperties
  <1>4. SinkIds = [i \in 1 .. n |-> VisibleIds[i]]
    BY <1>2 DEF SinkIds
  <1> HIDE DEF n, P
  <1>5. [i \in 1 .. n |-> VisibleIds[i]] = P
    BY <1>2, <1>3
  <1>6. Len(SinkIds) = n
    BY <1>3, <1>4, <1>5
  <1> QED
    BY <1>2, <1>4, <1>5, <1>6 DEF n, P, SinkIsPrefix

(* The sink follows the log: nothing is skipped, repeated, put before what    *)
(* came earlier, or taken back.                                               *)
THEOREM ReplicaImplementsFollower == ReplicaSpec => Replicates!Spec
  <1>1. PublisherInit /\ ReplicaInit => Replicates!Init
    BY ReplicaInitSound DEF Replicates!Init
  <1>2. ReplicaSound /\ SinkIsPrefix /\ SinkIsPrefix' /\ [ReplicaNext]_replicaVars
          => [Replicates!Next]_<<VisibleIds, SinkIds>>
    <2> SUFFICES ASSUME ReplicaSound, SinkIsPrefix, SinkIsPrefix', [ReplicaNext]_replicaVars
                 PROVE  Replicates!Next \/ UNCHANGED <<VisibleIds, SinkIds>>
      OBVIOUS
    <2>1. CASE UNCHANGED replicaVars
      BY <2>1, ReplicaStutters
    <2>2. CASE PublishNew /\ UNCHANGED <<db, checkpoint, rep, refusals, faults>>
      <3>1. SinkIds' = SinkIds
        BY <2>2 DEF SinkIds
      <3>2. VisibleIds' = VisibleIds \/ \E t \in TxId : VisibleIds' = Append(VisibleIds, t)
        BY <2>2, PublishNewKeeps
      <3> QED
        BY <3>1, <3>2 DEF Replicates!Next, Replicates!Grow
    <2>3. CASE ReplicaStep /\ UNCHANGED src
      <3> DEFINE n == Len(db'.space.txIndex)
      <3>1. VisibleIds' = VisibleIds
        BY <2>3 DEF VisibleIds, Visible
      <3>2. SinkIds' = SubSeq(VisibleIds', 1, n) /\ n \in Nat /\ n <= Len(VisibleIds')
        BY DEF SinkIsPrefix
      <3>3. Len(SinkIds) = Len(db.space.txIndex) /\ Len(SinkIds) \in Nat /\ Len(db.space.txIndex) <= n
        BY <2>3, ReplicaStepKeeps DEF SinkIsPrefix
      <3> HIDE DEF n
      <3>4. n \in Len(SinkIds) .. Len(VisibleIds) /\ SinkIds' = SubSeq(VisibleIds, 1, n)
        BY <3>1, <3>2, <3>3
      <3> QED
        BY <3>1, <3>4, Zenon DEF Replicates!Next, Replicates!Copy
    <2> QED
      BY <2>1, <2>2, <2>3 DEF ReplicaNext
  <1> QED
    BY <1>1, <1>2, ReplicaStates, SinkCopies, PTL DEF ReplicaSpec, Replicates!Spec

-----------------------------------------------------------------------------
(* The notes replica and mesh-app watch *)

(* Applications append, whatever they want, and one of the two follows. *)
NotesNext == \/ (\E r \in AppendRequest : Publish(r)) /\ UNCHANGED <<sub, mode, replica, watch, stops>>
             \/ NotesStep

NotesSpec == PublisherInit /\ HttpInit /\ (NotesInit \/ WatchInit) /\ [][NotesNext]_notesVars

-----------------------------------------------------------------------------
(* The inductive invariants *)

CursorFrame(c) == [kind |-> "cursor", cursor |-> c]
TxFrame(txs)   == [kind |-> "txBundles", txs |-> txs]

(* A reader who has the first k can go on with what the stream holds, and     *)
(* then has all before the position of the stream.                            *)
Pipe(k) ==
  \E is \in {"off", "open", "hung"}, at \in 0 .. Total, frames \in {sub.frames} :
    /\ sub = [is |-> is, at |-> at, frames |-> frames]
    /\ \/ frames \in {<<>>, <<CursorFrame(at)>>} /\ at <= k
       \/ \E a \in 0 .. k : a <= at /\ frames = <<TxFrame(Piece(a, at)), CursorFrame(at)>>

NoWatch == [alive |-> FALSE, from |-> 0, printed |-> <<>>]

(* What watch printed are the first that can be pulled, those before from     *)
(* among them.                                                                *)
Watching ==
  /\ replica = [Starting EXCEPT !.phase = "off"]
  /\ \E k \in 0 .. Total, from \in 0 .. Total :
       /\ from <= k
       /\ watch = [alive |-> TRUE, from |-> from, printed |-> Pulled(k)]
       /\ Pipe(k)

(* No two of the changes a principal sees say the same. *)
AllDiffer == \A i, j \in 1 .. Total : Key(CommandOfTx(VisibleIds[i])) = Key(CommandOfTx(VisibleIds[j])) => i = j

KeysUpTo(k) == {Key(CommandOfTx(VisibleIds[i])) : i \in 1 .. k}

(* A replica that has applied the first k of the log. *)
ReplicaAt(phase, cursor, k, poll) ==
  [phase |-> phase, cursor |-> cursor, seen |-> KeysUpTo(k),
   notes |-> ServerNotes(SubSeq(VisibleIds, 1, k)), applied |-> SubSeq(VisibleIds, 1, k), poll |-> poll]

(* A poll was sent from where the replica has been, and brings what is next.  *)
PollSound(poll, k) ==
  \/ poll = NoPoll
  \/ \E a \in 0 .. k : poll = [is |-> "sent", from |-> a]
  \/ \E a \in 0 .. k, e \in 0 .. Total :
       a <= e /\ poll = [is |-> "answered", answer |-> [txs |-> Piece(a, e), after |-> e]]

Replicating ==
  \E phase \in {"bootstrap", "running"}, k \in 0 .. Total, cursor \in 0 .. Total, poll \in {replica.poll} :
    /\ cursor <= k
    /\ replica = ReplicaAt(phase, cursor, k, poll)
    /\ PollSound(poll, k)
    /\ Pipe(k)

WatchSound == src \in Space /\ (Watching \/ watch = NoWatch)

NotesSound == src \in Space /\ (Watching \/ (watch = NoWatch /\ (AllDiffer => Replicating)))

-----------------------------------------------------------------------------
(* The stream *)

(* A stream that is there goes on as before when something is published. *)
LEMMA PipeGrows ==
  ASSUME src \in Space, NEW k, Pipe(k), k \in 0 .. Total,
         NEW r \in AppendRequest, Publish(r), sub' = sub
  PROVE  Pipe(k)'
  <1>1. /\ Total \in Nat /\ Total' \in Nat /\ Total <= Total'
        /\ \A a, e \in Nat : a <= e /\ e <= Total => Piece(a, e)' = Piece(a, e)
    BY PieceStays
  <1>2. PICK is \in {"off", "open", "hung"}, at \in 0 .. Total :
          /\ sub = [is |-> is, at |-> at, frames |-> sub.frames]
          /\ \/ sub.frames \in {<<>>, <<CursorFrame(at)>>} /\ at <= k
             \/ \E a \in 0 .. k : a <= at /\ sub.frames = <<TxFrame(Piece(a, at)), CursorFrame(at)>>
    BY DEF Pipe
  <1>3. at \in 0 .. Total'
    BY <1>1
  <1>4. \/ sub.frames \in {<<>>, <<CursorFrame(at)>>} /\ at <= k
        \/ \E a \in 0 .. k : a <= at /\ sub.frames = <<TxFrame(Piece(a, at)'), CursorFrame(at)>>
    <2>1. CASE sub.frames \in {<<>>, <<CursorFrame(at)>>} /\ at <= k
      BY <2>1
    <2>2. CASE \E a \in 0 .. k : a <= at /\ sub.frames = <<TxFrame(Piece(a, at)), CursorFrame(at)>>
      <3>1. PICK a \in 0 .. k : a <= at /\ sub.frames = <<TxFrame(Piece(a, at)), CursorFrame(at)>>
        BY <2>2
      <3>2. a \in Nat /\ at \in Nat /\ at <= Total
        BY <1>1
      <3>3. Piece(a, at)' = Piece(a, at)
        BY <1>1, <3>1, <3>2
      <3> QED
        BY <3>1, <3>3
    <2> QED
      BY <1>2, <2>1, <2>2
  <1> QED
    BY <1>2, <1>3, <1>4 DEF Pipe

(* No stream, and one that is just there. *)
LEMMA EmptyPipe ==
  ASSUME NEW k, NEW is \in {"off", "open", "hung"}, NEW at \in 0 .. Total, at <= k,
         sub = [is |-> is, at |-> at, frames |-> <<>>]
  PROVE  Pipe(k)
  BY DEF Pipe

(* A stream goes on by a round, or ends. *)
LEMMA TransportKeeps ==
  ASSUME src \in Space, src' = src, NEW k, Pipe(k), k \in 0 .. Total,
         StreamRound \/ BreakStream \/ \E m \in Modes : SetMode(m)
  PROVE  Pipe(k)'
  <1>1. Total \in Nat /\ Total' = Total /\ (\A a, e : Piece(a, e)' = Piece(a, e))
    BY PulledProperties DEF Total, Piece
  <1>2. CASE sub' = NoStream
    <2>1. 0 \in 0 .. Total /\ 0 <= k
      BY <1>1
    <2> QED
      BY <1>1, <1>2, <2>1 DEF NoStream, Pipe
  <1>3. CASE sub' = sub
    BY <1>1, <1>3 DEF Pipe
  <1>4. CASE StreamRound
    <2>1. PICK is \in {"off", "open", "hung"}, at \in 0 .. Total :
            sub = [is |-> is, at |-> at, frames |-> sub.frames] /\ at <= k
      <3>1. sub.frames = <<>>
        BY <1>4 DEF StreamRound
      <3>2. \A a, b : <<>> # <<a, b>>
        OBVIOUS
      <3> QED
        BY <3>1, <3>2 DEF Pipe
    <2> DEFINE pulled(fits) == SyncPull(src, Hidden, at, StreamLimit, fits)
    <2>2. PICK fits \in StreamFits :
            /\ pulled(fits).txs # <<>>
            /\ sub' = [sub EXCEPT !.at = pulled(fits).after,
                                  !.frames = <<TxFrame(pulled(fits).txs), CursorFrame(pulled(fits).after)>>]
      <3>1. sub.at = at
        BY <2>1
      <3> QED
        BY <1>4, <3>1 DEF StreamRound, TxFrame, CursorFrame
    <2>3. at \in Nat /\ fits \in Nat \ {0} /\ StreamLimit \in Nat /\ at <= Total
      BY <1>1, HttpConstants
    <2>4. PICK e \in 0 .. Total : pulled(fits).after = e /\ at <= e /\ pulled(fits).txs = Piece(at, e)
      <3>1. PullsNext(pulled(fits), Pullable(src, Hidden), Total, at)
        BY <2>3, PullProperties DEF Total
      <3> HIDE DEF pulled
      <3>2. /\ pulled(fits).after \in 0 .. Total /\ at <= pulled(fits).after
            /\ pulled(fits).txs = Piece(at, pulled(fits).after)
        BY <1>1, <2>3, <3>1 DEF PullsNext, Piece
      <3> QED
        BY <3>2
    <2> HIDE DEF pulled
    <2>5. sub' = [is |-> is, at |-> e, frames |-> <<TxFrame(Piece(at, e)), CursorFrame(e)>>]
      <3> DEFINE two == <<TxFrame(Piece(at, e)), CursorFrame(e)>>
      <3>1. sub' = [sub EXCEPT !.at = e, !.frames = two]
        BY <2>2, <2>4
      <3> HIDE DEF two
      <3>a. PICK frames : sub = [is |-> is, at |-> at, frames |-> frames]
        BY <2>1
      <3>2. sub' = [is |-> is, at |-> e, frames |-> two]
        BY <3>a, <3>1
      <3> QED
        BY <3>2 DEF two
    <2>6. at \in 0 .. k /\ e \in 0 .. Total'
      BY <1>1, <2>1, <2>4
    <2>7. Piece(at, e)' = Piece(at, e)
      BY <1>1
    <2>8. /\ sub' = [is |-> is, at |-> e, frames |-> sub'.frames]
          /\ sub'.frames = <<TxFrame(Piece(at, e)'), CursorFrame(e)>>
      BY <2>5, <2>7
    <2> QED
      BY <2>4, <2>6, <2>8 DEF Pipe
  <1> QED
    BY <1>2, <1>3, <1>4 DEF BreakStream, SetMode

(* A reader subscribes from where it has been. *)
LEMMA SubscribesKeeps ==
  ASSUME src \in Space, src' = src, NEW k, k \in 0 .. Total,
         NEW from \in 0 .. k, SubscribeFrom(from)
  PROVE  Pipe(k)'
  <1>1. Total \in Nat /\ Total' = Total
    BY PulledProperties DEF Total
  <1>2. from \in 0 .. Total' /\ from <= k
    BY <1>1
  <1>3. \E is \in {"off", "open", "hung"} : sub' = [is |-> is, at |-> from, frames |-> <<>>]
    BY DEF SubscribeFrom
  <1> QED
    BY <1>2, <1>3 DEF Pipe

(* A reader of bundles gets what follows what it has, or it has already, and  *)
(* then has all before the cursor.                                            *)
LEMMA ReadsBundles ==
  ASSUME src \in Space, src' = src, NEW k, Pipe(k), k \in 0 .. Total,
         HasFrame("txBundles"), ReadFrame
  PROVE  \E a \in 0 .. k, e \in 0 .. Total :
           a <= e /\ Head(sub.frames).txs = Piece(a, e) /\ Pipe(Greatest(k, e))'
  <1>1. Total \in Nat /\ Total' = Total
    BY PulledProperties DEF Total
  <1>2. PICK is \in {"off", "open", "hung"}, at \in 0 .. Total :
          /\ sub = [is |-> is, at |-> at, frames |-> sub.frames]
          /\ \/ sub.frames \in {<<>>, <<CursorFrame(at)>>} /\ at <= k
             \/ \E a \in 0 .. k : a <= at /\ sub.frames = <<TxFrame(Piece(a, at)), CursorFrame(at)>>
    BY DEF Pipe
  <1>3. PICK a \in 0 .. k : a <= at /\ sub.frames = <<TxFrame(Piece(a, at)), CursorFrame(at)>>
    <2>1. sub.frames # <<CursorFrame(at)>>
      BY DEF HasFrame, CursorFrame
    <2> QED
      BY <1>2, <2>1 DEF HasFrame
  <1>4. Head(sub.frames).txs = Piece(a, at)
    BY <1>3 DEF TxFrame
  <1>5. sub' = [is |-> is, at |-> at, frames |-> <<CursorFrame(at)>>]
    BY <1>2, <1>3 DEF ReadFrame
  <1>6. at <= Greatest(k, at)
    BY DEF Greatest
  <1>7. Pipe(Greatest(k, at))'
    BY <1>1, <1>5, <1>6 DEF Pipe
  <1> QED
    BY <1>3, <1>4, <1>7

(* A cursor that is read is one the reader has reached. *)
LEMMA ReadsCursor ==
  ASSUME src \in Space, src' = src, NEW k, Pipe(k), k \in 0 .. Total,
         HasFrame("cursor"), ReadFrame
  PROVE  Head(sub.frames).cursor \in 0 .. k /\ Pipe(k)'
  <1>1. Total \in Nat /\ Total' = Total
    BY PulledProperties DEF Total
  <1>2. PICK is \in {"off", "open", "hung"}, at \in 0 .. Total :
          /\ sub = [is |-> is, at |-> at, frames |-> sub.frames]
          /\ \/ sub.frames \in {<<>>, <<CursorFrame(at)>>} /\ at <= k
             \/ \E a \in 0 .. k : a <= at /\ sub.frames = <<TxFrame(Piece(a, at)), CursorFrame(at)>>
    BY DEF Pipe
  <1>3. sub.frames = <<CursorFrame(at)>> /\ at <= k
    <2>1. \A a : sub.frames # <<TxFrame(Piece(a, at)), CursorFrame(at)>>
      BY DEF HasFrame, TxFrame
    <2> QED
      BY <1>2, <2>1 DEF HasFrame
  <1>4. Head(sub.frames).cursor = at
    BY <1>3 DEF CursorFrame
  <1>5. sub' = [is |-> is, at |-> at, frames |-> <<>>]
    BY <1>2, <1>3 DEF ReadFrame
  <1>6. Pipe(k)'
    BY <1>1, <1>3, <1>5 DEF Pipe
  <1> QED
    BY <1>3, <1>4, <1>6

-----------------------------------------------------------------------------
(* mesh-app watch *)

(* To append to the second of two sequences is to append to both. *)
LEMMA AppendLast ==
  ASSUME NEW S, NEW s \in Seq(S), NEW t \in Seq(S), NEW x \in S
  PROVE  s \o Append(t, x) = Append(s \o t, x)
  OBVIOUS

(* What watch prints of a piece makes what it printed what can be pulled. *)
LEMMA PrintsPiece ==
  ASSUME src \in Space, NEW k \in 0 .. Total, watch.printed = Pulled(k),
         NEW a \in 0 .. k, NEW e \in 0 .. Total, a <= e
  PROVE  watch.printed \o Unprinted(Piece(a, e)) = Pulled(Greatest(k, e))
  <1> DEFINE P   == Pullable(src, Hidden)
             txs == Piece(a, e)
             L   == e - a
             at  == {i \in Nat : \A j \in DOMAIN watch.printed : watch.printed[j] # txs[i]}
  <1>1. /\ Total \in Nat /\ P \in Seq(Frame) /\ Len(P) = Total
        /\ Pulled(k) \in Seq(Frame) /\ Len(Pulled(k)) = k /\ \A i \in 1 .. k : Pulled(k)[i] = P[i]
    BY PulledProperties
  <1>2. \A i \in 1 .. Total : P[i].cursor = i
    <2>1. \A i \in 1 .. Total : P[i] = [cursor |-> i, tx |-> VisibleTxs(src, Hidden)[i].tx]
      BY PullableProperties, Zenon DEF Total
    <2> SUFFICES ASSUME NEW i \in 1 .. Total PROVE P[i].cursor = i
      OBVIOUS
    <2> HIDE DEF P
    <2>2. \E x : P[i] = [cursor |-> i, tx |-> x]
      BY <2>1, Zenon
    <2> QED
      BY <2>2
  <1>3. /\ txs \in Seq(Frame) /\ Len(txs) = L /\ L \in Nat
        /\ \A i \in 1 .. L : a + i \in 1 .. Total /\ txs[i] = P[a + i]
    <2>1. a \in Nat /\ e \in Nat /\ e <= Total /\ L \in Nat
      BY <1>1
    <2> QED
      BY <2>1, PieceProperties
  <1>4. PICK new : new = FilterBody(new, txs, at, Nat) /\ Unprinted(txs) = new[L]
    <2> DEFINE Body(u) == [i \in Nat |->
                  IF i = 0 THEN <<>>
                  ELSE IF \A j \in DOMAIN watch.printed : watch.printed[j] # txs[i]
                    THEN Append(u[i - 1], txs[i]) ELSE u[i - 1]]
    <2>1. ASSUME NEW u PROVE Body(u) = FilterBody(u, txs, at, Nat)
      BY DEF FilterBody
    <2>2. Unprinted(txs) = (CHOOSE u : u = Body(u))[L]
      BY <1>3 DEF Unprinted
    <2> HIDE DEF Body, txs, at, L
    <2>3. \E u : u = FilterBody(u, txs, at, Nat)
      BY FilterDefined, Zenon
    <2>4. (CHOOSE u : u = Body(u)) = Body(CHOOSE u : u = Body(u))
      BY <2>1, <2>3, Zenon
    <2> QED
      BY <2>1, <2>2, <2>4, Zenon
  <1>5. \A i \in 1 .. L : i \in at <=> a + i > k
    <2> SUFFICES ASSUME NEW i \in 1 .. L PROVE i \in at <=> a + i > k
      OBVIOUS
    <2>1. DOMAIN watch.printed = 1 .. k /\ \A j \in 1 .. k : watch.printed[j] = P[j]
      BY <1>1
    <2>2. a + i \in 1 .. Total /\ txs[i] = P[a + i] /\ P[a + i].cursor = a + i
      BY <1>2, <1>3
    <2>3. \A j \in 1 .. k : j \in 1 .. Total /\ P[j].cursor = j
      BY <1>1, <1>2
    <2> HIDE DEF P, txs
    <2>4. ASSUME a + i > k, NEW j \in 1 .. k PROVE watch.printed[j] # txs[i]
      <3>1. P[j] # P[a + i]
        BY <2>2, <2>3, <2>4
      <3> QED
        BY <2>1, <2>2, <3>1
    <2>5. ASSUME ~(a + i > k) PROVE \E j \in 1 .. k : watch.printed[j] = txs[i]
      <3>1. a + i \in 1 .. k
        BY <2>2, <2>5
      <3> QED
        BY <2>1, <2>2, <3>1
    <2>6. i \in Nat
      OBVIOUS
    <2> QED
      BY <2>1, <2>4, <2>5, <2>6
  <1> DEFINE Upto(i) == SubSeq(P, 1, Greatest(k, a + i))
             M == {i \in Nat : i <= L => new[i] \in Seq(Frame) /\ Pulled(k) \o new[i] = Upto(i)}
  <1>6. 0 \in M
    <2>1. new[0] = <<>>
      BY <1>4 DEF FilterBody
    <2>2. Greatest(k, a + 0) = k
      BY <1>1 DEF Greatest
    <2>3. Pulled(k) = Upto(0)
      BY <2>2 DEF Pulled
    <2>4. Pulled(k) \o <<>> = Pulled(k) /\ <<>> \in Seq(Frame)
      BY <1>1
    <2> QED
      BY <2>1, <2>3, <2>4
  <1>7. ASSUME NEW i \in Nat, i \in M PROVE i + 1 \in M
    <2> HIDE DEF at, txs, P, L, Upto
    <2> SUFFICES ASSUME i + 1 <= L
                 PROVE  new[i + 1] \in Seq(Frame) /\ Pulled(k) \o new[i + 1] = Upto(i + 1)
      OBVIOUS
    <2>1. new[i] \in Seq(Frame) /\ Pulled(k) \o new[i] = Upto(i)
      BY <1>3, <1>7
    <2>2. i + 1 \in 1 .. L /\ i + 1 \in Nat /\ i + 1 # 0 /\ (i + 1) - 1 = i
      BY <1>3
    <2>3. new[i + 1] = IF i + 1 \in at THEN Append(new[i], txs[i + 1]) ELSE new[i]
      BY <1>4, <2>2 DEF FilterBody
    <2>4. i + 1 \in at <=> a + (i + 1) > k
      BY <1>5, <2>2
    <2>5. a + (i + 1) \in 1 .. Total /\ txs[i + 1] = P[a + (i + 1)] /\ txs[i + 1] \in Frame
      BY <1>3, <2>2
    <2> HIDE DEF M
    <2>6. CASE i + 1 \in at
      <3> DEFINE g == Greatest(k, a + i)
      <3>1. g \in Nat /\ g = a + i /\ Greatest(k, a + (i + 1)) = g + 1 /\ g + 1 <= Len(P)
        BY <1>1, <2>4, <2>5, <2>6 DEF Greatest
      <3>2. SubSeq(P, 1, g + 1) = Append(SubSeq(P, 1, g), P[g + 1])
        <4> HIDE DEF g
        <4> QED
          BY <1>1, <3>1, PrefixNext
      <3>3. Upto(i) = SubSeq(P, 1, g) /\ Upto(i + 1) = SubSeq(P, 1, g + 1) /\ txs[i + 1] = P[g + 1]
        <4>1. a + (i + 1) = g + 1
          BY <3>1
        <4> QED
          BY <2>5, <3>1, <4>1 DEF Upto
      <3> HIDE DEF g
      <3>4. Pulled(k) \o Append(new[i], txs[i + 1]) = Append(Pulled(k) \o new[i], txs[i + 1])
        <4>1. Pulled(k) \in Seq(Frame)
          BY <1>1
        <4>2. new[i] \in Seq(Frame)
          BY <2>1
        <4>3. txs[i + 1] \in Frame
          BY <2>5
        <4> QED
          BY <4>1, <4>2, <4>3, AppendLast
      <3>5. Append(new[i], txs[i + 1]) \in Seq(Frame)
        BY <2>1, <2>5
      <3>6. Append(Pulled(k) \o new[i], txs[i + 1]) = Upto(i + 1)
        BY <2>1, <3>2, <3>3
      <3> QED
        BY <2>3, <2>6, <3>4, <3>5, <3>6
    <2>7. CASE i + 1 \notin at
      <3>1. Greatest(k, a + (i + 1)) = Greatest(k, a + i)
        BY <1>1, <2>4, <2>7 DEF Greatest
      <3> QED
        BY <2>1, <2>3, <2>7, <3>1 DEF Upto
    <2> QED
      BY <2>6, <2>7
  <1>8. L \in M
    <2> HIDE DEF M
    <2> QED
      BY <1>3, <1>6, <1>7, NatInduct
  <1>9. a + L = e
    BY <1>1
  <1>10. Pulled(k) \o new[L] = Upto(L)
    <2> HIDE DEF Upto
    <2> QED
      BY <1>3, <1>8
  <1>11. Upto(L) = Pulled(Greatest(k, e))
    BY <1>9 DEF Pulled
  <1> QED
    BY <1>4, <1>10, <1>11

(* The larger of two positions is one. *)
LEMMA GreatestIs ==
  ASSUME NEW n \in Nat, NEW k \in 0 .. n, NEW e \in 0 .. n
  PROVE  Greatest(k, e) \in 0 .. n /\ k <= Greatest(k, e) /\ e <= Greatest(k, e)
  BY DEF Greatest

(* What a step of watch, of its stream or of the replica that is not there    *)
(* leaves watch with.                                                         *)
LEMMA WatchStepKeeps ==
  ASSUME src \in Space, Watching, NotesStep
  PROVE  src' = src /\ Watching'
  <1>1. PICK k \in 0 .. Total, from \in 0 .. Total :
          /\ from <= k
          /\ watch = [alive |-> TRUE, from |-> from, printed |-> Pulled(k)]
          /\ Pipe(k)
    BY DEF Watching
  <1>2. replica = [Starting EXCEPT !.phase = "off"]
    BY DEF Watching
  <1>3. replica.phase = "off" /\ replica.poll.is = "idle" /\ replica.poll = NoPoll
    BY <1>2 DEF Starting, NoPoll
  <1>4. \/ WatchSubscribes \/ WatchPrints \/ WatchMoves \/ WatchDies \/ Transport
    BY <1>3 DEF NotesStep, Bootstrap, BootstrapRefused, Poll, PollServed, PollBroken, PollAnswered,
                ReplicaSubscribes, ReplicaReadsBundles, ReplicaReadsCursor, ReplicaRestarts
  <1>5. src' = src /\ replica' = replica
    BY <1>4 DEF WatchSubscribes, WatchPrints, WatchMoves, WatchDies, Transport
  <1>6. Total \in Nat /\ Total' = Total /\ (\A j : Pulled(j)' = Pulled(j))
    BY <1>5, PulledProperties DEF Total, Pulled
  <1>7. ASSUME NEW j \in 0 .. Total, NEW c \in 0 .. Total, c <= j,
               watch' = [alive |-> TRUE, from |-> c, printed |-> Pulled(j)], Pipe(j)'
        PROVE  Watching'
    BY <1>2, <1>5, <1>6, <1>7 DEF Watching
  <1>8. CASE WatchSubscribes
    <2>1. from \in 0 .. k /\ SubscribeFrom(from) /\ watch' = watch
      BY <1>1, <1>6, <1>8 DEF WatchSubscribes
    <2> QED
      BY <1>1, <1>5, <1>7, <2>1, SubscribesKeeps
  <1>9. CASE WatchPrints
    <2>1. HasFrame("txBundles") /\ ReadFrame
      BY <1>9 DEF WatchPrints
    <2>2. PICK a \in 0 .. k, e \in 0 .. Total :
            a <= e /\ Head(sub.frames).txs = Piece(a, e) /\ Pipe(Greatest(k, e))'
      BY <1>1, <1>5, <2>1, ReadsBundles
    <2>3. watch.printed = Pulled(k)
      BY <1>1
    <2>4. watch.printed \o Unprinted(Piece(a, e)) = Pulled(Greatest(k, e))
      BY <2>2, <2>3, PrintsPiece
    <2>5. watch' = [watch EXCEPT !.printed = watch.printed \o Unprinted(Piece(a, e))]
      BY <1>9, <2>2 DEF WatchPrints
    <2>6. watch' = [alive |-> TRUE, from |-> from, printed |-> Pulled(Greatest(k, e))]
      BY <1>1, <2>4, <2>5
    <2>7. Greatest(k, e) \in 0 .. Total /\ from <= Greatest(k, e)
      <3>1. Greatest(k, e) \in 0 .. Total /\ k <= Greatest(k, e)
        BY <1>6, GreatestIs, Zenon
      <3> QED
        BY <1>1, <1>6, <3>1
    <2> QED
      BY <1>5, <1>7, <2>2, <2>6, <2>7, Zenon
  <1>10. CASE WatchMoves
    <2>1. HasFrame("cursor") /\ ReadFrame
      BY <1>10 DEF WatchMoves
    <2>2. Head(sub.frames).cursor \in 0 .. k /\ Pipe(k)'
      BY <1>1, <1>5, <2>1, ReadsCursor
    <2>3. watch' = [alive |-> TRUE, from |-> Head(sub.frames).cursor, printed |-> Pulled(k)]
      BY <1>1, <1>10 DEF WatchMoves
    <2>4. Head(sub.frames).cursor \in 0 .. Total /\ Head(sub.frames).cursor <= k
      BY <1>6, <2>2
    <2> QED
      BY <1>5, <1>7, <2>2, <2>3, <2>4, Zenon
  <1>11. CASE WatchDies
    <2>1. watch' = [alive |-> TRUE, from |-> 0, printed |-> <<>>] /\ sub' = NoStream
      BY <1>11 DEF WatchDies
    <2>2. 0 \in 0 .. Total /\ Pulled(0) = <<>>
      <3>1. 0 \in 0 .. Total
        BY <1>6
      <3>2. Pulled(0) \in Seq(Frame) /\ Len(Pulled(0)) = 0
        BY <3>1, PulledProperties
      <3> QED
        BY <3>1, <3>2, EmptySeq
    <2>3. Pipe(0)'
      BY <1>6, <2>1, <2>2 DEF NoStream, Pipe
    <2>4. 0 <= 0
      OBVIOUS
    <2> QED
      BY <1>5, <1>7, <2>1, <2>2, <2>3, <2>4, Zenon
  <1>12. CASE Transport
    <2>1. StreamRound \/ BreakStream \/ \E m \in Modes : SetMode(m)
      BY <1>12 DEF Transport
    <2>2. Pipe(k)'
      BY <1>1, <1>5, <2>1, TransportKeeps
    <2>3. watch' = watch
      BY <1>12 DEF Transport
    <2> QED
      BY <1>1, <1>5, <1>7, <2>2, <2>3, Zenon
  <1> QED
    BY <1>4, <1>5, <1>8, <1>9, <1>10, <1>11, <1>12

(* What watch has stays right when something is published. *)
LEMMA PublishForWatch ==
  ASSUME src \in Space, Watching, NEW r \in AppendRequest, Publish(r),
         UNCHANGED <<sub, mode, replica, watch, stops>>
  PROVE  Watching'
  <1>1. PICK k \in 0 .. Total, from \in 0 .. Total :
          /\ from <= k
          /\ watch = [alive |-> TRUE, from |-> from, printed |-> Pulled(k)]
          /\ Pipe(k)
    BY DEF Watching
  <1>2. /\ Total \in Nat /\ Total' \in Nat /\ Total <= Total'
        /\ \A j \in 0 .. Total : Pulled(j)' = Pulled(j)
    BY PieceStays
  <1>3. k \in 0 .. Total' /\ from \in 0 .. Total' /\ Pulled(k)' = Pulled(k)
    BY <1>2
  <1>4. Pipe(k)'
    BY <1>1, PipeGrows
  <1>5. replica' = [Starting EXCEPT !.phase = "off"]
    BY DEF Watching
  <1> QED
    BY <1>1, <1>3, <1>4, <1>5 DEF Watching

(* Where there is no watch, it takes no step. *)
LEMMA NoWatchStays ==
  ASSUME watch = NoWatch, NotesStep
  PROVE  src' = src /\ watch' = NoWatch
  BY DEF NotesStep, NoWatch, Bootstrap, BootstrapRefused, Poll, PollServed, PollBroken, PollAnswered,
         ReplicaSubscribes, ReplicaReadsBundles, ReplicaReadsCursor, ReplicaRestarts,
         WatchSubscribes, WatchPrints, WatchMoves, WatchDies, Transport, httpVars

(* An empty log, of which nothing was printed or applied. *)
LEMMA NothingToPull ==
  ASSUME PublisherInit, HttpInit
  PROVE  src \in Space /\ Total = 0 /\ Pulled(0) = <<>> /\ Pipe(0)
  <1>1. src \in Space /\ Total = 0
    BY EmptySpaceType, NothingYet DEF PublisherInit, Total
  <1>2. 0 \in 0 .. Total
    BY <1>1
  <1>3. Pulled(0) \in Seq(Frame) /\ Len(Pulled(0)) = 0
    BY <1>1, <1>2, PulledProperties
  <1>4. Pipe(0)
    BY <1>2 DEF HttpInit, NoStream, Pipe
  <1> QED
    BY <1>1, <1>3, <1>4, EmptySeq

(* However often the stream breaks or the process is started anew, what       *)
(* mesh-app watch has printed is the beginning of what can be pulled, and the *)
(* cursor it resumes from does not pass it (syncSubscribe, its frames, the    *)
(* loop of watch): for every log, limit and order of events.                  *)
THEOREM WatchStaysComplete == NotesSpec => []WatchComplete
  <1>1. PublisherInit /\ HttpInit /\ (NotesInit \/ WatchInit) => WatchSound
    <2> SUFFICES ASSUME PublisherInit, HttpInit, NotesInit \/ WatchInit PROVE WatchSound
      OBVIOUS
    <2>1. src \in Space /\ Total = 0 /\ Pulled(0) = <<>> /\ Pipe(0)
      BY NothingToPull
    <2>2. CASE NotesInit
      BY <2>1, <2>2 DEF NotesInit, NoWatch, WatchSound
    <2>3. CASE WatchInit
      <3>1. 0 \in 0 .. Total /\ 0 <= 0
        BY <2>1
      <3>2. watch = [alive |-> TRUE, from |-> 0, printed |-> Pulled(0)]
        BY <2>1, <2>3, Zenon DEF WatchInit
      <3>3. replica = [Starting EXCEPT !.phase = "off"]
        BY <2>3, Zenon DEF WatchInit
      <3>4. Watching
        BY <2>1, <3>1, <3>2, <3>3, Zenon DEF Watching
      <3> QED
        BY <2>1, <3>4 DEF WatchSound
    <2> QED
      BY <2>2, <2>3
  <1>2. WatchSound /\ [NotesNext]_notesVars => WatchSound'
    <2> SUFFICES ASSUME WatchSound, [NotesNext]_notesVars PROVE WatchSound'
      OBVIOUS
    <2>1. CASE UNCHANGED notesVars
      BY <2>1 DEF notesVars, httpVars, WatchSound, Watching, NoWatch, Pipe, Piece, Pulled, Total
    <2>2. ASSUME NEW r \in AppendRequest, Publish(r), UNCHANGED <<sub, mode, replica, watch, stops>>
          PROVE  WatchSound'
      <3>1. src' \in Space
        BY <2>2, AppendTxType DEF Publish, WatchSound
      <3>2. Watching => Watching'
        BY <2>2, PublishForWatch DEF WatchSound
      <3> QED
        BY <2>2, <3>1, <3>2 DEF WatchSound, NoWatch
    <2>3. CASE NotesStep
      BY <2>3, WatchStepKeeps, NoWatchStays DEF WatchSound
    <2> QED
      BY <2>1, <2>2, <2>3 DEF NotesNext
  <1>3. WatchSound => WatchComplete
    <2> SUFFICES ASSUME WatchSound PROVE WatchComplete
      OBVIOUS
    <2>1. src \in Space
      BY DEF WatchSound
    <2>2. /\ Total \in Nat /\ Delta(0, Visible) = Pullable(src, Hidden)
          /\ \A k \in 0 .. Total : Len(Pulled(k)) = k
      BY <2>1, PulledProperties
    <2>3. \E k \in 0 .. Total, from \in 0 .. Total :
             from <= k /\ watch.from = from /\ watch.printed = Pulled(k)
      <3>1. CASE Watching
        BY <3>1 DEF Watching
      <3>2. CASE watch = NoWatch
        <4>1. 0 \in 0 .. Total
          BY <2>2
        <4>2. Pulled(0) \in Seq(Frame) /\ Len(Pulled(0)) = 0
          BY <2>1, <4>1, PulledProperties
        <4>3. Pulled(0) = <<>>
          BY <4>2, EmptySeq
        <4> QED
          BY <3>2, <4>1, <4>3 DEF NoWatch
      <3> QED
        BY <3>1, <3>2 DEF WatchSound
    <2> QED
      BY <2>2, <2>3 DEF WatchComplete, Pulled
  <1> QED
    BY <1>1, <1>2, <1>3, PTL DEF NotesSpec

-----------------------------------------------------------------------------
(* The notes of a log *)

(* What the recursion of ServerNotes makes of f. *)
NotesBody(f, ids, n) ==
  [i \in 0 .. n |-> IF i = 0 THEN NoNotes ELSE ApplyEvent(f[i - 1], CommandOfTx(ids[i]))]

(* It has a solution. *)
LEMMA NotesDefined ==
  ASSUME NEW ids
  PROVE  \A n \in Nat : \E f : f = NotesBody(f, ids, n)
  <1> DEFINE S == {n \in Nat : \E f : f = NotesBody(f, ids, n)}
  <1>1. 0 \in S
    <2>1. [i \in 0 .. 0 |-> NoNotes] = NotesBody([i \in 0 .. 0 |-> NoNotes], ids, 0)
      BY DEF NotesBody
    <2> QED
      BY <2>1
  <1>2. ASSUME NEW n \in Nat, n \in S PROVE n + 1 \in S
    <2>1. PICK g : g = NotesBody(g, ids, n)
      BY <1>2
    <2> DEFINE h == [i \in 0 .. (n + 1) |->
                       IF i <= n THEN g[i] ELSE ApplyEvent(g[n], CommandOfTx(ids[i]))]
    <2>2. ASSUME NEW i \in 0 .. (n + 1)
          PROVE  h[i] = IF i = 0 THEN NoNotes ELSE ApplyEvent(h[i - 1], CommandOfTx(ids[i]))
      <3>1. i # 0 => i - 1 \in 0 .. n /\ h[i - 1] = g[i - 1]
        OBVIOUS
      <3>2. CASE i <= n
        <4>1. g[i] = IF i = 0 THEN NoNotes ELSE ApplyEvent(g[i - 1], CommandOfTx(ids[i]))
          <5>1. i \in 0 .. n
            BY <3>2
          <5> QED
            BY <2>1, <5>1, Zenon DEF NotesBody
        <4> QED
          BY <3>1, <3>2, <4>1
      <3>3. CASE i = n + 1
        BY <3>1, <3>3
      <3> QED
        BY <3>2, <3>3
    <2>3. h = NotesBody(h, ids, n + 1)
      <3>1. h = [i \in 0 .. (n + 1) |-> h[i]]
        OBVIOUS
      <3> HIDE DEF h
      <3> QED
        BY <2>2, <3>1, Zenon DEF NotesBody
    <2> QED
      BY <2>3
  <1> HIDE DEF S
  <1>3. \A n \in Nat : n \in S
    BY <1>1, <1>2, NatInduct
  <1> QED
    BY <1>3 DEF S

(* Two solutions agree as long as the logs do. *)
LEMMA NotesUnique ==
  ASSUME NEW ids, NEW jds, NEW n \in Nat, NEW m \in Nat, NEW k \in Nat, k <= n, k <= m,
         NEW f, f = NotesBody(f, ids, n), NEW g, g = NotesBody(g, jds, m),
         \A i \in 1 .. k : ids[i] = jds[i]
  PROVE  f[k] = g[k]
  <1> DEFINE S == {i \in Nat : i <= k => f[i] = g[i]}
  <1>1. 0 \in S
    <2>1. 0 \in 0 .. n /\ 0 \in 0 .. m
      OBVIOUS
    <2>2. f[0] = NoNotes /\ g[0] = NoNotes
      BY <2>1 DEF NotesBody
    <2> QED
      BY <2>2
  <1>2. ASSUME NEW i \in Nat, i \in S PROVE i + 1 \in S
    <2> SUFFICES ASSUME i + 1 <= k PROVE f[i + 1] = g[i + 1]
      OBVIOUS
    <2>1. /\ i + 1 \in 0 .. n /\ i + 1 \in 0 .. m /\ i + 1 # 0 /\ (i + 1) - 1 = i
          /\ f[i] = g[i] /\ ids[i + 1] = jds[i + 1]
      BY <1>2
    <2>2. /\ f[i + 1] = ApplyEvent(f[i], CommandOfTx(ids[i + 1]))
          /\ g[i + 1] = ApplyEvent(g[i], CommandOfTx(jds[i + 1]))
      BY <2>1 DEF NotesBody
    <2> QED
      BY <2>1, <2>2
  <1> HIDE DEF S
  <1>3. \A i \in Nat : i \in S
    BY <1>1, <1>2, NatInduct
  <1> QED
    BY <1>3 DEF S

(* The recursion of ServerNotes solves it. *)
LEMMA ServerNotesIs ==
  ASSUME NEW ids, Len(ids) \in Nat
  PROVE  \E f : f = NotesBody(f, ids, Len(ids)) /\ ServerNotes(ids) = f[Len(ids)]
  <1> DEFINE f == CHOOSE u : u = NotesBody(u, ids, Len(ids))
  <1>1. ServerNotes(ids) = f[Len(ids)]
    BY DEF ServerNotes, NotesBody
  <1>2. f = NotesBody(f, ids, Len(ids))
    BY NotesDefined, Zenon
  <1> QED
    BY <1>1, <1>2

(* Of an empty log there are none; the next change is applied to those of the *)
(* log before it.                                                             *)
LEMMA ServerNotesNext ==
  ASSUME NEW S, NEW ids \in Seq(S)
  PROVE  /\ ServerNotes(SubSeq(ids, 1, 0)) = NoNotes
         /\ \A k \in Nat : k + 1 <= Len(ids) =>
              ServerNotes(SubSeq(ids, 1, k + 1))
                = ApplyEvent(ServerNotes(SubSeq(ids, 1, k)), CommandOfTx(ids[k + 1]))
  <1>1. ASSUME NEW k \in 0 .. Len(ids)
        PROVE  /\ Len(SubSeq(ids, 1, k)) = k
               /\ \A i \in 1 .. k : SubSeq(ids, 1, k)[i] = ids[i]
               /\ \E f : f = NotesBody(f, SubSeq(ids, 1, k), k) /\ ServerNotes(SubSeq(ids, 1, k)) = f[k]
    <2>1. Len(SubSeq(ids, 1, k)) = k /\ \A i \in 1 .. k : SubSeq(ids, 1, k)[i] = ids[i]
      BY PrefixProperties
    <2>2. k \in Nat
      OBVIOUS
    <2> QED
      BY <2>1, <2>2, ServerNotesIs, Zenon
  <1>2. ServerNotes(SubSeq(ids, 1, 0)) = NoNotes
    <2>1. 0 \in 0 .. Len(ids) /\ 0 \in 0 .. 0
      OBVIOUS
    <2>2. PICK f : f = NotesBody(f, SubSeq(ids, 1, 0), 0) /\ ServerNotes(SubSeq(ids, 1, 0)) = f[0]
      BY <1>1, <2>1, Zenon
    <2>3. f[0] = NoNotes
      BY <2>1, <2>2, Zenon DEF NotesBody
    <2> QED
      BY <2>2, <2>3
  <1>3. ASSUME NEW k \in Nat, k + 1 <= Len(ids)
        PROVE  ServerNotes(SubSeq(ids, 1, k + 1))
                 = ApplyEvent(ServerNotes(SubSeq(ids, 1, k)), CommandOfTx(ids[k + 1]))
    <2> DEFINE s == SubSeq(ids, 1, k)
               t == SubSeq(ids, 1, k + 1)
    <2>1. k \in 0 .. Len(ids) /\ k + 1 \in 0 .. Len(ids) /\ k <= k /\ k <= k + 1 /\ k + 1 \in Nat
          /\ (k + 1) - 1 = k /\ k + 1 # 0 /\ k + 1 \in 0 .. (k + 1)
          /\ (\A i \in 1 .. k : i \in 1 .. (k + 1)) /\ k + 1 \in 1 .. (k + 1)
      BY <1>3
    <2>2. /\ \A i \in 1 .. k : s[i] = ids[i]
          /\ \A i \in 1 .. (k + 1) : t[i] = ids[i]
      BY <1>1, <2>1, Zenon
    <2>3. PICK f : f = NotesBody(f, s, k) /\ ServerNotes(s) = f[k]
      BY <1>1, <2>1, Zenon
    <2>4. PICK g : g = NotesBody(g, t, k + 1) /\ ServerNotes(t) = g[k + 1]
      BY <1>1, <2>1, Zenon
    <2> HIDE DEF s, t
    <2>5. f[k] = g[k]
      <3>1. \A i \in 1 .. k : s[i] = t[i]
        BY <2>1, <2>2, Zenon
      <3> QED
        <4>1. k \in Nat /\ k + 1 \in Nat /\ k <= k /\ k <= k + 1
          BY <2>1
        <4>2. f = NotesBody(f, s, k) /\ g = NotesBody(g, t, k + 1)
          BY <2>3, <2>4
        <4> QED
          BY <3>1, <4>1, <4>2, NotesUnique
    <2>6. g[k + 1] = ApplyEvent(g[k], CommandOfTx(t[k + 1]))
      BY <2>1, <2>4 DEF NotesBody
    <2> QED
      BY <2>1, <2>2, <2>3, <2>4, <2>5, <2>6 DEF s, t
  <1> QED
    BY <1>2, <1>3

-----------------------------------------------------------------------------
(* The notes replica applies *)

(* A change is applied if it is the next one, and dropped if it is not new. *)
LEMMA AppliesOne ==
  ASSUME src \in Space, AllDiffer, NEW phase, NEW cursor, NEW poll,
         NEW k \in 0 .. Total, NEW j \in 1 .. Total, j <= k + 1
  PROVE  ApplyUnseen(ReplicaAt(phase, cursor, k, poll), VisibleIds[j])
           = ReplicaAt(phase, cursor, Greatest(k, j), poll)
  <1> DEFINE V == VisibleIds
             r == ReplicaAt(phase, cursor, k, poll)
             c == CommandOfTx(V[j])
  <1>1. V \in Seq(TxId) /\ Len(V) = Total /\ Total \in Nat
    BY VisibleIdsType DEF Total
  <1>2. r.seen = KeysUpTo(k) /\ r.notes = ServerNotes(SubSeq(V, 1, k)) /\ r.applied = SubSeq(V, 1, k)
    BY DEF ReplicaAt
  <1>3. CASE j <= k
    <2>1. Key(c) \in KeysUpTo(k)
      BY <1>3 DEF KeysUpTo
    <2>2. Greatest(k, j) = k
      BY <1>1, <1>3 DEF Greatest
    <2> QED
      BY <1>2, <2>1, <2>2 DEF ApplyUnseen
  <1>4. CASE j = k + 1
    <2>1. Greatest(k, j) = k + 1 /\ k \in Nat /\ k + 1 <= Len(V)
      BY <1>1, <1>4 DEF Greatest
    <2>2. Key(c) \notin KeysUpTo(k)
      <3> SUFFICES ASSUME NEW i \in 1 .. k, Key(c) = Key(CommandOfTx(V[i])) PROVE FALSE
        BY DEF KeysUpTo
      <3>1. i \in 1 .. Total /\ i # j
        BY <1>1, <1>4
      <3> QED
        BY <3>1, Zenon DEF AllDiffer
    <2>3. KeysUpTo(k + 1) = KeysUpTo(k) \cup {Key(c)}
      <3>1. \A i : i \in 1 .. (k + 1) <=> i \in 1 .. k \/ i = k + 1
        BY <2>1
      <3> HIDE DEF V
      <3>2. \A x : x \in KeysUpTo(k + 1) <=> x \in KeysUpTo(k) \/ x = Key(c)
        BY <1>4, <3>1, Zenon DEF KeysUpTo, V
      <3> QED
        BY <3>2, Zenon
    <2>4. SubSeq(V, 1, k + 1) = Append(SubSeq(V, 1, k), V[j])
      BY <1>1, <1>4, <2>1, PrefixNext
    <2>5. ServerNotes(SubSeq(V, 1, k + 1)) = ApplyEvent(ServerNotes(SubSeq(V, 1, k)), c)
      BY <1>1, <1>4, <2>1, ServerNotesNext
    <2>6. ApplyUnseen(r, V[j]) = [r EXCEPT !.seen = r.seen \cup {Key(c)}, !.notes = ApplyEvent(r.notes, c),
                                           !.applied = Append(r.applied, V[j])]
      BY <1>2, <2>2 DEF ApplyUnseen
    <2> HIDE DEF V, c
    <2>7. ApplyUnseen(r, V[j]) =
            [phase |-> phase, cursor |-> cursor, seen |-> KeysUpTo(k + 1),
             notes |-> ServerNotes(SubSeq(V, 1, k + 1)), applied |-> SubSeq(V, 1, k + 1), poll |-> poll]
      BY <1>2, <2>3, <2>4, <2>5, <2>6 DEF ReplicaAt
    <2> QED
      BY <2>1, <2>7 DEF ReplicaAt, V
  <1>5. j <= k \/ j = k + 1
    BY <1>1
  <1> QED
    BY <1>3, <1>4, <1>5

(* A piece that begins at most where the replica has been brings it to the    *)
(* end of the piece, if it was not there.                                     *)
LEMMA AppliesPiece ==
  ASSUME src \in Space, AllDiffer, NEW phase, NEW cursor, NEW poll,
         NEW k \in 0 .. Total, NEW a \in 0 .. k, NEW e \in 0 .. Total, a <= e
  PROVE  ApplyGraphEvents(ReplicaAt(phase, cursor, k, poll), Piece(a, e))
           = ReplicaAt(phase, cursor, Greatest(k, e), poll)
  <1> DEFINE txs     == Piece(a, e)
             L       == e - a
             At(j)   == ReplicaAt(phase, cursor, j, poll)
             Body(f) == [i \in 0 .. L |-> IF i = 0 THEN At(k) ELSE ApplyUnseen(f[i - 1], txs[i].tx)]
             after   == CHOOSE f : f = Body(f)
             g       == [i \in 0 .. L |-> At(Greatest(k, a + i))]
  <1>1. /\ Total \in Nat /\ k \in Nat /\ a \in Nat /\ e \in Nat /\ L \in Nat /\ a + L = e
        /\ k <= Total /\ e <= Total /\ a <= k
    BY PulledProperties
  <1>2. /\ Len(txs) = L
        /\ \A i \in 1 .. L : a + i \in 1 .. Total /\ txs[i].tx = VisibleIds[a + i]
    BY <1>1, PieceProperties
  <1>3. ApplyGraphEvents(At(k), txs) = after[L]
    BY <1>2 DEF ApplyGraphEvents
  <1> HIDE DEF txs, L, At
  <1>4. Greatest(k, a + 0) = k
    BY <1>1 DEF Greatest
  <1>5. ASSUME NEW i \in 1 .. L
        PROVE  ApplyUnseen(At(Greatest(k, a + (i - 1))), txs[i].tx) = At(Greatest(k, a + i))
    <2> DEFINE m == Greatest(k, a + (i - 1))
               j == a + i
    <2>1. i \in Nat /\ j \in 1 .. Total /\ txs[i].tx = VisibleIds[j]
      BY <1>1, <1>2
    <2>2. m \in 0 .. Total /\ j <= m + 1 /\ Greatest(m, j) = Greatest(k, j)
      BY <1>1, <2>1 DEF Greatest
    <2> HIDE DEF m, j
    <2>3. ApplyUnseen(ReplicaAt(phase, cursor, m, poll), VisibleIds[j])
            = ReplicaAt(phase, cursor, Greatest(m, j), poll)
      BY <2>1, <2>2, AppliesOne
    <2> QED
      BY <2>1, <2>2, <2>3 DEF At, m, j
  <1>6. g = Body(g)
    <2>1. ASSUME NEW i \in 0 .. L
          PROVE  g[i] = IF i = 0 THEN At(k) ELSE ApplyUnseen(g[i - 1], txs[i].tx)
      <3>1. CASE i = 0
        BY <1>1, <1>4, <3>1
      <3>2. CASE i # 0
        <4>1. i \in 1 .. L /\ i - 1 \in 0 .. L
          BY <1>1, <3>2
        <4>2. g[i - 1] = At(Greatest(k, a + (i - 1))) /\ g[i] = At(Greatest(k, a + i))
          BY <4>1
        <4> HIDE DEF g
        <4> QED
          BY <1>5, <3>2, <4>1, <4>2
      <3> QED
        BY <3>1, <3>2
    <2>2. g = [i \in 0 .. L |-> g[i]]
      OBVIOUS
    <2> HIDE DEF g
    <2> QED
      BY <2>1, <2>2, Zenon
  <1>7. after = Body(after)
    <2> HIDE DEF g, Body
    <2> QED
      BY <1>6, Zenon
  <1> HIDE DEF after
  <1> DEFINE M == {i \in Nat : i <= L => after[i] = At(Greatest(k, a + i))}
  <1>8. 0 \in M
    <2>1. 0 \in 0 .. L
      BY <1>1
    <2>2. after[0] = At(k)
      BY <1>7, <2>1
    <2> QED
      BY <1>4, <2>2
  <1>9. ASSUME NEW i \in Nat, i \in M PROVE i + 1 \in M
    <2> SUFFICES ASSUME i + 1 <= L PROVE after[i + 1] = At(Greatest(k, a + (i + 1)))
      OBVIOUS
    <2>1. /\ after[i] = At(Greatest(k, a + i)) /\ i + 1 \in 0 .. L /\ i + 1 \in 1 .. L
          /\ i + 1 # 0 /\ (i + 1) - 1 = i
      BY <1>1, <1>9
    <2>2. after[i + 1] = ApplyUnseen(after[i], txs[i + 1].tx)
      BY <1>7, <2>1
    <2>3. ApplyUnseen(At(Greatest(k, a + ((i + 1) - 1))), txs[i + 1].tx) = At(Greatest(k, a + (i + 1)))
      BY <1>5, <2>1, Zenon
    <2> HIDE DEF M, Body
    <2> QED
      BY <2>1, <2>2, <2>3
  <1>10. L \in M
    <2> HIDE DEF M
    <2> QED
      BY <1>1, <1>8, <1>9, NatInduct
  <1>11. after[L] = At(Greatest(k, e))
    BY <1>1, <1>10
  <1> QED
    BY <1>3, <1>11 DEF At, txs

-----------------------------------------------------------------------------
(* The notes replica's steps *)

(* An answer to a pull holds what is next, or nothing. *)
LEMMA Answers ==
  ASSUME src \in Space, NEW a \in 0 .. Total,
         NEW answer, \/ answer = HandleSyncPull(a, NoteLimit, NoteLimit)
                     \/ answer = [txs |-> <<>>, after |-> a]
  PROVE  \E e \in 0 .. Total : a <= e /\ answer = [txs |-> Piece(a, e), after |-> e]
  <1>1. Total \in Nat /\ a \in Nat /\ a <= Total /\ NoteLimit \in Nat \ {0} /\ NoteLimit \in Nat
    BY PulledProperties, NotesConstants
  <1>2. CASE answer = HandleSyncPull(a, NoteLimit, NoteLimit)
    <2>1. answer = SyncPull(src, Hidden, a, NoteLimit, NoteLimit)
      BY <1>2 DEF HandleSyncPull
    <2>2. PullsNext(answer, Pullable(src, Hidden), Total, a)
      BY <1>1, <2>1, PullProperties DEF Total
    <2>3. answer.after \in 0 .. Total /\ a <= answer.after /\ answer.txs = Piece(a, answer.after)
      BY <1>1, <2>2 DEF PullsNext, Piece
    <2>4. answer = [txs |-> answer.txs, after |-> answer.after]
      BY <2>1 DEF SyncPull
    <2> QED
      BY <2>3, <2>4
  <1>3. CASE answer = [txs |-> <<>>, after |-> a]
    <2>1. Piece(a, a) \in Seq(Frame) /\ Len(Piece(a, a)) = a - a
      BY <1>1, PieceProperties
    <2>2. Piece(a, a) = <<>>
      BY <1>1, <2>1, EmptySeq
    <2> QED
      BY <1>1, <1>3, <2>2
  <1> QED
    BY <1>2, <1>3

(* What a stream holds serves a reader who has more, too. *)
LEMMA PipeLonger ==
  ASSUME src' \in Space, NEW k, NEW j, Pipe(k)', k \in Nat, j \in Nat, k <= j
  PROVE  Pipe(j)'
  <1>1. Total' \in Nat
    BY PullableProperties DEF Total
  <1>2. \A at \in 0 .. Total' : at <= k => at <= j
    BY <1>1
  <1>3. \A a \in 0 .. k : a \in 0 .. j
    OBVIOUS
  <1> QED
    BY <1>2, <1>3 DEF Pipe

(* One field of a replica's state is replaced. *)
LEMMA ReplicaFields ==
  ASSUME NEW p, NEW c, NEW k, NEW q, NEW x
  PROVE  /\ ReplicaAt(p, c, k, q).phase = p /\ ReplicaAt(p, c, k, q).cursor = c
         /\ ReplicaAt(p, c, k, q).poll = q
         /\ [ReplicaAt(p, c, k, q) EXCEPT !.phase = x] = ReplicaAt(x, c, k, q)
         /\ [ReplicaAt(p, c, k, q) EXCEPT !.cursor = x] = ReplicaAt(p, x, k, q)
         /\ [ReplicaAt(p, c, k, q) EXCEPT !.poll = x] = ReplicaAt(p, c, k, x)
  <1> DEFINE seen    == KeysUpTo(k)
             notes   == ServerNotes(SubSeq(VisibleIds, 1, k))
             applied == SubSeq(VisibleIds, 1, k)
             Rec(a, b, d) == [phase |-> a, cursor |-> b, seen |-> seen, notes |-> notes,
                              applied |-> applied, poll |-> d]
  <1>1. \A a, b, d : ReplicaAt(a, b, k, d) = Rec(a, b, d)
    BY DEF ReplicaAt
  <1> HIDE DEF seen, notes, applied
  <1>2. /\ Rec(p, c, q).phase = p /\ Rec(p, c, q).cursor = c /\ Rec(p, c, q).poll = q
        /\ [Rec(p, c, q) EXCEPT !.phase = x] = Rec(x, c, q)
        /\ [Rec(p, c, q) EXCEPT !.cursor = x] = Rec(p, x, q)
        /\ [Rec(p, c, q) EXCEPT !.poll = x] = Rec(p, c, x)
    OBVIOUS
  <1> HIDE DEF Rec
  <1> QED
    BY <1>1, <1>2

(* A replica that starts has applied nothing. *)
LEMMA StartsAtNothing ==
  ASSUME src \in Space
  PROVE  Starting = ReplicaAt("bootstrap", 0, 0, NoPoll) /\ PollSound(NoPoll, 0)
  <1>1. VisibleIds \in Seq(TxId)
    BY VisibleIdsType
  <1>2. ServerNotes(SubSeq(VisibleIds, 1, 0)) = NoNotes
    BY <1>1, ServerNotesNext
  <1>3. SubSeq(VisibleIds, 1, 0) = <<>>
    <2>1. 0 \in 0 .. Len(VisibleIds)
      BY <1>1
    <2>2. SubSeq(VisibleIds, 1, 0) \in Seq(TxId) /\ Len(SubSeq(VisibleIds, 1, 0)) = 0
      BY <1>1, <2>1, PrefixProperties
    <2> QED
      BY <2>2, EmptySeq
  <1>4. KeysUpTo(0) = {}
    <2>1. \A i : i \notin 1 .. 0
      OBVIOUS
    <2> QED
      BY <2>1, Zenon DEF KeysUpTo
  <1> QED
    BY <1>2, <1>3, <1>4 DEF Starting, ReplicaAt, PollSound

(* What a step of the replica, or of its stream, leaves it with. *)
LEMMA ReplicaStepKeepsNotes ==
  ASSUME src \in Space, AllDiffer, watch = NoWatch, Replicating, NotesStep
  PROVE  Replicating'
  <1>1. PICK phase \in {"bootstrap", "running"}, k \in 0 .. Total, cursor \in 0 .. Total, poll \in {replica.poll} :
          /\ cursor <= k /\ replica = ReplicaAt(phase, cursor, k, poll)
          /\ PollSound(poll, k) /\ Pipe(k)
    BY DEF Replicating
  <1>2. src' = src
    BY NoWatchStays
  <1>3. /\ Total \in Nat /\ Total' = Total /\ VisibleIds' = VisibleIds
        /\ (\A a, e : Piece(a, e)' = Piece(a, e))
        /\ (\A j : KeysUpTo(j)' = KeysUpTo(j))
    BY <1>2, PulledProperties DEF Total, VisibleIds, Visible, Piece, KeysUpTo
  <1>4. /\ \A p, c, j, q : ReplicaAt(p, c, j, q)' = ReplicaAt(p, c, j, q)
        /\ \A q, j : PollSound(q, j)' <=> PollSound(q, j)
    BY <1>3 DEF ReplicaAt, PollSound
  <1>5. ASSUME NEW p \in {"bootstrap", "running"}, NEW j \in 0 .. Total, NEW c \in 0 .. Total, NEW q,
               c <= j, replica' = ReplicaAt(p, c, j, q), PollSound(q, j), Pipe(j)'
        PROVE  Replicating'
    <2>1. q = replica'.poll
      BY <1>5 DEF ReplicaAt
    <2>2. j \in 0 .. Total' /\ c \in 0 .. Total'
      BY <1>3
    <2>3. replica' = ReplicaAt(p, c, j, q)' /\ PollSound(q, j)'
      BY <1>4, <1>5
    <2> QED
      BY <1>5, <2>1, <2>2, <2>3, Zenon DEF Replicating
  <1>6. /\ replica.phase = phase /\ replica.cursor = cursor /\ replica.poll = poll
        /\ \A p : [replica EXCEPT !.phase = p] = ReplicaAt(p, cursor, k, poll)
        /\ \A q : [replica EXCEPT !.poll = q] = ReplicaAt(phase, cursor, k, q)
    <2>1. replica = ReplicaAt(phase, cursor, k, poll)
      BY <1>1
    <2>2. /\ ReplicaAt(phase, cursor, k, poll).phase = phase
          /\ ReplicaAt(phase, cursor, k, poll).cursor = cursor
          /\ ReplicaAt(phase, cursor, k, poll).poll = poll
      BY ReplicaFields
    <2>3. \A p : [ReplicaAt(phase, cursor, k, poll) EXCEPT !.phase = p] = ReplicaAt(p, cursor, k, poll)
      BY ReplicaFields
    <2>4. \A q : [ReplicaAt(phase, cursor, k, poll) EXCEPT !.poll = q] = ReplicaAt(phase, cursor, k, q)
      BY ReplicaFields
    <2> QED
      BY <2>1, <2>2, <2>3, <2>4
  <1>7. \A p, c, d, j, q : [ReplicaAt(p, c, j, q) EXCEPT !.cursor = d] = ReplicaAt(p, d, j, q)
    BY ReplicaFields
  <1>8. sub' = sub => Pipe(k)'
    BY <1>1, <1>3 DEF Pipe
  <1>9. PollSound(NoPoll, k) /\ \A j \in 0 .. Total : k <= j => PollSound(poll, j)
    <2>1. \A j \in 0 .. Total : k <= j => \A a \in 0 .. k : a \in 0 .. j
      BY <1>3
    <2> QED
      BY <1>1, <2>1 DEF PollSound
  <1>10. CASE Bootstrap
    <2>1. PICK pulled : /\ pulled = HandleSyncPull(cursor, NoteLimit, NoteLimit)
                        /\ replica' = IF pulled.txs = <<>> THEN [replica EXCEPT !.phase = "running"]
                                      ELSE [ApplyGraphEvents(replica, pulled.txs) EXCEPT !.cursor = pulled.after]
                        /\ sub' = sub
      BY <1>6, <1>10 DEF Bootstrap, httpVars
    <2>2. PICK e \in 0 .. Total : cursor <= e /\ pulled = [txs |-> Piece(cursor, e), after |-> e]
      BY <2>1, Answers
    <2>3. CASE pulled.txs = <<>>
      <3>1. replica' = ReplicaAt("running", cursor, k, poll)
        BY <1>6, <2>1, <2>3
      <3> QED
        BY <1>1, <1>5, <1>8, <2>1, <3>1, Zenon
    <2>4. CASE pulled.txs # <<>>
      <3>1. cursor \in 0 .. k
        BY <1>1, <1>3
      <3>2. ApplyGraphEvents(replica, Piece(cursor, e)) = ReplicaAt(phase, cursor, Greatest(k, e), poll)
        BY <1>1, <2>2, <3>1, AppliesPiece
      <3>3. replica' = ReplicaAt(phase, e, Greatest(k, e), poll)
        BY <1>7, <2>1, <2>2, <2>4, <3>2
      <3>4. Greatest(k, e) \in 0 .. Total /\ k <= Greatest(k, e) /\ e <= Greatest(k, e)
        BY <1>3, GreatestIs, Zenon
      <3>5. Pipe(Greatest(k, e))'
        BY <1>2, <1>3, <1>8, <2>1, <3>4, PipeLonger
      <3> QED
        BY <1>5, <1>9, <3>3, <3>4, <3>5, Zenon
    <2> QED
      BY <2>3, <2>4
  <1>11. CASE BootstrapRefused
    <2>1. replica' = ReplicaAt("running", cursor, k, poll) /\ sub' = sub
      BY <1>6, <1>11 DEF BootstrapRefused, httpVars
    <2> QED
      BY <1>1, <1>5, <1>8, <2>1, Zenon
  <1>12. CASE Poll
    <2>1. replica' = ReplicaAt(phase, cursor, k, [is |-> "sent", from |-> cursor]) /\ sub' = sub
      BY <1>6, <1>12 DEF Poll, httpVars
    <2>2. PollSound([is |-> "sent", from |-> cursor], k)
      <3>1. cursor \in 0 .. k
        BY <1>1, <1>3
      <3> QED
        BY <3>1 DEF PollSound
    <2> QED
      BY <1>1, <1>5, <1>8, <2>1, <2>2, Zenon
  <1>13. CASE PollServed
    <2>1. PICK a \in 0 .. k : poll = [is |-> "sent", from |-> a]
      BY <1>1, <1>6, <1>13 DEF PollServed, PollSound, NoPoll
    <2>2. PICK answer : /\ \/ answer = HandleSyncPull(a, NoteLimit, NoteLimit)
                           \/ answer = [txs |-> <<>>, after |-> a]
                        /\ replica' = [replica EXCEPT !.poll = [is |-> "answered", answer |-> answer]]
                        /\ sub' = sub
      <3>1. replica.poll.from = a
        BY <1>6, <2>1
      <3>2. \E answer \in {HandleSyncPull(a, NoteLimit, NoteLimit), [txs |-> <<>>, after |-> a]} :
               replica' = [replica EXCEPT !.poll = [is |-> "answered", answer |-> answer]]
        BY <1>13, <3>1, Zenon DEF PollServed
      <3>3. sub' = sub
        BY <1>13 DEF PollServed, httpVars
      <3> QED
        BY <3>2, <3>3, Zenon
    <2>3. a \in 0 .. Total
      BY <1>3
    <2>4. PICK e \in 0 .. Total : a <= e /\ answer = [txs |-> Piece(a, e), after |-> e]
      BY <2>2, <2>3, Answers
    <2>5. replica' = ReplicaAt(phase, cursor, k, [is |-> "answered", answer |-> answer])
      BY <1>6, <2>2
    <2>6. PollSound([is |-> "answered", answer |-> answer], k)
      BY <2>4 DEF PollSound
    <2> QED
      BY <1>1, <1>5, <1>8, <2>2, <2>5, <2>6, Zenon
  <1>14. CASE PollBroken
    <2>1. replica' = ReplicaAt(phase, cursor, k, NoPoll) /\ sub' = sub
      BY <1>6, <1>14 DEF PollBroken, httpVars
    <2> QED
      BY <1>1, <1>5, <1>8, <1>9, <2>1, Zenon
  <1>15. CASE PollAnswered
    <2>1. PICK a \in 0 .. k, e \in 0 .. Total :
            a <= e /\ poll = [is |-> "answered", answer |-> [txs |-> Piece(a, e), after |-> e]]
      BY <1>1, <1>6, <1>15 DEF PollAnswered, PollSound, NoPoll
    <2>2. poll.answer.txs = Piece(a, e) /\ poll.answer.after = e
      BY <2>1
    <2>3. [replica EXCEPT !.poll = NoPoll] = ReplicaAt(phase, cursor, k, NoPoll)
      BY <1>6
    <2>4. /\ replica' = IF e = cursor THEN ReplicaAt(phase, cursor, k, NoPoll)
                        ELSE [ApplyGraphEvents(ReplicaAt(phase, cursor, k, NoPoll), Piece(a, e))
                                EXCEPT !.cursor = e]
          /\ sub' = sub
      BY <1>6, <1>15, <2>2, <2>3, Zenon DEF PollAnswered, httpVars
    <2>5. CASE e = cursor
      BY <1>1, <1>5, <1>8, <1>9, <2>4, <2>5, Zenon
    <2>6. CASE e # cursor
      <3>1. ApplyGraphEvents(ReplicaAt(phase, cursor, k, NoPoll), Piece(a, e))
              = ReplicaAt(phase, cursor, Greatest(k, e), NoPoll)
        BY <2>1, AppliesPiece
      <3>2. replica' = ReplicaAt(phase, e, Greatest(k, e), NoPoll)
        BY <1>7, <2>4, <2>6, <3>1
      <3>3. Greatest(k, e) \in 0 .. Total /\ k <= Greatest(k, e) /\ e <= Greatest(k, e)
        BY <1>3, GreatestIs, Zenon
      <3>4. Pipe(Greatest(k, e))' /\ PollSound(NoPoll, Greatest(k, e))
        BY <1>2, <1>3, <1>8, <2>4, <3>3, PipeLonger DEF PollSound
      <3> QED
        BY <1>5, <3>2, <3>3, <3>4, Zenon
    <2> QED
      BY <2>5, <2>6
  <1>16. CASE ReplicaSubscribes
    <2>1. cursor \in 0 .. k /\ SubscribeFrom(cursor) /\ replica' = replica
      <3>1. cursor \in 0 .. k
        BY <1>1, <1>3
      <3>2. SubscribeFrom(cursor)
        BY <1>6, <1>16 DEF ReplicaSubscribes, SubscribeFrom
      <3> QED
        BY <1>16, <3>1, <3>2 DEF ReplicaSubscribes
    <2>2. Pipe(k)'
      BY <1>2, <2>1, SubscribesKeeps
    <2> QED
      BY <1>1, <1>5, <2>1, <2>2, Zenon
  <1>17. CASE ReplicaReadsBundles
    <2>1. HasFrame("txBundles") /\ ReadFrame
      BY <1>17 DEF ReplicaReadsBundles
    <2>2. PICK a \in 0 .. k, e \in 0 .. Total :
            a <= e /\ Head(sub.frames).txs = Piece(a, e) /\ Pipe(Greatest(k, e))'
      BY <1>1, <1>2, <2>1, ReadsBundles
    <2>3. replica' = ApplyGraphEvents(ReplicaAt(phase, cursor, k, poll), Piece(a, e))
      BY <1>1, <1>17, <2>2 DEF ReplicaReadsBundles
    <2>4. replica' = ReplicaAt(phase, cursor, Greatest(k, e), poll)
      BY <2>2, <2>3, AppliesPiece
    <2>5. Greatest(k, e) \in 0 .. Total /\ k <= Greatest(k, e)
      BY <1>3, GreatestIs, Zenon
    <2>6. cursor <= Greatest(k, e) /\ PollSound(poll, Greatest(k, e))
      BY <1>1, <1>3, <1>9, <2>5
    <2> QED
      BY <1>5, <2>2, <2>4, <2>5, <2>6, Zenon
  <1>18. CASE ReplicaReadsCursor
    <2>1. HasFrame("cursor") /\ ReadFrame
      BY <1>18 DEF ReplicaReadsCursor
    <2>2. PICK d \in 0 .. k : Head(sub.frames).cursor = d /\ Pipe(k)'
      BY <1>1, <1>2, <2>1, ReadsCursor
    <2>3. replica' = [replica EXCEPT !.cursor = Greatest(cursor, d)]
      BY <1>6, <1>18, <2>2 DEF ReplicaReadsCursor
    <2>4. replica' = ReplicaAt(phase, Greatest(cursor, d), k, poll)
      BY <1>1, <1>7, <2>3
    <2>5. Greatest(cursor, d) \in 0 .. Total /\ Greatest(cursor, d) <= k
      BY <1>1, <1>3 DEF Greatest
    <2> QED
      BY <1>1, <1>5, <2>2, <2>4, <2>5, Zenon
  <1>19. CASE ReplicaRestarts
    <2>1. replica' = Starting /\ sub' = NoStream
      BY <1>19 DEF ReplicaRestarts
    <2>2. 0 \in 0 .. Total /\ 0 <= 0
      BY <1>3
    <2>3. Pipe(0)'
      BY <1>3, <2>1, <2>2 DEF NoStream, Pipe
    <2> QED
      BY <1>5, <2>1, <2>2, <2>3, StartsAtNothing, Zenon
  <1>20. CASE Transport
    <2>1. (StreamRound \/ BreakStream \/ \E m \in Modes : SetMode(m)) /\ replica' = replica
      BY <1>20 DEF Transport
    <2>2. Pipe(k)'
      BY <1>1, <1>2, <2>1, TransportKeeps
    <2> QED
      BY <1>1, <1>5, <2>1, <2>2, Zenon
  <1>21. ~(WatchSubscribes \/ WatchPrints \/ WatchMoves \/ WatchDies)
    BY DEF WatchSubscribes, WatchPrints, WatchMoves, WatchDies, NoWatch
  <1> QED
    BY <1>10, <1>11, <1>12, <1>13, <1>14, <1>15, <1>16, <1>17, <1>18, <1>19, <1>20, <1>21 DEF NotesStep

(* What the replica has stays right when something is published, as long as   *)
(* no two changes say the same.                                               *)
LEMMA PublishForReplica ==
  ASSUME src \in Space, Replicating, NEW r \in AppendRequest, Publish(r),
         UNCHANGED <<sub, mode, replica, watch, stops>>
  PROVE  Replicating'
  <1>1. PICK phase \in {"bootstrap", "running"}, k \in 0 .. Total, cursor \in 0 .. Total, poll \in {replica.poll} :
          /\ cursor <= k /\ replica = ReplicaAt(phase, cursor, k, poll)
          /\ PollSound(poll, k) /\ Pipe(k)
    BY DEF Replicating
  <1>2. /\ Total \in Nat /\ Total' \in Nat /\ Total <= Total'
        /\ \A a, e \in Nat : a <= e /\ e <= Total => Piece(a, e)' = Piece(a, e)
        /\ \A j \in 0 .. Total : SubSeq(VisibleIds', 1, j) = SubSeq(VisibleIds, 1, j)
        /\ \A i \in 1 .. Total : VisibleIds'[i] = VisibleIds[i]
    BY PieceStays
  <1>3. k \in 0 .. Total' /\ cursor \in 0 .. Total'
    BY <1>2
  <1>4. KeysUpTo(k)' = KeysUpTo(k)
    <2>1. \A i \in 1 .. k : VisibleIds'[i] = VisibleIds[i]
      BY <1>2
    <2> QED
      BY <2>1 DEF KeysUpTo
  <1>5. ServerNotes(SubSeq(VisibleIds, 1, k))' = ServerNotes(SubSeq(VisibleIds, 1, k))
    <2>1. SubSeq(VisibleIds', 1, k) = SubSeq(VisibleIds, 1, k)
      BY <1>2
    <2> QED
      BY <2>1
  <1>6. replica' = ReplicaAt(phase, cursor, k, poll)' /\ poll = replica'.poll
    <2>1. ReplicaAt(phase, cursor, k, poll)' = ReplicaAt(phase, cursor, k, poll)
      BY <1>2, <1>4, <1>5 DEF ReplicaAt
    <2>2. replica' = ReplicaAt(phase, cursor, k, poll)
      BY <1>1
    <2>3. ReplicaAt(phase, cursor, k, poll).poll = poll
      BY DEF ReplicaAt
    <2> QED
      BY <2>1, <2>2, <2>3
  <1>7. PollSound(poll, k)'
    <2>1. CASE poll = NoPoll \/ \E a \in 0 .. k : poll = [is |-> "sent", from |-> a]
      BY <2>1 DEF PollSound
    <2>2. ASSUME NEW a \in 0 .. k, NEW e \in 0 .. Total, a <= e,
                 poll = [is |-> "answered", answer |-> [txs |-> Piece(a, e), after |-> e]]
          PROVE  PollSound(poll, k)'
      <3>1. a \in Nat /\ e \in Nat /\ e <= Total /\ e \in 0 .. Total'
        BY <1>2
      <3>2. Piece(a, e)' = Piece(a, e)
        BY <1>2, <2>2, <3>1
      <3>3. poll = [is |-> "answered", answer |-> [txs |-> Piece(a, e)', after |-> e]]
        BY <2>2, <3>2
      <3> QED
        BY <2>2, <3>1, <3>3 DEF PollSound
    <2> QED
      BY <1>1, <2>1, <2>2 DEF PollSound
  <1>8. Pipe(k)'
    BY <1>1, PipeGrows
  <1> QED
    BY <1>1, <1>3, <1>6, <1>7, <1>8, Zenon DEF Replicating

(* If no two of more changes say the same, no two of fewer do. *)
LEMMA DifferBefore ==
  ASSUME src \in Space, NEW r \in AppendRequest, Publish(r), AllDiffer'
  PROVE  AllDiffer
  <1>1. /\ Total \in Nat /\ Total' \in Nat /\ Total <= Total'
        /\ \A i \in 1 .. Total : VisibleIds'[i] = VisibleIds[i]
    BY PieceStays
  <1>2. \A i \in 1 .. Total : i \in 1 .. Total'
    BY <1>1
  <1> QED
    BY <1>1, <1>2 DEF AllDiffer

(* As long as no two changes the principal sees say the same, the notes       *)
(* replica has applied the beginning of the log, up to its cursor at least,   *)
(* and its notes are those the server would show of it: whatever the order in *)
(* which its two loops move the one cursor, the stream breaks, requests fail  *)
(* and the replica starts anew (pollLoop, sseLoop, applyGraphEvents).         *)
THEOREM NotesStayInAgreement == NotesSpec => [](AllDiffer => NotesAgree)
  <1>1. PublisherInit /\ HttpInit /\ (NotesInit \/ WatchInit) => NotesSound
    <2> SUFFICES ASSUME PublisherInit, HttpInit, NotesInit \/ WatchInit PROVE NotesSound
      OBVIOUS
    <2>1. src \in Space /\ Total = 0 /\ Pulled(0) = <<>> /\ Pipe(0)
      BY NothingToPull
    <2>2. 0 \in 0 .. Total /\ 0 <= 0
      BY <2>1
    <2>3. CASE NotesInit
      <3>1. replica = ReplicaAt("bootstrap", 0, 0, NoPoll) /\ PollSound(NoPoll, 0) /\ watch = NoWatch
        BY <2>1, <2>3, StartsAtNothing DEF NotesInit, NoWatch
      <3>2. NoPoll = replica.poll
        BY <3>1 DEF ReplicaAt
      <3>3. Replicating
        BY <2>1, <2>2, <3>1, <3>2, Zenon DEF Replicating
      <3> QED
        BY <2>1, <3>1, <3>3 DEF NotesSound
    <2>4. CASE WatchInit
      <3>1. watch = [alive |-> TRUE, from |-> 0, printed |-> Pulled(0)]
        BY <2>1, <2>4, Zenon DEF WatchInit
      <3>2. replica = [Starting EXCEPT !.phase = "off"]
        BY <2>4, Zenon DEF WatchInit
      <3>3. Watching
        BY <2>1, <2>2, <3>1, <3>2, Zenon DEF Watching
      <3> QED
        BY <2>1, <3>3 DEF NotesSound
    <2> QED
      BY <2>3, <2>4
  <1>2. NotesSound /\ [NotesNext]_notesVars => NotesSound'
    <2> SUFFICES ASSUME NotesSound, [NotesNext]_notesVars PROVE NotesSound'
      OBVIOUS
    <2>1. CASE UNCHANGED notesVars
      <3>1. UNCHANGED <<src, sub, mode, replica, watch, stops>>
        BY <2>1 DEF notesVars, httpVars
      <3>2. /\ Total' = Total /\ VisibleIds' = VisibleIds
            /\ (\A a, e : Piece(a, e)' = Piece(a, e)) /\ \A k : Pulled(k)' = Pulled(k)
        BY <3>1 DEF Total, VisibleIds, Visible, Piece, Pulled
      <3>3. \A k : Pipe(k)' <=> Pipe(k)
        BY <3>1, <3>2 DEF Pipe
      <3>4. Watching' <=> Watching
        BY <3>1, <3>2, <3>3 DEF Watching
      <3>5. \A p, c, k, q : ReplicaAt(p, c, k, q)' = ReplicaAt(p, c, k, q)
        BY <3>2 DEF ReplicaAt, KeysUpTo
      <3>6. \A q, k : PollSound(q, k)' <=> PollSound(q, k)
        BY <3>2 DEF PollSound
      <3>7. Replicating' <=> Replicating
        BY <3>1, <3>2, <3>3, <3>5, <3>6, Zenon DEF Replicating
      <3>8. AllDiffer' <=> AllDiffer
        BY <3>2 DEF AllDiffer
      <3> QED
        BY <3>1, <3>4, <3>7, <3>8 DEF NotesSound, NoWatch
    <2>2. ASSUME NEW r \in AppendRequest, Publish(r), UNCHANGED <<sub, mode, replica, watch, stops>>
          PROVE  NotesSound'
      <3>1. src \in Space /\ src' \in Space
        BY <2>2, AppendTxType DEF Publish, NotesSound
      <3>2. Watching => Watching'
        BY <2>2, <3>1, PublishForWatch
      <3>3. Replicating => Replicating'
        BY <2>2, <3>1, PublishForReplica
      <3>4. AllDiffer' => AllDiffer
        BY <2>2, <3>1, DifferBefore
      <3> QED
        BY <2>2, <3>1, <3>2, <3>3, <3>4 DEF NotesSound, NoWatch
    <2>3. CASE NotesStep
      <3>1. CASE Watching
        BY <2>3, <3>1, WatchStepKeeps DEF NotesSound
      <3>2. CASE watch = NoWatch /\ (AllDiffer => Replicating)
        <4>1. src \in Space /\ src' = src /\ watch' = NoWatch
          BY <2>3, <3>2, NoWatchStays DEF NotesSound
        <4>2. AllDiffer' => AllDiffer
          BY <4>1 DEF AllDiffer, Total, VisibleIds, Visible
        <4>3. AllDiffer => Replicating'
          BY <2>3, <3>2, <4>1, ReplicaStepKeepsNotes
        <4> QED
          BY <4>1, <4>2, <4>3 DEF NotesSound, NoWatch
      <3> QED
        BY <3>1, <3>2 DEF NotesSound
    <2> QED
      BY <2>1, <2>2, <2>3 DEF NotesNext
  <1>3. NotesSound => (AllDiffer => NotesAgree)
    <2> SUFFICES ASSUME NotesSound, AllDiffer PROVE NotesAgree
      OBVIOUS
    <2>1. src \in Space /\ Total \in Nat /\ VisibleIds \in Seq(TxId) /\ Len(VisibleIds) = Total
      BY VisibleIdsType, PulledProperties DEF NotesSound, Total
    <2>2. \E k, cursor \in 0 .. Total :
             /\ cursor <= k /\ replica.cursor = cursor
             /\ replica.applied = SubSeq(VisibleIds, 1, k)
             /\ replica.notes = ServerNotes(SubSeq(VisibleIds, 1, k))
      <3>1. CASE Watching
        <4>1. Starting = ReplicaAt("bootstrap", 0, 0, NoPoll)
          BY <2>1, StartsAtNothing
        <4>2. replica = ReplicaAt("off", 0, 0, NoPoll)
          <5>1. [ReplicaAt("bootstrap", 0, 0, NoPoll) EXCEPT !.phase = "off"] = ReplicaAt("off", 0, 0, NoPoll)
            BY ReplicaFields
          <5>2. replica = [Starting EXCEPT !.phase = "off"]
            BY <3>1 DEF Watching
          <5> QED
            BY <4>1, <5>1, <5>2
        <4>3. 0 \in 0 .. Total /\ 0 <= 0
          BY <2>1
        <4> QED
          BY <4>2, <4>3 DEF ReplicaAt
      <3>2. CASE Replicating
        BY <3>2 DEF Replicating, ReplicaAt
      <3> QED
        BY <3>1, <3>2 DEF NotesSound
    <2>3. PICK k \in 0 .. Total :
            /\ replica.cursor <= k
            /\ replica.applied = SubSeq(VisibleIds, 1, k)
            /\ replica.notes = ServerNotes(SubSeq(VisibleIds, 1, k))
      BY <2>2
    <2>4. Len(replica.applied) = k
      BY <2>1, <2>3, PrefixProperties
    <2> QED
      BY <2>3, <2>4 DEF NotesAgree
  <1> QED
    BY <1>1, <1>2, <1>3, PTL DEF NotesSpec
=============================================================================
