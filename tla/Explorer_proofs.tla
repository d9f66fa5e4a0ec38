--------------------------- MODULE Explorer_proofs ----------------------------
(***************************************************************************)
(* Proofs about Explorer, beside a graph server with any projects, workers *)
(* and commands, and about Editor.                                         *)
(***************************************************************************)
EXTENDS Explorer, Editor, GraphServer_proofs

-----------------------------------------------------------------------------
(* The inductive invariant, of any store, tasks and server.                  *)

TaskFields == {"at", "in", "project", "last", "snapshot", "cursor", "from", "forced", "stream"}

UiFields == {"session", "project", "graph", "cursor", "ingested", "seen", "pending"}

WaitingAt == {"ask", "asked", "answered"}

(* A link is never there without its ends. *)
LinksHaveEnds(st) ==
  \A p \in Project : \A k \in 0 .. Committed(st[p]) : Shown(GraphOf(st[p], k)) = GraphOf(st[p], k)

(* g is the graph of project p at k. *)
DrawnAt(g, k, p, st) ==
  k \in 0 .. Committed(st[p]) /\ (LinksHaveEnds(st) => g = GraphOf(st[p], k))

LatestHead(cat, p) == LatestSnapshotHead(RecordIn(cat, p))

(* txs is what is in the history of a store after c. *)
ComesAfter(txs, c, sp) ==
  /\ IsSeq(txs) /\ c \in Nat /\ c + Len(txs) <= Committed(sp)
  /\ \A i \in 1 .. Len(txs) : txs[i] = Tx(c + i, History(sp)[c + i])

StreamSound(x, p, st) ==
  /\ DOMAIN x = {"at", "txs"} /\ x.at \in Nat
  /\ ComesAfter(x.txs, x.at - Len(x.txs), st[p])

CacheSound(c, p, st) == c # None => DrawnAt(c.graph, c.cursor, p, st)

AnswerSound(x, p, st, cat) == DrawnAt(x.graph, x.cursor, p, st) /\ x.cursor <= LatestHead(cat, p)

(* The task of the session that is the explorer's own. *)
CurrentSound(t, u, st, cat) ==
  /\ t.project = u.project
  /\ t.in = "decide" => t.at \in WaitingAt /\ u.cursor = 0 /\ t.stream = None
  /\ t.in # "decide" =>
       /\ DrawnAt(u.graph, u.cursor, u.project, st)
       /\ u.cursor < RecordIn(cat, u.project).min \/ t.at \in WaitingAt => u.cursor <= LatestHead(cat, u.project)
       /\ t.at \in WaitingAt \cup {"poll"} => t.cursor = u.cursor
       /\ t.at = "answered" => u.cursor <= t.snapshot.cursor
  /\ t.at = "stream" \/ t.stream # None =>
       StreamSound(t.stream, t.project, st) /\ u.cursor >= RecordIn(cat, u.project).min

TaskSound(t, s, u, st, cat) ==
  /\ DOMAIN t = TaskFields
  /\ t.at \in WaitingAt \cup {"poll", "subscribe", "stream"}
  /\ t.project \in Project /\ cat[t.project] # None /\ s <= u.session
  /\ t.at = "answered" => AnswerSound(t.snapshot, t.project, st, cat)
  /\ t.in = "decide" => CacheSound(t.last.cache, t.project, st)
  /\ IF s = u.session THEN CurrentSound(t, u, st, cat) ELSE t.at \in WaitingAt

UiSound(u) ==
  /\ DOMAIN u = UiFields /\ u.session \in 0 .. MaxSessions
  /\ u.cursor \in Nat /\ u.ingested \in Nat /\ u.ingested <= u.cursor
  /\ \A e \in u.seen : e.tx.n \in Nat /\ e.tx.n <= u.cursor

TasksSound(ts, u, st, cat) ==
  /\ ts = [s \in Session |-> ts[s]]
  /\ \A s \in Session : ts[s] = Ended \/ TaskSound(ts[s], s, u, st, cat)

(* What is asked of the server is asked by a session there was. *)
AskedSound(j, u, ts) ==
  j.at \in {"view", "head"} /\ j.for # None =>
    j.for \in Session /\ j.for <= u.session /\ (ts[j.for] # Ended => ts[j.for].project = j.project)

StoredSound(sd, st) ==
  /\ sd = [p \in Project |-> sd[p]]
  /\ \A p \in Project : DOMAIN sd[p] = {"cursor", "cache"} /\ CacheSound(sd[p].cache, p, st)

LatestSound(st, cat) ==
  \A p \in Project : LET shots == RecordIn(cat, p).snapshots IN
    shots # <<>> => DrawnAt(shots[1].graph, shots[1].cursor, p, st)

ExplorerSound(u, ts, sd, st, cat, js) ==
  /\ UiSound(u) /\ TasksSound(ts, u, st, cat) /\ StoredSound(sd, st)
  /\ \A w \in Worker : AskedSound(js[w], u, ts)
  /\ LatestSound(st, cat) /\ cat[Main] # None

-----------------------------------------------------------------------------
(* What the server does to what an explorer has *)

(* A graph of the history stays one. *)
LEMMA DrawnRemains ==
  ASSUME NEW st, StoresSound(st), NEW st1, \A p \in Project : Grows(st[p], st1[p]),
         NEW p \in Project, NEW g, NEW k, DrawnAt(g, k, p, st)
  PROVE  DrawnAt(g, k, p, st1)
  <1>1. \A q \in Project : /\ StoreSound(st[q]) /\ Committed(st[q]) \in Nat /\ Committed(st1[q]) \in Nat
                           /\ Committed(st[q]) <= Committed(st1[q])
    BY HistoryIsSeq DEF StoresSound, StoreSound, Grows
  <1>2. \A q \in Project : \A i \in 0 .. Committed(st[q]) : GraphOf(st1[q], i) = GraphOf(st[q], i)
    BY <1>1, GraphStays
  <1>3. \A q \in Project : \A i \in 0 .. Committed(st[q]) : i \in 0 .. Committed(st1[q])
    BY <1>1
  <1>4. LinksHaveEnds(st1) => LinksHaveEnds(st)
    BY <1>2, <1>3 DEF LinksHaveEnds
  <1> QED
    BY <1>2, <1>3, <1>4 DEF DrawnAt

(* What comes after a cursor stays what comes after it. *)
LEMMA ComesAfterStays ==
  ASSUME NEW sp, StoreSound(sp), NEW sq, Grows(sp, sq), NEW txs, NEW c, ComesAfter(txs, c, sp)
  PROVE  ComesAfter(txs, c, sq)
  <1>1. /\ IsSeq(txs) /\ c \in Nat /\ c + Len(txs) <= Committed(sp)
        /\ \A i \in 1 .. Len(txs) : txs[i] = Tx(c + i, History(sp)[c + i])
    BY DEF ComesAfter
  <1>2. /\ Committed(sp) \in Nat /\ Committed(sq) \in Nat /\ Committed(sp) <= Committed(sq)
        /\ Len(txs) \in Nat
    BY <1>1, HistoryIsSeq DEF StoreSound, Grows, IsSeq
  <1>3. \A i \in 1 .. Len(txs) : c + i \in 1 .. Committed(sp)
    BY <1>1, <1>2
  <1>4. \A i \in 1 .. Len(txs) : History(sq)[c + i] = History(sp)[c + i]
    BY <1>3 DEF Grows
  <1> QED
    BY <1>1, <1>2, <1>4 DEF ComesAfter

(* What a step of the server does that is no mishap: histories grow, records *)
(* stay, the latest snapshot is not an older one, and no request of an       *)
(* explorer comes from nowhere.                                              *)
Moves(st, cat, js, st1, cat1, js1) ==
  /\ \A p \in Project : Grows(st[p], st1[p])
  /\ \A p \in Project : cat[p] # None =>
       cat1[p] # None /\ RecordIn(cat1, p).min = RecordIn(cat, p).min
  /\ \A p \in Project : /\ LatestHead(cat, p) \in Nat /\ LatestHead(cat1, p) \in Nat
                        /\ LatestHead(cat, p) <= LatestHead(cat1, p)
  /\ LatestSound(st, cat) => LatestSound(st1, cat1)
  /\ \A w \in Worker : js1[w].at \in {"view", "head"} /\ js1[w].for # None =>
       js[w].at \in {"view", "head"} /\ js1[w].for = js[w].for /\ js1[w].project = js[w].project

(* The task of a session is then as sound as it was. *)
LEMMA MovesTask ==
  ASSUME NEW st, StoresSound(st), NEW cat, NEW js, NEW st1, NEW cat1, NEW js1,
         Moves(st, cat, js, st1, cat1, js1),
         NEW u, UiSound(u), NEW s, NEW t, TaskSound(t, s, u, st, cat)
  PROVE  TaskSound(t, s, u, st1, cat1)
  <1> DEFINE p == t.project
  <1>1. /\ DOMAIN t = TaskFields
        /\ t.at \in WaitingAt \cup {"poll", "subscribe", "stream"}
        /\ p \in Project /\ cat[p] # None /\ s <= u.session
        /\ t.at = "answered" => AnswerSound(t.snapshot, p, st, cat)
        /\ t.in = "decide" => CacheSound(t.last.cache, p, st)
        /\ IF s = u.session THEN CurrentSound(t, u, st, cat) ELSE t.at \in WaitingAt
    BY DEF TaskSound
  <1>2. /\ \A q \in Project : Grows(st[q], st1[q])
        /\ cat1[p] # None /\ RecordIn(cat1, p).min = RecordIn(cat, p).min
        /\ LatestHead(cat, p) \in Nat /\ LatestHead(cat1, p) \in Nat
        /\ LatestHead(cat, p) <= LatestHead(cat1, p)
    BY <1>1 DEF Moves
  <1>3. StoreSound(st[p]) /\ Committed(st[p]) \in Nat
    BY <1>1, HistoryIsSeq DEF StoresSound, StoreSound
  <1>4. \A g, k : DrawnAt(g, k, p, st) => DrawnAt(g, k, p, st1)
    BY <1>1, <1>2, DrawnRemains
  <1>5. \A txs, c : ComesAfter(txs, c, st[p]) => ComesAfter(txs, c, st1[p])
    BY <1>1, <1>2, <1>3, ComesAfterStays
  <1>6. t.at = "answered" => AnswerSound(t.snapshot, p, st1, cat1)
    <2> SUFFICES ASSUME t.at = "answered" PROVE AnswerSound(t.snapshot, p, st1, cat1)
      OBVIOUS
    <2> DEFINE x == t.snapshot
    <2>1. DrawnAt(x.graph, x.cursor, p, st) /\ x.cursor <= LatestHead(cat, p)
      BY <1>1 DEF AnswerSound
    <2>2. x.cursor \in Nat
      BY <1>3, <2>1 DEF DrawnAt
    <2> HIDE DEF x, p
    <2>3. x.cursor <= LatestHead(cat1, p)
      BY <1>2, <2>1, <2>2
    <2> QED
      BY <1>4, <2>1, <2>3 DEF AnswerSound, x
  <1>7. t.in = "decide" => CacheSound(t.last.cache, p, st1)
    BY <1>1, <1>4 DEF CacheSound
  <1>8. ASSUME CurrentSound(t, u, st, cat) PROVE CurrentSound(t, u, st1, cat1)
    <2>1. t.project = u.project /\ p = u.project /\ u.cursor \in Nat
      BY <1>8 DEF CurrentSound, UiSound
    <2> HIDE DEF p
    <2>2. LatestHead(cat, u.project) <= LatestHead(cat1, u.project)
          /\ LatestHead(cat, u.project) \in Nat /\ LatestHead(cat1, u.project) \in Nat
          /\ RecordIn(cat1, u.project).min = RecordIn(cat, u.project).min
      BY <1>2, <2>1
    <2>3. \A x : StreamSound(x, t.project, st) => StreamSound(x, t.project, st1)
      BY <1>5 DEF StreamSound, p
    <2>4. \A g, k : DrawnAt(g, k, u.project, st) => DrawnAt(g, k, u.project, st1)
      BY <1>4, <2>1
    <2> DEFINE a == LatestHead(cat, u.project)
               b == LatestHead(cat1, u.project)
               m == RecordIn(cat, u.project).min
               n == RecordIn(cat1, u.project).min
    <2>5. u.cursor <= a => u.cursor <= b
      <3> HIDE DEF a, b
      <3> QED
        BY <2>1, <2>2 DEF a, b
    <2>6. m = n
      BY <2>2
    <2> HIDE DEF a, b, m, n
    <2>7. /\ t.in = "decide" => t.at \in WaitingAt /\ u.cursor = 0 /\ t.stream = None
          /\ t.in # "decide" =>
               /\ DrawnAt(u.graph, u.cursor, u.project, st)
               /\ u.cursor < m \/ t.at \in WaitingAt => u.cursor <= a
               /\ t.at \in WaitingAt \cup {"poll"} => t.cursor = u.cursor
               /\ t.at = "answered" => u.cursor <= t.snapshot.cursor
          /\ t.at = "stream" \/ t.stream # None =>
               StreamSound(t.stream, t.project, st) /\ u.cursor >= m
      BY <1>8 DEF CurrentSound, a, m
    <2>8. /\ t.in = "decide" => t.at \in WaitingAt /\ u.cursor = 0 /\ t.stream = None
          /\ t.in # "decide" =>
               /\ DrawnAt(u.graph, u.cursor, u.project, st1)
               /\ u.cursor < n \/ t.at \in WaitingAt => u.cursor <= b
               /\ t.at \in WaitingAt \cup {"poll"} => t.cursor = u.cursor
               /\ t.at = "answered" => u.cursor <= t.snapshot.cursor
          /\ t.at = "stream" \/ t.stream # None =>
               StreamSound(t.stream, t.project, st1) /\ u.cursor >= n
      BY <2>3, <2>4, <2>5, <2>6, <2>7
    <2> QED
      BY <2>1, <2>8 DEF CurrentSound, b, n
  <1> HIDE DEF p
  <1>9. p = t.project
    BY DEF p
  <1> QED
    BY <1>1, <1>2, <1>6, <1>7, <1>8, <1>9 DEF TaskSound

(* And so is all that the explorer has. *)
LEMMA MovesKeep ==
  ASSUME NEW st, StoresSound(st), NEW cat, NEW js, NEW st1, NEW cat1, NEW js1,
         Moves(st, cat, js, st1, cat1, js1),
         NEW u, NEW ts, NEW sd, ExplorerSound(u, ts, sd, st, cat, js)
  PROVE  ExplorerSound(u, ts, sd, st1, cat1, js1)
  <1>1. /\ UiSound(u) /\ TasksSound(ts, u, st, cat) /\ StoredSound(sd, st)
        /\ \A w \in Worker : AskedSound(js[w], u, ts)
        /\ LatestSound(st, cat) /\ cat[Main] # None
    BY DEF ExplorerSound
  <1>2. TasksSound(ts, u, st1, cat1)
    BY <1>1, MovesTask DEF TasksSound
  <1>3. StoredSound(sd, st1)
    <2>1. \A p \in Project : Grows(st[p], st1[p])
      BY DEF Moves
    <2>2. \A p \in Project : \A g, k : DrawnAt(g, k, p, st) => DrawnAt(g, k, p, st1)
      BY <2>1, DrawnRemains
    <2> QED
      BY <1>1, <2>2 DEF StoredSound, CacheSound
  <1>4. \A w \in Worker : AskedSound(js1[w], u, ts)
    BY <1>1 DEF Moves, AskedSound
  <1>5. LatestSound(st1, cat1) /\ cat1[Main] # None
    BY <1>1, ExplorerConstants DEF Moves
  <1> QED
    BY <1>1, <1>2, <1>3, <1>4, <1>5 DEF ExplorerSound

-----------------------------------------------------------------------------
(* The steps of the server that are no mishap *)

(* The cursor of the latest snapshot of a record. *)
LEMMA LatestOfRecord ==
  ASSUME NEW r, RecordSound(r)
  PROVE  /\ LatestSnapshotHead(r) = IF Len(r.snapshots) = 0 THEN 0 ELSE r.snapshots[1].cursor
         /\ LatestSnapshotHead(r) \in Nat
         /\ r.snapshots = <<>> <=> Len(r.snapshots) = 0
         /\ r.snapshots # <<>> => Head(r.snapshots) = r.snapshots[1]
  <1> DEFINE s == r.snapshots
             S == ElementsOf(s)
  <1>1. IsSeq(s) /\ Len(s) \in Nat /\ \A i \in 1 .. Len(s) : SnapshotSound(s[i])
    BY RecordFields
  <1>2. LatestSnapshotHead(r) = IF s = <<>> THEN 0 ELSE Head(s).cursor
    BY DEF LatestSnapshotHead
  <1> HIDE DEF s
  <1>3. s \in Seq(S)
    BY <1>1, IsSeqIsSeq
  <1> HIDE DEF S
  <1>4. (s = <<>> <=> Len(s) = 0) /\ (s # <<>> => Head(s) = s[1])
    BY <1>1, <1>3
  <1>5. Len(s) # 0 => s[1].cursor \in Nat
    <2>1. Len(s) # 0 => 1 \in 1 .. Len(s)
      BY <1>1
    <2> QED
      BY <1>1, <2>1 DEF SnapshotSound
  <1>6. LatestSnapshotHead(r) = IF Len(s) = 0 THEN 0 ELSE s[1].cursor
    BY <1>2, <1>4
  <1> QED
    BY <1>4, <1>5, <1>6 DEF s

(* What is known of a server without mishaps. *)
LEMMA Unharmed ==
  ASSUME ServerSound, mishaps = {}, NEW p \in Project
  PROVE  /\ StoreSound(stores[p]) /\ Lost(stores[p]) = 0 /\ Committed(stores[p]) \in Nat
         /\ HeadOf(stores[p]) = Committed(stores[p])
         /\ RecordSound(RecordIn(catalog, p))
         /\ LatestHead(catalog, p) \in 0 .. Committed(stores[p])
  <1>1. StoresSound(stores) /\ CatalogSound(catalog) /\ AllMirrored(stores) /\ AllDrawn(stores, catalog, jobs)
    BY DEF ServerSound, Whole
  <1>2. StoreSound(stores[p]) /\ Lost(stores[p]) = 0 /\ RecordSound(RecordIn(catalog, p))
    BY <1>1 DEF StoresSound, AllMirrored, IndexSound, CatalogSound
  <1> DEFINE sp == stores[p]
             r == RecordIn(catalog, p)
  <1>3. SnapshotsDrawn(r, sp)
    BY <1>1 DEF AllDrawn
  <1>4. LatestHead(catalog, p) = LatestSnapshotHead(r)
    BY DEF LatestHead
  <1> HIDE DEF sp, r
  <1>5. Committed(sp) \in Nat /\ Len(Events(sp)) \in Nat
    BY <1>2, HistoryIsSeq, IsSeqIsSeq DEF StoreSound, sp
  <1>6. HeadOf(sp) = Len(Events(sp))
    BY DEF HeadOf, CursorHead, Events, Streams
  <1>7. HeadOf(sp) = Committed(sp)
    BY <1>2, <1>5, <1>6 DEF Lost, sp
  <1>8. /\ LatestSnapshotHead(r) = IF Len(r.snapshots) = 0 THEN 0 ELSE r.snapshots[1].cursor
        /\ LatestSnapshotHead(r) \in Nat /\ Len(r.snapshots) \in Nat
    BY <1>2, LatestOfRecord, RecordFields DEF r
  <1>9. LatestSnapshotHead(r) <= Committed(sp)
    <2>1. Len(r.snapshots) # 0 => 1 \in 1 .. Len(r.snapshots)
      BY <1>8
    <2>2. Len(r.snapshots) # 0 => r.snapshots[1].cursor <= Committed(sp)
      BY <1>3, <2>1 DEF SnapshotsDrawn, SnapshotDrawn
    <2> QED
      BY <1>5, <1>8, <2>2
  <1>10. LatestHead(catalog, p) \in 0 .. Committed(sp)
    BY <1>4, <1>5, <1>8, <1>9
  <1> QED
    BY <1>2, <1>5, <1>7, <1>10 DEF sp, r

(* Where a request of an explorer comes from. *)
JobsFrom(js, js1) ==
  \A w \in Worker : js1[w].at \in {"view", "head"} /\ js1[w].for # None =>
    js[w].at \in {"view", "head"} /\ js1[w].for = js[w].for /\ js1[w].project = js[w].project

RecordsStay(cat, cat1) ==
  \A p \in Project : /\ RecordIn(cat1, p).snapshots = RecordIn(cat, p).snapshots
                     /\ cat[p] # None => cat1[p] # None /\ RecordIn(cat1, p).min = RecordIn(cat, p).min

(* A step that leaves the snapshots alone. *)
LEMMA MovesWithout ==
  ASSUME ServerSound, mishaps = {}, NEW st1, \A p \in Project : Grows(stores[p], st1[p]),
         NEW cat1, RecordsStay(catalog, cat1), NEW js1, JobsFrom(jobs, js1)
  PROVE  Moves(stores, catalog, jobs, st1, cat1, js1)
  <1>1. \A p \in Project : LatestHead(catalog, p) \in Nat
    BY Unharmed
  <1>2. \A p \in Project : LatestHead(cat1, p) = LatestHead(catalog, p)
    BY DEF RecordsStay, LatestHead, LatestSnapshotHead
  <1>3. \A p \in Project : LatestHead(cat1, p) \in Nat /\ LatestHead(catalog, p) <= LatestHead(cat1, p)
    <2> SUFFICES ASSUME NEW p \in Project
                 PROVE  LatestHead(cat1, p) \in Nat /\ LatestHead(catalog, p) <= LatestHead(cat1, p)
      OBVIOUS
    <2>1. LatestHead(cat1, p) = LatestHead(catalog, p) /\ LatestHead(catalog, p) \in Nat
      BY <1>1, <1>2
    <2> QED
      BY <2>1
  <1>4. ASSUME LatestSound(stores, catalog) PROVE LatestSound(st1, cat1)
    <2>1. StoresSound(stores)
      BY DEF ServerSound
    <2>2. \A p \in Project : \A g, k : DrawnAt(g, k, p, stores) => DrawnAt(g, k, p, st1)
      BY <2>1, DrawnRemains
    <2> QED
      BY <1>4, <2>2 DEF LatestSound, RecordsStay
  <1> QED
    BY <1>1, <1>3, <1>4, Zenon DEF Moves, RecordsStay, JobsFrom

(* Records that are replaced by such with the same snapshots. *)
LEMMA RecordReplaced ==
  ASSUME NoneIsNoRecord, NEW cat, CatalogSound(cat), NEW p \in Project, NEW r, RecordSound(r),
         r.snapshots = RecordIn(cat, p).snapshots, cat[p] # None => r.min = RecordIn(cat, p).min,
         NEW cat1, Replaced(cat, p, r, cat1)
  PROVE  RecordsStay(cat, cat1)
  <1>1. \A q \in Project : RecordIn(cat1, q) = IF q = p THEN r ELSE RecordIn(cat, q)
    BY OneRecord
  <1>2. \A q \in Project : cat1[q] = IF q = p THEN r ELSE cat[q]
    BY DEF Replaced, CatalogSound
  <1>3. r # None
    BY DEF NoneIsNoRecord
  <1> QED
    BY <1>1, <1>2, <1>3 DEF RecordsStay

(* A job that no explorer asked for. *)
LEMMA OneJobFrom ==
  ASSUME JobsSound(jobs), NEW w \in Worker, NEW j, j.at \notin {"view", "head"} \/ j.for = None,
         Replaced(jobs, w, j, jobs')
  PROVE  JobsFrom(jobs, jobs')
  <1>1. \A v \in Worker : jobs'[v] = IF v = w THEN j ELSE jobs[v]
    BY DEF JobsSound, Replaced
  <1> QED
    BY <1>1 DEF JobsFrom

(* A worker that begins to create a snapshot for nobody. *)
LEMMA OccupyFrom ==
  ASSUME JobsSound(jobs), NEW w \in Worker, NEW p, Occupy(w, p, None)
  PROVE  JobsFrom(jobs, jobs')
  <1> DEFINE j == Starting(p, None)
  <1>1. Replaced(jobs, w, j, jobs')
    BY DEF Occupy, Takes, Replaced
  <1>2. j.for = None
    BY DEF Starting
  <1> HIDE DEF j
  <1> QED
    BY <1>1, <1>2, OneJobFrom

(* A command, and what it asks a worker for *)
LEMMA CommandsMove ==
  ASSUME NoneIsNoRecord, ServerSound, mishaps = {}, NEW p \in Project, NEW e, IsGraphEvent(e), Commands(p, e)
  PROVE  Moves(stores, catalog, jobs, stores', catalog', jobs')
  <1> DEFINE sq == Submit(stores[p], e)
             r == RecordIn(catalog, p)
  <1>1. /\ stores' = [stores EXCEPT ![p] = sq] /\ catalog' = [catalog EXCEPT ![p] = r]
        /\ jobs' = jobs \/ \E w \in Worker : Occupy(w, p, None)
    BY RecordIs DEF Commands
  <1>2. StoresSound(stores) /\ CatalogSound(catalog) /\ JobsSound(jobs)
    BY DEF ServerSound
  <1>3. StoreSound(stores[p]) /\ RecordSound(r)
    BY <1>2 DEF StoresSound, CatalogSound
  <1>4. Grows(stores[p], sq)
    BY <1>3, SubmitGrows
  <1>5. Replaced(stores, p, sq, stores') /\ Replaced(catalog, p, r, catalog')
    BY <1>1 DEF Replaced
  <1> HIDE DEF sq
  <1>6. \A q \in Project : Grows(stores[q], stores'[q])
    BY <1>2, <1>4, <1>5, OneGrows
  <1>7. RecordsStay(catalog, catalog')
    BY <1>2, <1>3, <1>5, RecordReplaced
  <1>8. JobsFrom(jobs, jobs')
    BY <1>1, <1>2, OccupyFrom DEF JobsFrom
  <1> QED
    BY <1>6, <1>7, <1>8, MovesWithout

(* Records stay if nothing is done to them. *)
LEMMA NothingReplaced ==
  ASSUME ServerSound
  PROVE  RecordsStay(catalog, catalog) /\ JobsFrom(jobs, jobs) /\ \A p \in Project : Grows(stores[p], stores[p])
  <1>1. \A p \in Project : StoreSound(stores[p])
    BY DEF ServerSound, StoresSound
  <1>2. \A p \in Project : Grows(stores[p], stores[p])
    BY <1>1, GrowsNot
  <1> QED
    BY <1>2 DEF RecordsStay, JobsFrom

(* snapshots:create *)
LEMMA CreatesSnapshotMoves ==
  ASSUME ServerSound, mishaps = {}, NEW p \in Project, CreatesSnapshot(p)
  PROVE  Moves(stores, catalog, jobs, stores', catalog', jobs')
  <1>1. stores' = stores /\ catalog' = catalog
    BY DEF CreatesSnapshot
  <1>2. JobsFrom(jobs, jobs')
    BY OccupyFrom DEF CreatesSnapshot, ServerSound
  <1> QED
    BY <1>1, <1>2, NothingReplaced, MovesWithout

(* PATCH retention *)
LEMMA SetsPolicyMoves ==
  ASSUME NoneIsNoRecord, ServerSound, mishaps = {}, NEW p \in Project, NEW policy \in Policy, SetsPolicy(p, policy)
  PROVE  Moves(stores, catalog, jobs, stores', catalog', jobs')
  <1> DEFINE r == RecordIn(catalog, p)
             t == [r EXCEPT !.policy = policy]
  <1>1. catalog' = [catalog EXCEPT ![p] = t] /\ stores' = stores /\ jobs' = jobs
    BY RecordIs DEF SetsPolicy
  <1>2. CatalogSound(catalog) /\ RecordSound(r)
    BY DEF ServerSound, CatalogSound
  <1> HIDE DEF r
  <1>3. t = [min |-> r.min, snapshots |-> r.snapshots, policy |-> policy]
    <2>1. r = [min |-> r.min, snapshots |-> r.snapshots, policy |-> r.policy]
      BY <1>2, RecordFields
    <2> QED
      BY <2>1
  <1>4. t.min = r.min /\ t.snapshots = r.snapshots
    BY <1>3
  <1>5. RecordSound(t)
    <2>1. /\ r.min \in Nat /\ IsSeq(r.snapshots)
          /\ \A i \in 1 .. Len(r.snapshots) : SnapshotSound(r.snapshots[i])
      BY <1>2, RecordFields
    <2>2. RecordSound([min |-> r.min, snapshots |-> r.snapshots, policy |-> policy])
      BY <2>1, RecordMade
    <2> QED
      BY <1>3, <2>2
  <1> HIDE DEF t
  <1>6. Replaced(catalog, p, t, catalog')
    BY <1>1 DEF Replaced
  <1>7. RecordsStay(catalog, catalog')
    BY <1>2, <1>4, <1>5, <1>6, RecordReplaced DEF r
  <1> QED
    BY <1>1, <1>7, NothingReplaced, MovesWithout

(* snapshots/:id:fork, at its beginning *)
LEMMA ForkBeginsMoves ==
  ASSUME NoneIsNoRecord, ServerSound, mishaps = {},
         NEW p \in Project, NEW q \in Project, NEW i \in Nat, ForkBegins(p, q, i)
  PROVE  Moves(stores, catalog, jobs, stores', catalog', jobs')
  <1> DEFINE r == RecordIn(catalog, q)
             j == Copying(q, RecordIn(catalog, p).snapshots[i])
  <1>1. CatalogSound(catalog) /\ JobsSound(jobs) /\ RecordSound(r)
    BY DEF ServerSound, CatalogSound
  <1>2. stores' = stores /\ Replaced(catalog, q, r, catalog') /\ \E w \in Worker : Takes(w, j)
    BY RecordIs DEF ForkBegins, Replaced
  <1>3. RecordsStay(catalog, catalog')
    BY <1>1, <1>2, RecordReplaced
  <1>4. JobsFrom(jobs, jobs')
    <2>1. PICK w \in Worker : Replaced(jobs, w, j, jobs')
      BY <1>2 DEF Takes, Replaced
    <2>2. j.at \notin {"view", "head"}
      BY DEF Copying
    <2> HIDE DEF j
    <2> QED
      BY <1>1, <2>1, <2>2, OneJobFrom
  <1> QED
    BY <1>2, <1>3, <1>4, NothingReplaced, MovesWithout

(* A command of it *)
LEMMA ForkCopiesMoves ==
  ASSUME ServerSound, mishaps = {}, NEW w \in Worker, ForkCopies(w)
  PROVE  Moves(stores, catalog, jobs, stores', catalog', jobs')
  <1> DEFINE j == jobs[w]
             q == j.project
             todo == j.todo
             sq == Submit(stores[q], Head(todo))
             k == [j EXCEPT !.todo = Tail(todo)]
  <1>1. StoresSound(stores) /\ JobsSound(jobs)
    BY DEF ServerSound
  <1>2. j.at = "copy" /\ todo # <<>> /\ catalog' = catalog /\ stores' = [stores EXCEPT ![q] = sq]
    BY DEF ForkCopies
  <1>3. jobs' = [jobs EXCEPT ![w] = k]
    <2>1. jobs' = [jobs EXCEPT ![w].todo = Tail(@)]
      BY DEF ForkCopies
    <2>2. jobs = [v \in Worker |-> jobs[v]]
      BY <1>1 DEF JobsSound
    <2> QED
      BY <2>1, <2>2
  <1>4. Forking(j)
    BY <1>1, <1>2 DEF JobsSound, JobSound
  <1>5. IsGraphEvent(Head(todo)) /\ q \in Project /\ StoreSound(stores[q])
    BY <1>1, <1>2, <1>4, RestOfCommands DEF Forking, StoresSound
  <1>6. Grows(stores[q], sq)
    BY <1>5, SubmitGrows
  <1>7. k.at \notin {"view", "head"}
    <2>1. DOMAIN j = {"at", "project", "todo", "min", "for"}
      BY <1>4 DEF Forking
    <2> HIDE DEF j, todo
    <2> QED
      BY <1>2, <2>1
  <1> HIDE DEF sq, k
  <1>8. \A p \in Project : Grows(stores[p], stores'[p])
    <2>1. Replaced(stores, q, sq, stores')
      BY <1>2 DEF Replaced
    <2> HIDE DEF q
    <2> QED
      BY <1>1, <1>5, <1>6, <2>1, OneGrows
  <1>9. JobsFrom(jobs, jobs')
    <2>1. Replaced(jobs, w, k, jobs')
      BY <1>3 DEF Replaced
    <2> QED
      BY <1>1, <1>7, <2>1, OneJobFrom
  <1> QED
    BY <1>2, <1>8, <1>9, NothingReplaced, MovesWithout

(* A purge, before it takes anything *)
LEMMA PurgeMoves ==
  ASSUME ServerSound, mishaps = {},
         (\E p \in Project : PurgeBegins(p)) \/ \E w \in Worker : ChoosesCut(w)
  PROVE  Moves(stores, catalog, jobs, stores', catalog', jobs')
  <1>1. JobsSound(jobs)
    BY DEF ServerSound
  <1>2. ASSUME NEW p \in Project, PurgeBegins(p) PROVE stores' = stores /\ catalog' = catalog /\ JobsFrom(jobs, jobs')
    <2> DEFINE j == [at |-> "purge", project |-> p, shots |-> Record(p).snapshots,
                     keep |-> Greatest(1, Record(p).policy.keep), for |-> None]
    <2>1. stores' = stores /\ catalog' = catalog /\ \E w \in Worker : Takes(w, j)
      BY <1>2 DEF PurgeBegins
    <2>2. j.at \notin {"view", "head"}
      OBVIOUS
    <2> HIDE DEF j
    <2>3. PICK w \in Worker : Replaced(jobs, w, j, jobs')
      BY <2>1 DEF Takes, Replaced
    <2> QED
      BY <1>1, <2>1, <2>2, <2>3, OneJobFrom
  <1>3. ASSUME NEW w \in Worker, ChoosesCut(w) PROVE stores' = stores /\ catalog' = catalog /\ JobsFrom(jobs, jobs')
    <2> DEFINE Chosen(c) == IF c = {} THEN Idle ELSE Cutting(jobs[w].project, jobs[w].shots, CutOf(jobs[w].shots, c))
    <2>1. PICK candidates \in Candidates(jobs[w]) : Replaced(jobs, w, Chosen(candidates), jobs')
      BY <1>3 DEF ChoosesCut, Replaced
    <2>2. stores' = stores /\ catalog' = catalog
      BY <1>3 DEF ChoosesCut
    <2>3. Chosen(candidates).at \notin {"view", "head"}
      BY DEF Idle, Cutting
    <2> HIDE DEF Chosen
    <2> QED
      BY <1>1, <2>1, <2>2, <2>3, OneJobFrom
  <1> QED
    BY <1>2, <1>3, NothingReplaced, MovesWithout

(* No purge takes anything, for it were a mishap, and none has. *)
LEMMA NothingPurged ==
  ASSUME ServerSound, mishaps' = {}, NEW w \in Worker
  PROVE  ~Compacts(w) /\ ~RecordsPurge(w)
  <1>1. ~Compacts(w)
    BY DEF Compacts
  <1>2. ~RecordsPurge(w)
    BY DEF RecordsPurge, ServerSound, Recording
  <1> QED
    BY <1>1, <1>2

(* readGraphView *)
LEMMA ReadsViewMoves ==
  ASSUME ServerSound, mishaps = {}, NEW w \in Worker, ReadsView(w)
  PROVE  Moves(stores, catalog, jobs, stores', catalog', jobs')
  <1> DEFINE j == jobs[w]
             page == Page(stores[j.project], j.cursor, 64)
             n == Len(page)
             g == ApplyGraphEvents(j.graph, [i \in DOMAIN page |-> page[i].event])
  <1>1. /\ stores' = stores /\ catalog' = catalog /\ j.at = "view"
        /\ \/ jobs' = [jobs EXCEPT ![w].at = "head"]
           \/ jobs' = [jobs EXCEPT ![w].cursor = @ + n, ![w].graph = ApplyGraphEvents(@, [i \in DOMAIN page |-> page[i].event])]
    BY DEF ReadsView
  <1>2. JobsSound(jobs)
    BY DEF ServerSound
  <1>3. jobs'[w].for = j.for /\ jobs'[w].project = j.project /\ \A v \in Worker : v # w => jobs'[v] = jobs[v]
    <2>1. \/ jobs' = [jobs EXCEPT ![w] = [j EXCEPT !.at = "head"]]
          \/ jobs' = [jobs EXCEPT ![w] = [j EXCEPT !.cursor = j.cursor + n, !.graph = g]]
      <3>1. jobs = [v \in Worker |-> jobs[v]]
        BY <1>2 DEF JobsSound
      <3> HIDE DEF page, n
      <3> QED
        BY <1>1, <3>1
    <2>2. \A v \in Worker : v # w => jobs'[v] = jobs[v]
      BY <1>2, <2>1 DEF JobsSound
    <2>3. \/ jobs'[w] = [j EXCEPT !.at = "head"]
          \/ jobs'[w] = [j EXCEPT !.cursor = j.cursor + n, !.graph = g]
      BY <1>2, <2>1 DEF JobsSound
    <2>4. DOMAIN j = {"at", "project", "cursor", "graph", "for"}
      BY <1>1, <1>2 DEF JobsSound, JobSound, Viewing
    <2> HIDE DEF n, g, j
    <2>5. jobs'[w].for = j.for /\ jobs'[w].project = j.project
      BY <2>3, <2>4
    <2> QED
      BY <2>2, <2>5
  <1>4. JobsFrom(jobs, jobs')
    BY <1>1, <1>3 DEF JobsFrom
  <1> QED
    BY <1>1, <1>4, NothingReplaced, MovesWithout

(* createSnapshot, at its end: what comes into the catalog is the graph at   *)
(* its cursor, for else it were a mishap.                                    *)
LEMMA SealsMove ==
  ASSUME NoneIsNoRecord, ServerSound, mishaps' = {}, NEW w \in Worker, Seals(w)
  PROVE  /\ Moves(stores, catalog, jobs, stores', catalog', jobs') /\ mishaps = {}
         /\ LET p == jobs[w].project IN
            /\ p \in Project /\ catalog'[p] # None
            /\ DrawnAt(Snapshot(w).graph, Snapshot(w).cursor, p, stores)
            /\ Snapshot(w).cursor = LatestHead(catalog', p)
  <1> DEFINE p == jobs[w].project
             r == RecordIn(catalog, p)
             x == Snapshot(w)
             shots == <<x>> \o r.snapshots
             t == [r EXCEPT !.snapshots = shots]
             sp == stores[p]
  <1>1. /\ jobs[w].at = "head" /\ stores' = stores
        /\ catalog' = [catalog EXCEPT ![p] = WithSnapshot(r, x)]
        /\ jobs' = [jobs EXCEPT ![w] = Idle]
        /\ mishaps' = IF IsTorn(w) THEN mishaps \cup {"torn snapshot"} ELSE mishaps
    BY RecordIs DEF Seals
  <1>2. mishaps = {} /\ ~IsTorn(w)
    BY <1>1
  <1>3. StoresSound(stores) /\ CatalogSound(catalog) /\ JobsSound(jobs)
    BY DEF ServerSound
  <1>4. p \in Project
    BY <1>1, <1>3 DEF JobsSound, JobSound, Viewing
  <1>5. /\ StoreSound(sp) /\ Committed(sp) \in Nat /\ HeadOf(sp) = Committed(sp)
        /\ RecordSound(r) /\ LatestHead(catalog, p) \in 0 .. Committed(sp)
    BY <1>2, <1>4, Unharmed
  <1>6. x.cursor = Committed(sp)
    BY <1>5 DEF Snapshot
  <1>7. DrawnAt(x.graph, x.cursor, p, stores)
    <2>1. x.graph = Shown(GraphOf(sp, x.cursor))
      BY <1>2 DEF IsTorn, GraphAt, GraphOf
    <2> HIDE DEF x
    <2>2. x.cursor \in 0 .. Committed(sp)
      BY <1>5, <1>6
    <2>3. LinksHaveEnds(stores) => x.graph = GraphOf(sp, x.cursor)
      BY <1>4, <2>1, <2>2 DEF LinksHaveEnds
    <2> QED
      BY <2>2, <2>3 DEF DrawnAt
  <1> HIDE DEF x
  <1>8. /\ IsSeq(r.snapshots) /\ Len(r.snapshots) \in Nat
        /\ r = [min |-> r.min, snapshots |-> r.snapshots, policy |-> r.policy]
    BY <1>5, RecordFields
  <1>9. Len(shots) = Len(r.snapshots) + 1 /\ shots[1] = x
    BY <1>8, SeqBefore
  <1> HIDE DEF r
  <1>10. catalog' = [catalog EXCEPT ![p] = t]
    BY <1>1 DEF WithSnapshot
  <1>11. t = [min |-> r.min, snapshots |-> shots, policy |-> r.policy]
    <2> DEFINE min == r.min
               old == r.snapshots
               policy == r.policy
    <2>1. r = [min |-> min, snapshots |-> old, policy |-> policy]
      BY <1>8
    <2> HIDE DEF shots, min, old, policy
    <2>2. t = [min |-> min, snapshots |-> shots, policy |-> policy]
      BY <2>1
    <2> QED
      BY <2>2 DEF min, policy
  <1>12. RecordSound(t) /\ t.min = r.min /\ t.snapshots = shots
    <2>1. r.min \in Nat /\ r.policy \in Policy /\ \A i \in 1 .. Len(r.snapshots) : SnapshotSound(r.snapshots[i])
      BY <1>5, RecordFields
    <2>2. SnapshotSound(x)
      <3>1. FiniteGraph(jobs[w].graph)
        BY <1>1, <1>3 DEF JobsSound, JobSound, Viewing
      <3>2. x.graph = Shown(jobs[w].graph)
        BY DEF x, Snapshot
      <3> QED
        BY <1>5, <1>6, <3>1, <3>2, FiniteShown DEF SnapshotSound
    <2>3. /\ IsSeq(shots)
          /\ \A i \in 1 .. Len(r.snapshots) + 1 :
               i # 1 => i - 1 \in 1 .. Len(r.snapshots) /\ shots[i] = r.snapshots[i - 1]
      BY <1>8, SeqBefore
    <2> HIDE DEF shots, t
    <2>4. \A i \in 1 .. Len(shots) : SnapshotSound(shots[i])
      BY <1>9, <2>1, <2>2, <2>3
    <2> QED
      BY <1>11, <2>1, <2>3, <2>4, RecordMade
  <1> HIDE DEF t
  <1>13. \A q \in Project : RecordIn(catalog', q) = IF q = p THEN t ELSE RecordIn(catalog, q)
    <2>1. Replaced(catalog, p, t, catalog')
      BY <1>10 DEF Replaced
    <2> HIDE DEF p
    <2> QED
      BY <1>3, <1>4, <1>12, <2>1, OneRecord
  <1>14. catalog'[p] # None /\ \A q \in Project : q # p => catalog'[q] = catalog[q]
    <2>1. t # None
      BY <1>12 DEF NoneIsNoRecord
    <2> HIDE DEF p
    <2> QED
      BY <1>3, <1>4, <1>10, <2>1 DEF CatalogSound
  <1>15. LatestHead(catalog', p) = x.cursor
    <2>1. LatestSnapshotHead(t) = IF Len(t.snapshots) = 0 THEN 0 ELSE t.snapshots[1].cursor
      BY <1>12, LatestOfRecord
    <2>2. Len(shots) # 0
      BY <1>8, <1>9
    <2> HIDE DEF shots, p
    <2>3. LatestSnapshotHead(t) = x.cursor
      BY <1>9, <1>12, <2>1, <2>2
    <2> QED
      BY <1>4, <1>13, <2>3 DEF LatestHead
  <1>16. \A q \in Project : /\ LatestHead(catalog, q) \in Nat /\ LatestHead(catalog', q) \in Nat
                            /\ LatestHead(catalog, q) <= LatestHead(catalog', q)
    <2> SUFFICES ASSUME NEW q \in Project
                 PROVE  /\ LatestHead(catalog, q) \in Nat /\ LatestHead(catalog', q) \in Nat
                        /\ LatestHead(catalog, q) <= LatestHead(catalog', q)
      OBVIOUS
    <2>1. CASE q = p
      <3> HIDE DEF p, sp
      <3> QED
        BY <1>5, <1>6, <1>15, <2>1
    <2>2. CASE q # p
      <3>1. LatestHead(catalog', q) = LatestHead(catalog, q)
        BY <1>13, <2>2 DEF LatestHead
      <3>2. LatestHead(catalog, q) \in Nat
        BY <1>2, Unharmed
      <3> QED
        BY <3>1, <3>2
    <2> QED
      BY <2>1, <2>2
  <1>17. ASSUME LatestSound(stores, catalog) PROVE LatestSound(stores, catalog')
    <2> SUFFICES ASSUME NEW q \in Project, RecordIn(catalog', q).snapshots # <<>>
                 PROVE  DrawnAt(RecordIn(catalog', q).snapshots[1].graph,
                                RecordIn(catalog', q).snapshots[1].cursor, q, stores)
      BY DEF LatestSound
    <2>1. CASE q = p
      <3>1. RecordIn(catalog', q).snapshots[1] = x
        BY <1>9, <1>12, <1>13, <2>1
      <3> QED
        BY <1>7, <2>1, <3>1
    <2>2. CASE q # p
      BY <1>13, <1>17, <2>2 DEF LatestSound
    <2> QED
      BY <2>1, <2>2
  <1>18. \A q \in Project : /\ Grows(stores[q], stores'[q])
                            /\ catalog[q] # None => /\ catalog'[q] # None
                                                    /\ RecordIn(catalog', q).min = RecordIn(catalog, q).min
    <2>1. \A q \in Project : Grows(stores[q], stores'[q])
      BY <1>1, NothingReplaced
    <2>2. \A q \in Project : catalog[q] # None => catalog'[q] # None
      BY <1>14
    <2>3. \A q \in Project : RecordIn(catalog', q).min = RecordIn(catalog, q).min
      BY <1>12, <1>13 DEF r
    <2> QED
      BY <2>1, <2>2, <2>3
  <1>19. \A v \in Worker : jobs'[v] = IF v = w THEN Idle ELSE jobs[v]
    BY <1>1, <1>3 DEF JobsSound
  <1>20. JobsFrom(jobs, jobs')
    BY <1>19 DEF JobsFrom, Idle
  <1>21. Moves(stores, catalog, jobs, stores', catalog', jobs')
    BY <1>1, <1>16, <1>17, <1>18, <1>20 DEF Moves, JobsFrom
  <1> QED
    BY <1>2, <1>4, <1>7, <1>14, <1>15, <1>21 DEF p, x

(* The server is started again, and its catalog is there. *)
LEMMA RestartMoves ==
  ASSUME ServerSound, mishaps' = {}, RestartsServer
  PROVE  Moves(stores, catalog, jobs, stores', catalog', jobs') /\ mishaps = {}
  <1>1. /\ stores' = stores /\ catalog' = catalog /\ mishaps = {}
        /\ jobs' = [w \in Worker |-> Idle]
    BY DEF RestartsServer
  <1>2. JobsFrom(jobs, jobs')
    BY <1>1 DEF JobsFrom, Idle
  <1> QED
    BY <1>1, <1>2, NothingReplaced, MovesWithout

-----------------------------------------------------------------------------
(* Events reach the store *)

(* What is polled or streamed at a cursor is what comes after it. *)
LEMMA PageComesAfter ==
  ASSUME NEW sp, StoreSound(sp), Lost(sp) = 0, NEW c \in 0 .. Committed(sp), NEW limit \in Nat
  PROVE  ComesAfter(Page(sp, c, limit), c, sp) /\ (Page(sp, c, limit) = <<>> <=> Len(Page(sp, c, limit)) = 0)
  <1> DEFINE page == Page(sp, c, limit)
  <1>1. Committed(sp) \in Nat /\ c \in Nat
    BY HistoryIsSeq DEF StoreSound
  <1>2. /\ IsSeq(page) /\ Len(page) \in Nat
        /\ \A i \in 1 .. Len(page) : c + i \in 1 .. Len(Events(sp)) /\ page[i] = Events(sp)[c + i].tx
    BY <1>1, PageEffect
  <1>3. c + Len(page) \in 0 .. Committed(sp)
    BY PageDraws
  <1> HIDE DEF page
  <1>4. ASSUME NEW i \in 1 .. Len(page) PROVE page[i] = Tx(c + i, History(sp)[c + i])
    <2> DEFINE j == c + i
    <2>1. j \in 1 .. Len(Events(sp)) /\ page[i] = Events(sp)[j].tx /\ j \in Nat
      BY <1>1, <1>2
    <2> HIDE DEF j
    <2>2. Events(sp)[j].tx = Tx(Lost(sp) + j, History(sp)[Lost(sp) + j]) /\ Lost(sp) + j = j
      BY <2>1 DEF StoreSound
    <2>3. page[i] = Tx(j, History(sp)[j])
      BY <2>1, <2>2
    <2> QED
      BY <2>3 DEF j
  <1>5. ComesAfter(page, c, sp)
    BY <1>1, <1>2, <1>3, <1>4 DEF ComesAfter
  <1>6. page = <<>> <=> Len(page) = 0
    BY <1>2, IsSeqIsSeq
  <1> QED
    BY <1>5, <1>6 DEF page

(* Events that were not seen, each there once, are all drawn. *)
LEMMA AllUnseen ==
  ASSUME NEW u, NEW events, IsSeq(events), \A i \in 1 .. Len(events) : events[i] \notin u.seen,
         \A i \in 1 .. Len(events) : \A j \in 1 .. i - 1 : events[j] # events[i]
  PROVE  DrawUnseen(u, events) = ApplyGraphEvents(u.graph, [i \in DOMAIN events |-> events[i].tx.event])
  <1> DEFINE n == Len(events)
             g == u.graph
             drawn == [i \in 1 .. n |-> events[i].tx.event]
             Body(f) == [i \in 0 .. n |-> IF i = 0 THEN g
                                          ELSE IF events[i] \in u.seen \cup {events[j] : j \in 1 .. i - 1} THEN f[i - 1]
                                          ELSE ApplyGraphEvent(f[i - 1], events[i].tx.event)]
             after == CHOOSE f : f = Body(f)
  <1>1. n \in Nat /\ DOMAIN events = 1 .. n
    BY IsSeqIsSeq
  <1>2. DrawUnseen(u, events) = after[n]
    BY DEF DrawUnseen
  <1>3. IsSeq(drawn) /\ Len(drawn) = n
    <2>1. drawn = [i \in 1 .. n |-> drawn[i]]
      OBVIOUS
    <2> HIDE DEF drawn, n
    <2> QED
      BY <1>1, <2>1, TupleIsSeq
  <1>4. \A i \in 1 .. n : /\ drawn[i] = events[i].tx.event
                            /\ events[i] \notin u.seen \cup {events[j] : j \in 1 .. i - 1}
    OBVIOUS
  <1>5. ASSUME NEW f PROVE Body(f) = DrawBody(f, g, drawn, n)
    <2>1. \A i \in 0 .. n : i = 0 \/ i \in 1 .. n
      BY <1>1
    <2> HIDE DEF drawn, n, g
    <2> QED
      BY <1>4, <2>1 DEF DrawBody
  <1> HIDE DEF Body
  <1>6. \E f : f = Body(f)
    BY <1>1, <1>5, DrawDefined, Zenon
  <1>7. after = Body(after)
    BY <1>6, Zenon
  <1> HIDE DEF after
  <1>8. after = DrawBody(after, g, drawn, n)
    BY <1>5, <1>7
  <1>9. PICK f : f = DrawBody(f, g, drawn, n) /\ ApplyGraphEvents(g, drawn) = f[n]
    BY <1>1, <1>3, DrawIs
  <1> DEFINE S == {i \in Nat : i <= n => f[i] = after[i]}
  <1> HIDE DEF drawn, n, g
  <1>10. 0 \in S
    <2>1. 0 \in 0 .. n
      BY <1>1
    <2>2. f[0] = g /\ after[0] = g
      BY <1>8, <1>9, <2>1, Zenon DEF DrawBody
    <2> QED
      BY <2>2
  <1>11. ASSUME NEW i \in Nat, i \in S PROVE i + 1 \in S
    <2> SUFFICES ASSUME i + 1 <= n PROVE f[i + 1] = after[i + 1]
      OBVIOUS
    <2>1. i + 1 \in 0 .. n /\ i + 1 # 0 /\ (i + 1) - 1 = i /\ f[i] = after[i]
      BY <1>1, <1>11
    <2>2. f[i + 1] = ApplyGraphEvent(f[(i + 1) - 1], drawn[i + 1])
      BY <1>9, <2>1, Zenon DEF DrawBody
    <2>3. after[i + 1] = ApplyGraphEvent(after[(i + 1) - 1], drawn[i + 1])
      BY <1>8, <2>1, Zenon DEF DrawBody
    <2> QED
      BY <2>1, <2>2, <2>3
  <1> HIDE DEF S
  <1>12. n \in S
    BY <1>1, <1>10, <1>11, NatInduct
  <1>13. f[n] = after[n]
    BY <1>1, <1>12 DEF S
  <1>14. [i \in DOMAIN events |-> events[i].tx.event] = drawn
    BY <1>1 DEF drawn
  <1> QED
    BY <1>2, <1>9, <1>13, <1>14 DEF g

(* What comes after the cursor of the store leads to a later graph. *)
LEMMA Ingested ==
  ASSUME NEW u, UiSound(u), NEW p, NEW st, StoreSound(st[p]), DrawnAt(u.graph, u.cursor, p, st),
         NEW txs, ComesAfter(txs, u.cursor, st[p]), NEW by
  PROVE  LET v == Ingest(u, From(by, txs), u.cursor + Len(txs)) IN
         /\ UiSound(v) /\ v.session = u.session /\ v.project = u.project
         /\ v.cursor = u.cursor + Len(txs) /\ v.cursor >= u.cursor
         /\ DrawnAt(v.graph, v.cursor, p, st)
  <1> DEFINE sp == st[p]
             h == History(sp)
             c == u.cursor
             m == Len(txs)
             events == From(by, txs)
             drawn == [i \in DOMAIN events |-> events[i].tx.event]
             g == DrawUnseen(u, events)
             seen == u.seen \cup {events[i] : i \in DOMAIN events}
             v == [u EXCEPT !.graph = g, !.seen = seen, !.ingested = c + m, !.cursor = c + m]
  <1>1. /\ IsSeq(txs) /\ c \in Nat /\ m \in Nat /\ c + m <= Committed(sp) /\ DOMAIN txs = 1 .. m
        /\ \A i \in 1 .. m : txs[i] = Tx(c + i, h[c + i])
    BY IsSeqIsSeq DEF ComesAfter
  <1>2. IsSeq(h) /\ Len(h) = Committed(sp) /\ Committed(sp) \in Nat
    BY HistoryIsSeq DEF StoreSound
  <1> HIDE DEF sp, h, m
  <1>3. events = [i \in 1 .. m |-> [by |-> by, tx |-> txs[i]]]
    BY <1>1 DEF From
  <1> HIDE DEF events
  <1>4. IsSeq(events) /\ Len(events) = m /\ DOMAIN events = 1 .. m
    <2>1. events = [i \in 1 .. m |-> events[i]]
      BY <1>3
    <2>2. IsSeq(events) /\ Len(events) = m
      BY <1>1, <2>1, TupleIsSeq
    <2> QED
      BY <1>3, <2>2
  <1>5. ASSUME NEW i \in 1 .. m PROVE events[i].tx.n = c + i /\ events[i].tx.event = h[c + i]
    <2>1. events[i].tx = Tx(c + i, h[c + i])
      BY <1>1, <1>3
    <2> QED
      BY <2>1 DEF Tx
  <1>6. \A e \in u.seen : e.tx.n \in Nat /\ e.tx.n <= c
    BY DEF UiSound
  <1>7. \A i \in 1 .. m : events[i] \notin u.seen
    <2> SUFFICES ASSUME NEW i \in 1 .. m, events[i] \in u.seen PROVE FALSE
      OBVIOUS
    <2>1. events[i].tx.n = c + i /\ events[i].tx.n <= c
      BY <1>5, <1>6
    <2> HIDE DEF c
    <2> QED
      BY <1>1, <2>1
  <1>8. g = ApplyGraphEvents(u.graph, drawn)
    <2>1. \A i \in 1 .. m : \A j \in 1 .. i - 1 : events[j] # events[i]
      <3> SUFFICES ASSUME NEW i \in 1 .. m, NEW j \in 1 .. i - 1 PROVE events[j].tx.n # events[i].tx.n
        OBVIOUS
      <3>1. j \in 1 .. m /\ j # i
        BY <1>1
      <3>2. events[j].tx.n = c + j /\ events[i].tx.n = c + i
        BY <1>5, <3>1
      <3> HIDE DEF c
      <3> QED
        BY <1>1, <3>1, <3>2
    <2> QED
      BY <1>4, <1>7, <2>1, AllUnseen
  <1>9. PartOf(drawn, h, c, m)
    <2>1. drawn = [i \in 1 .. m |-> h[c + i]]
      BY <1>4, <1>5
    <2> HIDE DEF drawn
    <2>2. drawn = [i \in 1 .. m |-> drawn[i]] /\ \A i \in 1 .. m : drawn[i] = h[c + i]
      BY <2>1
    <2>3. IsSeq(drawn) /\ Len(drawn) = m
      BY <1>1, <2>2, TupleIsSeq
    <2> QED
      BY <1>1, <1>2, <2>2, <2>3 DEF PartOf
  <1> HIDE DEF drawn, g
  <1>10. ApplyGraphEvents(GraphOf(sp, c), drawn) = GraphOf(sp, c + m)
    BY <1>9, DrawFurther DEF GraphOf, h
  <1>11. DrawnAt(g, c + m, p, st)
    <2>1. c + m \in 0 .. Committed(sp)
      BY <1>1, <1>2
    <2>2. LinksHaveEnds(st) => u.graph = GraphOf(sp, c)
      BY DEF DrawnAt, sp
    <2> QED
      BY <1>8, <1>10, <2>1, <2>2 DEF DrawnAt, sp
  <1>12. \A e \in seen : e.tx.n \in Nat /\ e.tx.n <= c + m
    <2> SUFFICES ASSUME NEW e \in seen PROVE e.tx.n \in Nat /\ e.tx.n <= c + m
      OBVIOUS
    <2>1. CASE e \in u.seen
      <3>1. e.tx.n \in Nat /\ e.tx.n <= c
        BY <1>6, <2>1
      <3> HIDE DEF c
      <3> QED
        BY <1>1, <3>1
    <2>2. CASE e \notin u.seen
      <3>1. PICK i \in 1 .. m : e = events[i]
        BY <1>4, <2>2
      <3>2. e.tx.n = c + i
        BY <1>5, <3>1
      <3> HIDE DEF c
      <3> QED
        BY <1>1, <3>2
    <2> QED
      BY <2>1, <2>2
  <1> HIDE DEF seen
  <1>13. /\ DOMAIN v = UiFields /\ v.session = u.session /\ v.project = u.project
         /\ v.cursor = c + m /\ v.ingested = c + m /\ v.graph = g /\ v.seen = seen
    <2>1. DOMAIN u = UiFields
      BY DEF UiSound
    <2> HIDE DEF c
    <2> QED
      BY <2>1 DEF UiFields
  <1>14. v = Ingest(u, events, c + m)
    BY DEF Ingest, g, seen
  <1> HIDE DEF v, c
  <1>15. c + m \in Nat /\ c + m >= c
    BY <1>1
  <1>16. UiSound(v)
    <2>1. u.session \in 0 .. MaxSessions
      BY DEF UiSound
    <2> QED
      BY <1>12, <1>13, <1>15, <2>1 DEF UiSound
  <1> QED
    BY <1>11, <1>13, <1>14, <1>15, <1>16 DEF events, m, c

-----------------------------------------------------------------------------
(* A step of one session *)

(* What the explorer has is sound. *)
Sound == ExplorerSound(ui, tasks, stored, stores, catalog, jobs)

(* Within a session the cursor does not go back. *)
Forward == ui'.session = ui.session => ui'.cursor >= ui.cursor

(* Only the session of the task that changes may change what is drawn. *)
LEMMA TaskStep ==
  ASSUME NEW u, NEW ts, NEW sd, NEW st, NEW cat, NEW js, ExplorerSound(u, ts, sd, st, cat, js),
         NEW s \in Session, NEW t1, NEW ts1, Replaced(ts, s, t1, ts1),
         NEW u1, UiSound(u1), u1.session = u.session, u1.project = u.project,
         s = u.session \/ (u1.cursor = u.cursor /\ u1.graph = u.graph),
         t1 = Ended \/ (TaskSound(t1, s, u1, st, cat) /\ ts[s] # Ended /\ t1.project = ts[s].project),
         NEW sd1, StoredSound(sd1, st)
  PROVE  ExplorerSound(u1, ts1, sd1, st, cat, js)
  <1>1. /\ TasksSound(ts, u, st, cat) /\ \A w \in Worker : AskedSound(js[w], u, ts)
        /\ LatestSound(st, cat) /\ cat[Main] # None
    BY DEF ExplorerSound
  <1>2. /\ ts1 = [r \in Session |-> ts1[r]]
        /\ \A r \in Session : ts1[r] = IF r = s THEN t1 ELSE ts[r]
    BY <1>1 DEF TasksSound, Replaced
  <1>3. ASSUME NEW r \in Session, r # s, TaskSound(ts[r], r, u, st, cat)
        PROVE  TaskSound(ts[r], r, u1, st, cat)
    <2>1. CASE r = u.session
      <3>1. u1.cursor = u.cursor /\ u1.graph = u.graph
        BY <1>3, <2>1
      <3>2. CurrentSound(ts[r], u, st, cat)
        BY <1>3, <2>1 DEF TaskSound
      <3>3. CurrentSound(ts[r], u1, st, cat)
        BY <3>1, <3>2 DEF CurrentSound
      <3> QED
        BY <1>3, <2>1, <3>3 DEF TaskSound
    <2>2. CASE r # u.session
      BY <1>3, <2>2 DEF TaskSound
    <2> QED
      BY <2>1, <2>2
  <1>4. TasksSound(ts1, u1, st, cat)
    <2>1. \A r \in Session : ts[r] = Ended \/ TaskSound(ts[r], r, u, st, cat)
      BY <1>1 DEF TasksSound
    <2>2. \A r \in Session : ts1[r] = Ended \/ TaskSound(ts1[r], r, u1, st, cat)
      BY <1>2, <1>3, <2>1
    <2> QED
      BY <1>2, <2>2 DEF TasksSound
  <1>5. ASSUME NEW w \in Worker PROVE AskedSound(js[w], u1, ts1)
    <2> DEFINE j == js[w]
    <2>1. AskedSound(j, u, ts)
      BY <1>1
    <2> HIDE DEF j
    <2> SUFFICES ASSUME j.at \in {"view", "head"}, j.for # None
                 PROVE  j.for \in Session /\ j.for <= u1.session
                        /\ (ts1[j.for] # Ended => ts1[j.for].project = j.project)
      BY DEF AskedSound, j
    <2>2. j.for \in Session /\ j.for <= u.session /\ (ts[j.for] # Ended => ts[j.for].project = j.project)
      BY <2>1 DEF AskedSound
    <2>3. j.for <= u1.session
      BY <2>2
    <2>4. ASSUME ts1[j.for] # Ended PROVE ts1[j.for].project = j.project
      <3>1. CASE j.for = s
        BY <1>2, <2>2, <2>4, <3>1
      <3>2. CASE j.for # s
        BY <1>2, <2>2, <2>4, <3>2
      <3> QED
        BY <3>1, <3>2
    <2> QED
      BY <2>2, <2>3, <2>4
  <1> QED
    BY <1>1, <1>4, <1>5 DEF ExplorerSound

(* What is known of a session that goes on. *)
LEMMA TaskIs ==
  ASSUME Sound, NEW s \in Session, tasks[s].at # "ended"
  PROVE  /\ tasks[s] # Ended /\ TaskSound(tasks[s], s, ui, stores, catalog) /\ UiSound(ui)
         /\ StoredSound(stored, stores)
         /\ \A t : Becomes(s, t) => Replaced(tasks, s, t, tasks')
         /\ tasks[s].at \notin WaitingAt => IsCurrent(s)
         /\ IsCurrent(s) => CurrentSound(tasks[s], ui, stores, catalog)
  <1>1. TasksSound(tasks, ui, stores, catalog) /\ UiSound(ui) /\ StoredSound(stored, stores)
    BY DEF Sound, ExplorerSound
  <1>2. tasks[s] # Ended
    BY DEF Ended
  <1>3. TaskSound(tasks[s], s, ui, stores, catalog)
    BY <1>1, <1>2 DEF TasksSound
  <1>4. \A t : Becomes(s, t) => Replaced(tasks, s, t, tasks')
    BY DEF Becomes, Replaced
  <1> QED
    BY <1>1, <1>2, <1>3, <1>4 DEF TaskSound, IsCurrent

(* TaskStep, of the step that is taken. *)
LEMMA SessionKeeps ==
  ASSUME Sound, NEW s \in Session, tasks[s].at # "ended", NEW t, Becomes(s, t),
         stores' = stores, catalog' = catalog, jobs' = jobs,
         UiSound(ui'), ui'.session = ui.session, ui'.project = ui.project,
         IsCurrent(s) \/ (ui'.cursor = ui.cursor /\ ui'.graph = ui.graph),
         t = Ended \/ (TaskSound(t, s, ui', stores, catalog) /\ t.project = tasks[s].project),
         StoredSound(stored', stores)
  PROVE  Sound'
  <1>1. ExplorerSound(ui, tasks, stored, stores, catalog, jobs)
    BY DEF Sound
  <1>2. tasks[s] # Ended /\ Replaced(tasks, s, t, tasks')
    BY TaskIs
  <1>3. s = ui.session \/ (ui'.cursor = ui.cursor /\ ui'.graph = ui.graph)
    BY DEF IsCurrent
  <1>4. ExplorerSound(ui', tasks', stored', stores, catalog, jobs)
    BY <1>1, <1>2, <1>3, TaskStep
  <1> QED
    BY <1>4 DEF Sound

(* What is written down is what is drawn, or nothing. *)
LEMMA PersistsSound ==
  ASSUME StoredSound(stored, stores), NEW p \in Project, NEW u, DrawnAt(u.graph, u.cursor, p, stores),
         Persists(p, u)
  PROVE  StoredSound(stored', stores)
  <1>1. stored = [q \in Project |-> stored[q]]
        /\ \A q \in Project : DOMAIN stored[q] = {"cursor", "cache"} /\ CacheSound(stored[q].cache, q, stores)
    BY DEF StoredSound
  <1>2. \A q : CacheSound(None, q, stores)
    BY DEF CacheSound
  <1>3. CASE Saves(p, u)
    <2> DEFINE c == [cursor |-> u.cursor, graph |-> u.graph]
               x == [cursor |-> u.cursor, cache |-> c]
    <2>1. stored' = [stored EXCEPT ![p] = x]
      BY <1>3 DEF Saves
    <2>2. CacheSound(c, p, stores)
      BY DEF CacheSound
    <2>3. DOMAIN x = {"cursor", "cache"} /\ CacheSound(x.cache, p, stores)
      BY <2>2
    <2> HIDE DEF x
    <2> QED
      BY <1>1, <2>1, <2>3 DEF StoredSound
  <1>4. CASE FailsToSave(p)
    <2> DEFINE x == [stored[p] EXCEPT !.cache = None]
    <2>1. stored' = stored \/ stored' = [stored EXCEPT ![p] = x]
      BY <1>1, <1>4 DEF FailsToSave
    <2>2. DOMAIN x = {"cursor", "cache"} /\ CacheSound(x.cache, p, stores)
      BY <1>1, <1>2
    <2> HIDE DEF x
    <2> QED
      BY <1>1, <2>1, <2>2 DEF StoredSound
  <1> QED
    BY <1>3, <1>4 DEF Persists

(* A step that leaves the store alone, and what is written down. *)
LEMMA OnlyTask ==
  ASSUME Sound, NEW s \in Session, tasks[s].at # "ended", NEW t, Becomes(s, t),
         stores' = stores, catalog' = catalog, jobs' = jobs, ui' = ui, stored' = stored,
         t = Ended \/ (TaskSound(t, s, ui, stores, catalog) /\ t.project = tasks[s].project)
  PROVE  Sound' /\ Forward
  <1>1. UiSound(ui) /\ StoredSound(stored, stores)
    BY TaskIs
  <1>2. Sound'
    BY <1>1, SessionKeeps
  <1>3. ui.cursor \in Nat
    BY <1>1 DEF UiSound
  <1> QED
    BY <1>2, <1>3 DEF Forward

-----------------------------------------------------------------------------
(* Snapshots *)

(* What is asked for a session is asked by a session. *)
LEMMA AskedFor ==
  ASSUME Sound, NEW s \in Session, tasks[s].at # "ended", JobsSound(jobs),
         NEW w \in Worker, Occupy(w, tasks[s].project, s)
  PROVE  ExplorerSound(ui, tasks, stored, stores, catalog, jobs')
  <1> DEFINE j == Starting(tasks[s].project, s)
  <1>1. tasks[s] # Ended /\ s <= ui.session
    BY TaskIs DEF TaskSound
  <1>2. AskedSound(j, ui, tasks)
    BY <1>1 DEF AskedSound, Starting
  <1> HIDE DEF j
  <1>3. \A v \in Worker : jobs'[v] = IF v = w THEN j ELSE jobs[v]
    BY DEF JobsSound, Occupy, Takes, j
  <1>4. \A v \in Worker : AskedSound(jobs'[v], ui, tasks)
    BY <1>2, <1>3 DEF Sound, ExplorerSound
  <1> QED
    BY <1>4 DEF Sound, ExplorerSound

(* fetchSnapshot *)
LEMMA AsksSnapshotKeeps ==
  ASSUME ServerSound, mishaps = {}, Sound, NEW s \in Session, AsksSnapshot(s)
  PROVE  Sound' /\ Forward
  <1> DEFINE t == tasks[s]
             p == t.project
             shots == RecordIn(catalog, p).snapshots
             x == Head(shots)
             t1 == [t EXCEPT !.at = "answered", !.snapshot = x]
             t2 == [t EXCEPT !.at = "asked"]
  <1>1. /\ t.at = "ask" /\ stores' = stores /\ catalog' = catalog /\ ui' = ui /\ stored' = stored
        /\ \/ shots # <<>> /\ Becomes(s, t1) /\ jobs' = jobs
           \/ \E w \in Worker : Occupy(w, p, s) /\ Becomes(s, t2)
    BY RecordIs DEF AsksSnapshot, Answered
  <1>2. t.at # "ended"
    BY <1>1
  <1>3. /\ TaskSound(t, s, ui, stores, catalog) /\ UiSound(ui)
        /\ IsCurrent(s) => CurrentSound(t, ui, stores, catalog)
    BY <1>2, TaskIs
  <1>4. DOMAIN t = TaskFields /\ p \in Project
    BY <1>3 DEF TaskSound
  <1>5. CASE shots # <<>> /\ Becomes(s, t1) /\ jobs' = jobs
    <2>1. RecordSound(RecordIn(catalog, p))
      BY <1>4, Unharmed
    <2>2. x = shots[1] /\ LatestHead(catalog, p) = x.cursor
      BY <1>5, <2>1, LatestOfRecord DEF LatestHead
    <2>3. DrawnAt(x.graph, x.cursor, p, stores) /\ x.cursor \in Nat
      <3>1. DrawnAt(shots[1].graph, shots[1].cursor, p, stores)
        BY <1>4, <1>5 DEF Sound, ExplorerSound, LatestSound
      <3>2. Committed(stores[p]) \in Nat
        BY <1>4, Unharmed
      <3> QED
        BY <2>2, <3>1, <3>2 DEF DrawnAt
    <2> HIDE DEF x
    <2>4. AnswerSound(x, p, stores, catalog)
      BY <2>2, <2>3 DEF AnswerSound
    <2>5. /\ DOMAIN t1 = TaskFields /\ t1.at = "answered" /\ t1.snapshot = x /\ t1.in = t.in
          /\ t1.project = p /\ t1.last = t.last /\ t1.cursor = t.cursor /\ t1.stream = t.stream
      BY <1>4 DEF TaskFields
    <2> HIDE DEF t1
    <2>6. CurrentSound(t, ui, stores, catalog) => CurrentSound(t1, ui, stores, catalog)
      <3> SUFFICES ASSUME CurrentSound(t, ui, stores, catalog) PROVE CurrentSound(t1, ui, stores, catalog)
        OBVIOUS
      <3>1. t.in # "decide" => ui.cursor <= LatestHead(catalog, p) /\ ui.project = p
        BY <1>1 DEF CurrentSound, WaitingAt
      <3> DEFINE last == LatestHead(catalog, p)
      <3>2. t.in # "decide" => ui.cursor <= x.cursor
        BY <2>2, <3>1
      <3> QED
        BY <1>1, <2>5, <3>2 DEF CurrentSound, WaitingAt
    <2>7. TaskSound(t1, s, ui, stores, catalog)
      BY <1>1, <1>3, <1>4, <2>4, <2>5, <2>6 DEF TaskSound, WaitingAt, IsCurrent
    <2> QED
      BY <1>1, <1>2, <1>5, <2>5, <2>7, OnlyTask
  <1>6. CASE \E w \in Worker : Occupy(w, p, s) /\ Becomes(s, t2)
    <2>1. ExplorerSound(ui, tasks, stored, stores, catalog, jobs')
      BY <1>2, <1>6, AskedFor DEF ServerSound
    <2>2. /\ DOMAIN t2 = TaskFields /\ t2.at = "asked" /\ t2.in = t.in /\ t2.snapshot = t.snapshot
          /\ t2.project = p /\ t2.last = t.last /\ t2.cursor = t.cursor /\ t2.stream = t.stream
      BY <1>4 DEF TaskFields
    <2> HIDE DEF t2
    <2>3. CurrentSound(t, ui, stores, catalog) => CurrentSound(t2, ui, stores, catalog)
      BY <1>1, <2>2 DEF CurrentSound, WaitingAt
    <2>4. TaskSound(t2, s, ui, stores, catalog)
      BY <1>1, <1>3, <1>4, <2>2, <2>3 DEF TaskSound, WaitingAt, IsCurrent
    <2>5. tasks[s] # Ended /\ Replaced(tasks, s, t2, tasks') /\ StoredSound(stored, stores)
      BY <1>2, <1>6, TaskIs
    <2>6. ExplorerSound(ui, tasks', stored, stores, catalog, jobs')
      BY <1>3, <2>1, <2>2, <2>4, <2>5, TaskStep
    <2>7. ui.cursor \in Nat
      BY <1>3 DEF UiSound
    <2> QED
      BY <1>1, <2>6, <2>7 DEF Sound, Forward
  <1> QED
    BY <1>1, <1>5, <1>6

(* createSnapshot, and the answer to the session that asked *)
LEMMA SealsForKeeps ==
  ASSUME NoneIsNoRecord, ServerSound, mishaps' = {}, Sound, NEW w \in Worker, SealsFor(w)
  PROVE  Sound' /\ Forward
  <1> DEFINE s == jobs[w].for
             p == jobs[w].project
             x == Snapshot(w)
             t == tasks[s]
             t1 == [t EXCEPT !.at = "answered", !.snapshot = x]
  <1>1. /\ jobs[w].at = "head" /\ stores' = stores /\ ui' = ui /\ stored' = stored
        /\ IF s # None /\ t.at = "asked" THEN Becomes(s, t1) ELSE tasks' = tasks
    BY DEF SealsFor, Seals, Answered
  <1>2. /\ Moves(stores, catalog, jobs, stores', catalog', jobs') /\ p \in Project
        /\ DrawnAt(x.graph, x.cursor, p, stores) /\ x.cursor = LatestHead(catalog', p)
    BY SealsMove DEF SealsFor
  <1>3. ExplorerSound(ui, tasks, stored, stores', catalog', jobs')
    BY <1>2, MovesKeep DEF Sound, ServerSound
  <1>4. UiSound(ui) /\ StoredSound(stored, stores') /\ TasksSound(tasks, ui, stores', catalog') /\ ui.cursor \in Nat
    BY <1>3 DEF ExplorerSound, UiSound
  <1>5. CASE s # None /\ t.at = "asked" /\ Becomes(s, t1)
    <2>1. s \in Session /\ t # Ended /\ t.project = p
      <3>1. AskedSound(jobs[w], ui, tasks)
        BY DEF Sound, ExplorerSound
      <3>2. t # Ended
        BY <1>5 DEF Ended
      <3> QED
        BY <1>1, <1>5, <3>1, <3>2 DEF AskedSound
    <2>2. TaskSound(t, s, ui, stores', catalog') /\ Replaced(tasks, s, t1, tasks')
      BY <1>4, <1>5, <2>1 DEF TasksSound, Becomes, Replaced
    <2> HIDE DEF s, x, t, p
    <2>3. /\ DOMAIN t = TaskFields
          /\ s = ui.session => CurrentSound(t, ui, stores', catalog')
      BY <2>2 DEF TaskSound
    <2>4. /\ DOMAIN t1 = TaskFields /\ t1.at = "answered" /\ t1.snapshot = x /\ t1.in = t.in
          /\ t1.project = p /\ t1.last = t.last /\ t1.cursor = t.cursor /\ t1.stream = t.stream
      BY <2>1, <2>3 DEF TaskFields
    <2> HIDE DEF t1
    <2>5. AnswerSound(x, p, stores', catalog')
      <3>1. x.cursor \in Nat
        <4>1. Committed(stores[p]) \in Nat
          BY <1>2, HistoryIsSeq DEF ServerSound, StoresSound, StoreSound
        <4> QED
          BY <1>2, <4>1 DEF DrawnAt
      <3>2. x.cursor <= LatestHead(catalog', p)
        BY <1>2, <3>1
      <3> QED
        BY <1>1, <1>2, <3>2 DEF AnswerSound
    <2>6. ASSUME CurrentSound(t, ui, stores', catalog') PROVE CurrentSound(t1, ui, stores', catalog')
      <3>1. t.in # "decide" => ui.cursor <= LatestHead(catalog', p)
        BY <1>5, <2>1, <2>6 DEF CurrentSound, WaitingAt
      <3>2. t.in # "decide" => ui.cursor <= x.cursor
        BY <1>2, <3>1
      <3> QED
        BY <1>5, <2>1, <2>4, <2>6, <3>2 DEF CurrentSound, WaitingAt
    <2>7. TaskSound(t1, s, ui, stores', catalog')
      BY <1>5, <2>1, <2>2, <2>3, <2>4, <2>5, <2>6 DEF TaskSound, WaitingAt
    <2>8. t1.project = tasks[s].project /\ tasks[s] # Ended
      BY <2>1, <2>4 DEF t
    <2>9. ExplorerSound(ui, tasks', stored, stores', catalog', jobs')
      BY <1>3, <1>4, <2>1, <2>2, <2>7, <2>8, TaskStep
    <2> QED
      BY <1>1, <1>4, <2>9 DEF Sound, Forward
  <1>6. CASE tasks' = tasks
    BY <1>1, <1>3, <1>4, <1>6 DEF Sound, Forward
  <1> QED
    BY <1>1, <1>5, <1>6

(* The start of a session: the store is the snapshot, or what is cached.     *)
LEMMA BootstrapsKeeps ==
  ASSUME ServerSound, mishaps' = {}, Sound, NEW s \in Session, Bootstraps(s)
  PROVE  Sound' /\ Forward
  <1> DEFINE t == tasks[s]
             p == t.project
             x == t.snapshot
             used == UsesCache(t.last, x)
             g == IF used THEN t.last.cache.graph ELSE x.graph
             k == x.cursor
             v == [ui EXCEPT !.graph = g, !.cursor = k, !.ingested = k, !.pending = TRUE]
             forced == t.last.cache = None
             t1 == [t EXCEPT !.at = "poll", !.in = "replay", !.last = None, !.snapshot = None,
                             !.cursor = k, !.from = k, !.forced = forced]
  <1>1. /\ t.at = "answered" /\ t.in = "decide" /\ t.at # "ended"
        /\ stores' = stores /\ catalog' = catalog /\ jobs' = jobs /\ IsCurrent(s)
        /\ stored' = stored \/ stored' = [stored EXCEPT ![p].cache = None]
        /\ mishaps = {}
    BY DEF Bootstraps
  <1>2. ui' = v /\ Becomes(s, t1)
    BY <1>1 DEF Bootstraps
  <1>3. /\ TaskSound(t, s, ui, stores, catalog) /\ UiSound(ui) /\ StoredSound(stored, stores)
        /\ CurrentSound(t, ui, stores, catalog)
    BY <1>1, TaskIs
  <1>4. /\ DOMAIN t = TaskFields /\ p \in Project /\ catalog[p] # None
        /\ AnswerSound(x, p, stores, catalog) /\ CacheSound(t.last.cache, p, stores)
        /\ s <= ui.session /\ s = ui.session
    BY <1>1, <1>3 DEF TaskSound, IsCurrent
  <1>5. ui.cursor = 0 /\ p = ui.project /\ t.stream = None
    BY <1>1, <1>3 DEF CurrentSound
  <1>6. DrawnAt(x.graph, k, p, stores) /\ k <= LatestHead(catalog, p)
    BY <1>4 DEF AnswerSound
  <1>7. k \in Nat
    <2>1. Committed(stores[p]) \in Nat
      BY <1>1, <1>4, Unharmed
    <2> QED
      BY <1>6, <2>1 DEF DrawnAt
  <1>8. DrawnAt(g, k, p, stores)
    <2>1. used => t.last.cache # None /\ t.last.cache.cursor = k
      BY DEF UsesCache
    <2>2. used => DrawnAt(t.last.cache.graph, k, p, stores)
      BY <1>4, <2>1 DEF CacheSound
    <2> QED
      BY <1>6, <2>2
  <1> HIDE DEF x, used, g, k, forced
  <1>9. /\ DOMAIN v = UiFields /\ v.session = ui.session /\ v.project = ui.project
        /\ v.graph = g /\ v.cursor = k /\ v.ingested = k /\ v.seen = ui.seen
    <2>1. DOMAIN ui = UiFields
      BY <1>3 DEF UiSound
    <2> QED
      BY <2>1 DEF UiFields
  <1>10. /\ DOMAIN t1 = TaskFields /\ t1.at = "poll" /\ t1.in = "replay" /\ t1.project = p
         /\ t1.cursor = k /\ t1.stream = None
    BY <1>4, <1>5 DEF TaskFields
  <1> HIDE DEF v, t1
  <1>11. UiSound(v)
    <2>1. \A e \in v.seen : e.tx.n \in Nat /\ e.tx.n <= v.cursor
      <3> SUFFICES ASSUME NEW e \in ui.seen PROVE e.tx.n \in Nat /\ e.tx.n <= k
        BY <1>9
      <3>1. e.tx.n \in Nat /\ e.tx.n <= 0
        BY <1>3, <1>5 DEF UiSound
      <3> QED
        BY <1>7, <3>1
    <2>2. v.session \in 0 .. MaxSessions
      BY <1>3, <1>9 DEF UiSound
    <2> QED
      BY <1>7, <1>9, <2>1, <2>2 DEF UiSound
  <1>12. CurrentSound(t1, v, stores, catalog)
    <2>1. v.cursor <= LatestHead(catalog, v.project)
      BY <1>5, <1>6, <1>9
    <2>2. DrawnAt(v.graph, v.cursor, v.project, stores)
      BY <1>5, <1>8, <1>9
    <2> QED
      BY <1>5, <1>9, <1>10, <2>1, <2>2 DEF CurrentSound, WaitingAt
  <1>13. TaskSound(t1, s, v, stores, catalog)
    BY <1>4, <1>9, <1>10, <1>12 DEF TaskSound, WaitingAt
  <1>14. StoredSound(stored', stores)
    <2> DEFINE y == [stored[p] EXCEPT !.cache = None]
    <2>1. stored' = stored \/ stored' = [stored EXCEPT ![p] = y]
      BY <1>1
    <2>2. stored = [q \in Project |-> stored[q]]
          /\ \A q \in Project : DOMAIN stored[q] = {"cursor", "cache"} /\ CacheSound(stored[q].cache, q, stores)
      BY <1>3 DEF StoredSound
    <2>3. DOMAIN y = {"cursor", "cache"} /\ CacheSound(y.cache, p, stores)
      BY <1>4, <2>2 DEF CacheSound
    <2> HIDE DEF y, p
    <2> QED
      BY <1>3, <1>4, <2>1, <2>2, <2>3 DEF StoredSound
  <1>15. Sound'
    BY <1>1, <1>2, <1>9, <1>10, <1>11, <1>13, <1>14, SessionKeeps
  <1> QED
    BY <1>2, <1>5, <1>7, <1>9, <1>15 DEF Forward

-----------------------------------------------------------------------------
(* Events *)

(* What a session that polls or reads its stream has. *)
LEMMA Following ==
  ASSUME ServerSound, mishaps = {}, Sound, NEW s \in Session, tasks[s].at \notin WaitingAt \cup {"ended"}
  PROVE  /\ IsCurrent(s) /\ s = ui.session /\ tasks[s].in # "decide" /\ DOMAIN tasks[s] = TaskFields
         /\ tasks[s].project = ui.project /\ ui.project \in Project /\ catalog[ui.project] # None
         /\ TaskSound(tasks[s], s, ui, stores, catalog)
         /\ CurrentSound(tasks[s], ui, stores, catalog)
         /\ UiSound(ui) /\ ui.cursor \in Nat /\ StoredSound(stored, stores)
         /\ DrawnAt(ui.graph, ui.cursor, ui.project, stores)
         /\ Record(ui.project).min \in Nat /\ Record(ui.project) = RecordIn(catalog, ui.project)
         /\ StoreSound(stores[ui.project]) /\ Lost(stores[ui.project]) = 0
         /\ Committed(stores[ui.project]) \in Nat
         /\ ui.cursor \in 0 .. Committed(stores[ui.project])
  <1> DEFINE t == tasks[s]
  <1>1. t.at # "ended" /\ t.at \notin WaitingAt
    OBVIOUS
  <1>2. /\ TaskSound(t, s, ui, stores, catalog) /\ UiSound(ui) /\ StoredSound(stored, stores)
        /\ IsCurrent(s) /\ CurrentSound(t, ui, stores, catalog)
    BY <1>1, TaskIs
  <1>3. s = ui.session /\ DOMAIN t = TaskFields /\ t.project \in Project /\ catalog[t.project] # None
    BY <1>2 DEF IsCurrent, TaskSound
  <1>4. t.project = ui.project /\ t.in # "decide"
    BY <1>1, <1>2 DEF CurrentSound
  <1>5. DrawnAt(ui.graph, ui.cursor, ui.project, stores)
    BY <1>2, <1>4 DEF CurrentSound
  <1>6. Record(ui.project).min \in Nat /\ Record(ui.project) = RecordIn(catalog, ui.project)
    BY <1>3, <1>4, RecordIs, RecordFields DEF ServerSound, CatalogSound
  <1>7. /\ StoreSound(stores[ui.project]) /\ Lost(stores[ui.project]) = 0
        /\ Committed(stores[ui.project]) \in Nat
    BY <1>3, <1>4, Unharmed
  <1>8. ui.cursor \in Nat /\ ui.cursor \in 0 .. Committed(stores[ui.project])
    BY <1>2, <1>5 DEF UiSound, DrawnAt
  <1> HIDE DEF t
  <1> QED
    BY <1>2, <1>3, <1>4, <1>5, <1>6, <1>7, <1>8 DEF t

(* applyCursorIfAdvanced, of what comes next. *)
LEMMA Applied ==
  ASSUME NEW p \in Project, p = ui.project, UiSound(ui), StoreSound(stores[p]),
         DrawnAt(ui.graph, ui.cursor, p, stores), StoredSound(stored, stores),
         NEW txs, ComesAfter(txs, ui.cursor, stores[p]), Len(txs) # 0,
         NEW by, ApplyIfAdvanced(p, From(by, txs), ui.cursor + Len(txs))
  PROVE  /\ UiSound(ui') /\ ui'.session = ui.session /\ ui'.project = p
         /\ ui'.cursor = ui.cursor + Len(txs) /\ ui'.cursor >= ui.cursor /\ ui'.cursor \in Nat
         /\ DrawnAt(ui'.graph, ui'.cursor, p, stores) /\ StoredSound(stored', stores)
  <1> DEFINE k == ui.cursor + Len(txs)
             v == Ingest(ui, From(by, txs), k)
  <1>1. Len(txs) \in Nat /\ Len(txs) # 0
    BY DEF ComesAfter, IsSeq
  <1>2. ui.cursor \in Nat /\ ui.ingested \in Nat /\ ui.ingested <= ui.cursor
    BY DEF UiSound
  <1>3. Advances(ui, k) /\ k \in Nat
    BY <1>1, <1>2 DEF Advances
  <1>4. /\ UiSound(v) /\ v.session = ui.session /\ v.project = ui.project
        /\ v.cursor = k /\ v.cursor >= ui.cursor /\ DrawnAt(v.graph, v.cursor, p, stores)
    BY Ingested
  <1> HIDE DEF v
  <1>5. ui' = v /\ (stored' = stored \/ Persists(p, v))
    BY <1>3 DEF ApplyIfAdvanced, v
  <1>6. StoredSound(stored', stores)
    BY <1>4, <1>5, PersistsSound
  <1> QED
    BY <1>3, <1>4, <1>5, <1>6

(* pollReplayFromCursor, of an answer with events *)
LEMMA PollsKeeps ==
  ASSUME ServerSound, mishaps = {}, Sound, NEW s \in Session, Polls(s)
  PROVE  Sound' /\ Forward
  <1> DEFINE t == tasks[s]
             p == ui.project
             got == Page(stores[p], ui.cursor, PollLimit)
             k == ui.cursor + Len(got)
             t1 == [t EXCEPT !.cursor = k]
  <1>1. t.at = "poll" /\ t.at \notin WaitingAt \cup {"ended"} /\ t.at # "ended"
    BY DEF Polls, WaitingAt
  <1>2. /\ IsCurrent(s) /\ s = ui.session /\ t.in # "decide" /\ DOMAIN t = TaskFields
        /\ t.project = p /\ p \in Project /\ catalog[p] # None
        /\ TaskSound(t, s, ui, stores, catalog) /\ CurrentSound(t, ui, stores, catalog)
        /\ UiSound(ui) /\ ui.cursor \in Nat /\ StoredSound(stored, stores)
        /\ DrawnAt(ui.graph, ui.cursor, p, stores)
        /\ Record(p).min \in Nat /\ Record(p) = RecordIn(catalog, p)
        /\ StoreSound(stores[p]) /\ Lost(stores[p]) = 0 /\ ui.cursor \in 0 .. Committed(stores[p])
    BY <1>1, Following
  <1>3. t.cursor = ui.cursor
    BY <1>1, <1>2 DEF CurrentSound
  <1> HIDE DEF t, p
  <1>4. /\ stores' = stores /\ catalog' = catalog /\ jobs' = jobs
        /\ got # <<>> /\ ApplyIfAdvanced(p, From("poll", got), k) /\ Becomes(s, t1)
        /\ ui.cursor >= Record(p).min
    BY <1>2, <1>3 DEF Polls, Polled, IsReadable, serverVars, t
  <1>5. ComesAfter(got, ui.cursor, stores[p]) /\ Len(got) # 0
    BY <1>2, <1>4, PageComesAfter, ExplorerConstants
  <1> HIDE DEF got
  <1>6. /\ UiSound(ui') /\ ui'.session = ui.session /\ ui'.project = p
        /\ ui'.cursor = k /\ ui'.cursor >= ui.cursor /\ ui'.cursor \in Nat
        /\ DrawnAt(ui'.graph, ui'.cursor, p, stores) /\ StoredSound(stored', stores)
    BY <1>2, <1>4, <1>5, Applied DEF p
  <1>7. /\ DOMAIN t1 = TaskFields /\ t1.at = "poll" /\ t1.in = t.in /\ t1.project = p
        /\ t1.cursor = ui'.cursor /\ t1.stream = t.stream /\ t1.last = t.last
    BY <1>1, <1>2, <1>6 DEF TaskFields, t
  <1> HIDE DEF t1
  <1> DEFINE min == RecordIn(catalog, p).min
  <1>8. ui'.cursor >= min /\ ui.cursor >= min /\ min \in Nat
    <2>1. min \in Nat /\ ui.cursor >= min
      BY <1>2, <1>4
    <2> HIDE DEF min
    <2> QED
      BY <1>2, <1>6, <2>1
  <1> HIDE DEF min
  <1>9. ~(ui'.cursor < min)
    BY <1>6, <1>8
  <1>10. CurrentSound(t1, ui', stores, catalog)
    <2>1. t1.stream # None => StreamSound(t1.stream, p, stores)
      BY <1>2, <1>7 DEF CurrentSound
    <2> QED
      BY <1>2, <1>6, <1>7, <1>8, <1>9, <2>1 DEF CurrentSound, WaitingAt, min
  <1>11. TaskSound(t1, s, ui', stores, catalog)
    <2>1. s <= ui'.session /\ s = ui'.session
      BY <1>2, <1>6 DEF TaskSound
    <2> QED
      BY <1>2, <1>6, <1>7, <1>10, <2>1 DEF TaskSound
  <1>12. t1.project = tasks[s].project /\ ui'.project = ui.project /\ tasks[s].at # "ended"
    BY <1>1, <1>2, <1>6, <1>7 DEF t, p
  <1>13. Sound'
    BY <1>2, <1>4, <1>6, <1>11, <1>12, SessionKeeps
  <1> QED
    BY <1>6, <1>13 DEF Forward

(* 410 *)
LEMMA PollsTooOldKeeps ==
  ASSUME ServerSound, mishaps = {}, Sound, NEW s \in Session, PollsTooOld(s)
  PROVE  Sound' /\ Forward
  <1> DEFINE t == tasks[s]
             p == ui.project
             t1 == [t EXCEPT !.at = "ask"]
  <1>1. /\ t.at = "poll" /\ t.at \notin WaitingAt \cup {"ended"} /\ t.at # "ended" /\ Becomes(s, t1)
        /\ stores' = stores /\ catalog' = catalog /\ jobs' = jobs /\ ui' = ui /\ stored' = stored
        /\ ~(t.cursor >= Record(t.project).min)
    BY DEF PollsTooOld, WaitingAt, serverVars, IsReadable
  <1>2. /\ IsCurrent(s) /\ s = ui.session /\ t.in # "decide" /\ DOMAIN t = TaskFields
        /\ t.project = p /\ p \in Project /\ catalog[p] # None
        /\ TaskSound(t, s, ui, stores, catalog) /\ CurrentSound(t, ui, stores, catalog)
        /\ ui.cursor \in Nat /\ Record(p).min \in Nat /\ Record(p) = RecordIn(catalog, p)
    BY <1>1, Following
  <1>3. t.cursor = ui.cursor
    BY <1>1, <1>2 DEF CurrentSound
  <1>4. /\ DOMAIN t1 = TaskFields /\ t1.at = "ask" /\ t1.in = t.in /\ t1.project = p
        /\ t1.cursor = t.cursor /\ t1.stream = t.stream /\ t1.last = t.last
    BY <1>2 DEF TaskFields
  <1> HIDE DEF t, t1, p
  <1>5. ui.cursor < RecordIn(catalog, p).min
    <2> DEFINE min == Record(p).min
    <2>1. min \in Nat /\ ~(ui.cursor >= min)
      BY <1>1, <1>2, <1>3
    <2> HIDE DEF min
    <2>2. ui.cursor < min
      BY <1>2, <2>1
    <2> QED
      BY <1>2, <2>2 DEF min
  <1>6. CurrentSound(t1, ui, stores, catalog)
    BY <1>1, <1>2, <1>3, <1>4, <1>5 DEF CurrentSound, WaitingAt, p
  <1>7. TaskSound(t1, s, ui, stores, catalog)
    BY <1>2, <1>4, <1>6 DEF TaskSound, WaitingAt
  <1>8. t1.project = tasks[s].project /\ tasks[s].at # "ended"
    BY <1>1, <1>2, <1>4 DEF t
  <1> QED
    BY <1>1, <1>7, <1>8, OnlyTask

-----------------------------------------------------------------------------
(* The end of a replay, or of a fallback *)

(* What is left of a session that goes on to its stream. *)
LEMMA GoesOn ==
  ASSUME Sound, NEW s \in Session, tasks[s].at # "ended", IsCurrent(s), tasks[s].in # "decide",
         NEW v, UiSound(v), v.session = ui.session, v.project = ui.project, v.cursor >= ui.cursor,
         DrawnAt(v.graph, v.cursor, v.project, stores),
         v.cursor < RecordIn(catalog, v.project).min => v.cursor <= LatestHead(catalog, v.project),
         RecordIn(catalog, v.project).min \in Nat,
         NEW t1, DOMAIN t1 = TaskFields, t1.project = tasks[s].project, t1.in # "decide",
         t1.stream = tasks[s].stream, t1.at = "subscribe" \/ (t1.at = "stream" /\ t1.stream # None)
  PROVE  TaskSound(t1, s, v, stores, catalog)
  <1> DEFINE t == tasks[s]
             min == RecordIn(catalog, v.project).min
  <1>1. /\ TaskSound(t, s, ui, stores, catalog) /\ CurrentSound(t, ui, stores, catalog) /\ UiSound(ui)
    BY TaskIs
  <1>2. s = ui.session /\ t.project \in Project /\ catalog[t.project] # None /\ t.project = ui.project
        /\ s <= v.session
    BY <1>1 DEF IsCurrent, TaskSound, CurrentSound
  <1>3. t.stream # None => StreamSound(t.stream, t.project, stores) /\ ui.cursor >= min
    BY <1>1 DEF CurrentSound
  <1>4. ui.cursor \in Nat /\ v.cursor \in Nat
    BY <1>1 DEF UiSound
  <1> HIDE DEF t, min
  <1>5. t.stream # None => v.cursor >= min
    BY <1>3, <1>4 DEF min
  <1>6. CurrentSound(t1, v, stores, catalog)
    BY <1>2, <1>3, <1>5 DEF CurrentSound, WaitingAt, t, min
  <1> QED
    BY <1>2, <1>6 DEF TaskSound, t

(* Finishes, whatever ends it, with a store u that is drawn at the end. *)
LEMMA FinishesKeeps ==
  ASSUME ServerSound, mishaps = {}, Sound, NEW s \in Session, tasks[s].at # "ended", tasks[s].in # "decide",
         NEW u, UiSound(u), u.session = ui.session, u.project = ui.project,
         IsCurrent(s) \/ (u.cursor = ui.cursor /\ u.graph = ui.graph),
         NEW final, Finishes(s, u, final), stores' = stores, catalog' = catalog, jobs' = jobs,
         IsCurrent(s) => /\ u.cursor = final /\ final >= ui.cursor
                         /\ DrawnAt(u.graph, final, u.project, stores)
                         /\ final < RecordIn(catalog, u.project).min => final <= LatestHead(catalog, u.project)
  PROVE  Sound' /\ Forward
  <1> DEFINE t == tasks[s]
  <1>1. /\ TaskSound(t, s, ui, stores, catalog) /\ UiSound(ui) /\ StoredSound(stored, stores)
        /\ IsCurrent(s) => CurrentSound(t, ui, stores, catalog)
    BY TaskIs
  <1>2. DOMAIN t = TaskFields /\ t.project \in Project /\ ui.cursor \in Nat /\ u.cursor \in Nat
    BY <1>1 DEF TaskSound, UiSound
  <1>3. CASE ~IsCurrent(s)
    <2> DEFINE v == [u EXCEPT !.pending = u.pending /\ t.in # "replay"]
    <2>1. ui' = v /\ Becomes(s, Ended) /\ stored' = stored
      BY <1>3 DEF Finishes
    <2>2. /\ DOMAIN v = UiFields /\ v.session = u.session /\ v.project = u.project
          /\ v.graph = u.graph /\ v.cursor = u.cursor /\ v.ingested = u.ingested /\ v.seen = u.seen
      <3> DEFINE pending == u.pending /\ t.in # "replay"
      <3>1. DOMAIN u = UiFields
        BY DEF UiSound
      <3> HIDE DEF pending
      <3> QED
        BY <3>1 DEF UiFields
    <2> HIDE DEF v
    <2>3. UiSound(v)
      BY <2>2 DEF UiSound
    <2>4. Sound'
      BY <1>1, <1>3, <2>1, <2>2, <2>3, SessionKeeps
    <2> QED
      BY <1>2, <1>3, <2>1, <2>2, <2>4 DEF Forward
  <1>4. CASE IsCurrent(s) /\ t.in = "replay"
    <2> DEFINE v == [u EXCEPT !.pending = FALSE, !.cursor = final]
               t1 == [t EXCEPT !.at = "subscribe", !.in = "replay", !.cursor = 0, !.from = 0,
                               !.forced = FALSE, !.snapshot = None]
    <2>1. /\ ui' = v /\ Becomes(s, t1)
          /\ stored' = stored \/ Persists(t.project, v)
      BY <1>4 DEF Finishes, FinishesReplay, Rebuilt
    <2>2. /\ DOMAIN v = UiFields /\ v.session = u.session /\ v.project = u.project
          /\ v.graph = u.graph /\ v.cursor = u.cursor /\ v.ingested = u.ingested /\ v.seen = u.seen
          /\ v.cursor = final
      <3>1. DOMAIN u = UiFields
        BY DEF UiSound
      <3> QED
        BY <1>4, <3>1 DEF UiFields
    <2>3. /\ DOMAIN t1 = TaskFields /\ t1.project = t.project /\ t1.in = "replay"
          /\ t1.stream = t.stream /\ t1.at = "subscribe"
      BY <1>2 DEF TaskFields
    <2> HIDE DEF v, t1
    <2>4. UiSound(v)
      BY <2>2 DEF UiSound
    <2>5. t.project = ui.project /\ catalog[t.project] # None
      BY <1>1, <1>4 DEF CurrentSound, TaskSound
    <2>6. RecordIn(catalog, v.project).min \in Nat
      BY <1>2, <2>2, <2>5, RecordFields DEF ServerSound, CatalogSound
    <2>7. DrawnAt(v.graph, v.cursor, v.project, stores)
      BY <1>4, <2>2
    <2>8. v.cursor < RecordIn(catalog, v.project).min => v.cursor <= LatestHead(catalog, v.project)
      BY <1>4, <2>2
    <2>9. v.cursor >= ui.cursor
      BY <1>4, <2>2
    <2>10. TaskSound(t1, s, v, stores, catalog)
      BY <1>4, <2>2, <2>3, <2>4, <2>6, <2>7, <2>8, <2>9, GoesOn
    <2>11. StoredSound(stored', stores)
      BY <1>1, <1>2, <2>1, <2>2, <2>5, <2>7, PersistsSound
    <2>12. Sound'
      BY <1>4, <2>1, <2>2, <2>3, <2>4, <2>10, <2>11, SessionKeeps
    <2> QED
      BY <2>1, <2>9, <2>12 DEF Forward
  <1>5. CASE IsCurrent(s) /\ t.in # "replay"
    <2> DEFINE v == [u EXCEPT !.cursor = final]
               at == IF t.stream = None THEN "subscribe" ELSE "stream"
               t1 == [t EXCEPT !.at = at, !.cursor = 0, !.from = 0, !.snapshot = None]
    <2>1. /\ Becomes(s, t1)
          /\ \/ ui' = v /\ Saves(t.project, v)
             \/ ui' = u /\ FailsToSave(t.project)
             \/ ui' = u /\ stored' = stored
      BY <1>5 DEF Finishes, FinishesFallback
    <2>2. /\ DOMAIN t1 = TaskFields /\ t1.project = t.project /\ t1.in = t.in
          /\ t1.stream = t.stream /\ t1.at = at
      <3> HIDE DEF at
      <3> QED
        BY <1>2 DEF TaskFields
    <2> HIDE DEF v, t1
    <2>3. t1.at = "subscribe" \/ (t1.at = "stream" /\ t1.stream # None)
      BY <2>2
    <2> HIDE DEF at
    <2>4. PICK w : w \in {u, v} /\ ui' = w /\ (stored' = stored \/ Persists(t.project, w))
      BY <2>1 DEF Persists
    <2>5. /\ DOMAIN w = UiFields /\ w.session = u.session /\ w.project = u.project
          /\ w.graph = u.graph /\ w.cursor = u.cursor /\ w.ingested = u.ingested /\ w.seen = u.seen
          /\ w.cursor = final
      <3>1. DOMAIN u = UiFields /\ u.cursor = final
        BY <1>5 DEF UiSound
      <3>2. /\ DOMAIN v = UiFields /\ v.session = u.session /\ v.project = u.project
            /\ v.graph = u.graph /\ v.cursor = u.cursor /\ v.ingested = u.ingested /\ v.seen = u.seen
        BY <3>1 DEF v, UiFields
      <3> QED
        BY <2>4, <3>1, <3>2
    <2>6. UiSound(w)
      BY <2>5 DEF UiSound
    <2>7. t.project = ui.project /\ catalog[t.project] # None
      BY <1>1, <1>5 DEF CurrentSound, TaskSound
    <2>8. RecordIn(catalog, w.project).min \in Nat
      BY <1>2, <2>5, <2>7, RecordFields DEF ServerSound, CatalogSound
    <2>9. DrawnAt(w.graph, w.cursor, w.project, stores) /\ w.cursor >= ui.cursor
      BY <1>5, <2>5
    <2>10. w.cursor < RecordIn(catalog, w.project).min => w.cursor <= LatestHead(catalog, w.project)
      BY <1>5, <2>5
    <2>11. TaskSound(t1, s, w, stores, catalog)
      BY <1>5, <2>2, <2>3, <2>5, <2>6, <2>8, <2>9, <2>10, GoesOn
    <2>12. StoredSound(stored', stores)
      BY <1>1, <1>2, <2>4, <2>5, <2>7, <2>9, PersistsSound
    <2>13. Sound'
      BY <1>5, <2>1, <2>2, <2>4, <2>5, <2>6, <2>11, <2>12, SessionKeeps
    <2> QED
      BY <2>4, <2>9, <2>13 DEF Forward
  <1> QED
    BY <1>3, <1>4, <1>5

(* The end is where the store is. *)
LEMMA FinishesHere ==
  ASSUME ServerSound, mishaps = {}, Sound, NEW s \in Session, tasks[s].at \in {"ask", "asked", "poll"},
         tasks[s].in # "decide",
         Finishes(s, ui, tasks[s].cursor), stores' = stores, catalog' = catalog, jobs' = jobs
  PROVE  Sound' /\ Forward
  <1> DEFINE t == tasks[s]
  <1>1. t.at # "ended" /\ t.at \in WaitingAt \cup {"poll"}
    BY DEF WaitingAt
  <1>2. UiSound(ui) /\ (IsCurrent(s) => CurrentSound(t, ui, stores, catalog))
    BY <1>1, TaskIs
  <1>3. ui.cursor \in Nat
    BY <1>2 DEF UiSound
  <1>4. ASSUME IsCurrent(s)
        PROVE  /\ ui.cursor = t.cursor /\ t.cursor >= ui.cursor
               /\ DrawnAt(ui.graph, t.cursor, ui.project, stores)
               /\ t.cursor < RecordIn(catalog, ui.project).min => t.cursor <= LatestHead(catalog, ui.project)
    <2>1. /\ DrawnAt(ui.graph, ui.cursor, ui.project, stores) /\ t.cursor = ui.cursor
          /\ ui.cursor < RecordIn(catalog, ui.project).min => ui.cursor <= LatestHead(catalog, ui.project)
      BY <1>1, <1>2, <1>4 DEF CurrentSound
    <2> QED
      BY <1>3, <2>1
  <1> HIDE DEF t
  <1>5. Finishes(s, ui, t.cursor) /\ tasks[s].at # "ended"
    BY <1>1 DEF t
  <1> QED
    BY <1>2, <1>4, <1>5, FinishesKeeps

(* An answer without events *)
LEMMA PollsNothingKeeps ==
  ASSUME ServerSound, mishaps = {}, Sound, NEW s \in Session, PollsNothing(s) \/ PollFails(s)
  PROVE  Sound' /\ Forward
  <1>1. /\ tasks[s].at = "poll" /\ Finishes(s, ui, tasks[s].cursor)
        /\ stores' = stores /\ catalog' = catalog /\ jobs' = jobs
    BY DEF PollsNothing, PollFails, serverVars
  <1>2. tasks[s].in # "decide"
    BY <1>1, Following DEF WaitingAt
  <1> QED
    BY <1>1, <1>2, FinishesHere

(* A snapshot after a 410 *)
LEMMA BootstrapsAgainKeeps ==
  ASSUME ServerSound, mishaps' = {}, Sound, NEW s \in Session, BootstrapsAgain(s)
  PROVE  Sound' /\ Forward
  <1> DEFINE t == tasks[s]
             x == t.snapshot
             g == x.graph
             k == x.cursor
             u == [ui EXCEPT !.graph = g, !.cursor = k]
  <1>1. /\ t.at = "answered" /\ t.in # "decide" /\ t.at # "ended" /\ t.at \in WaitingAt
        /\ Finishes(s, u, k) /\ IsCurrent(s) /\ mishaps = {}
        /\ stores' = stores /\ catalog' = catalog /\ jobs' = jobs
    BY DEF BootstrapsAgain, WaitingAt
  <1>2. /\ TaskSound(t, s, ui, stores, catalog) /\ UiSound(ui) /\ CurrentSound(t, ui, stores, catalog)
    BY <1>1, TaskIs
  <1>3. t.project = ui.project /\ ui.cursor <= k /\ ui.project \in Project
    BY <1>1, <1>2 DEF CurrentSound, TaskSound
  <1>4. DrawnAt(g, k, ui.project, stores) /\ k <= LatestHead(catalog, ui.project)
    BY <1>1, <1>2, <1>3 DEF TaskSound, AnswerSound
  <1>5. k \in Nat /\ ui.cursor \in Nat /\ ui.ingested \in Nat /\ ui.ingested <= ui.cursor
    <2>1. Committed(stores[ui.project]) \in Nat
      BY <1>1, <1>3, Unharmed
    <2> QED
      BY <1>2, <1>4, <2>1 DEF DrawnAt, UiSound
  <1> HIDE DEF t, g, k
  <1>6. /\ DOMAIN u = UiFields /\ u.session = ui.session /\ u.project = ui.project
        /\ u.graph = g /\ u.cursor = k /\ u.ingested = ui.ingested /\ u.seen = ui.seen
    <2>1. DOMAIN ui = UiFields
      BY <1>2 DEF UiSound
    <2> QED
      BY <2>1 DEF UiFields
  <1> HIDE DEF u
  <1>7. UiSound(u)
    <2>1. \A e \in u.seen : e.tx.n \in Nat /\ e.tx.n <= u.cursor
      <3> SUFFICES ASSUME NEW e \in ui.seen PROVE e.tx.n \in Nat /\ e.tx.n <= k
        BY <1>6
      <3>1. e.tx.n \in Nat /\ e.tx.n <= ui.cursor
        BY <1>2 DEF UiSound
      <3> QED
        BY <1>3, <1>5, <3>1
    <2>2. u.session \in 0 .. MaxSessions /\ u.ingested <= u.cursor
      BY <1>2, <1>3, <1>5, <1>6 DEF UiSound
    <2> QED
      BY <1>5, <1>6, <2>1, <2>2 DEF UiSound
  <1>8. /\ u.cursor = k /\ k >= ui.cursor /\ DrawnAt(u.graph, k, u.project, stores)
        /\ k < RecordIn(catalog, u.project).min => k <= LatestHead(catalog, u.project)
    BY <1>3, <1>4, <1>5, <1>6
  <1>9. tasks[s].at # "ended" /\ tasks[s].in # "decide"
    BY <1>1 DEF t
  <1> QED
    BY <1>1, <1>6, <1>7, <1>8, <1>9, FinishesKeeps

-----------------------------------------------------------------------------
(* Streams *)

(* Nothing comes after every cursor there is. *)
LEMMA NothingComesAfter ==
  ASSUME NEW sp, NEW c \in Nat, Committed(sp) \in Nat, c <= Committed(sp)
  PROVE  ComesAfter(<<>>, c, sp)
  <1>1. IsSeq(<<>>) /\ Len(<<>>) = 0
    BY DEF IsSeq
  <1>2. c + Len(<<>>) <= Committed(sp) /\ \A i \in 1 .. Len(<<>>) : FALSE
    BY <1>1
  <1> QED
    BY <1>1, <1>2 DEF ComesAfter

(* The stream of a session that is replaced by another that is sound. *)
LEMMA StreamReplaced ==
  ASSUME ServerSound, mishaps = {}, Sound, NEW s \in Session, tasks[s].at \notin WaitingAt \cup {"ended"},
         NEW t1, DOMAIN t1 = TaskFields, t1.project = tasks[s].project, t1.in # "decide",
         t1.at \in {"poll", "stream", "subscribe"}, t1.at = "poll" => t1.cursor = ui.cursor,
         t1.stream # None \/ t1.at = "stream" =>
           StreamSound(t1.stream, ui.project, stores) /\ ui.cursor >= Record(ui.project).min,
         Becomes(s, t1), stores' = stores, catalog' = catalog, jobs' = jobs, ui' = ui, stored' = stored
  PROVE  Sound' /\ Forward
  <1> DEFINE t == tasks[s]
             p == ui.project
  <1>1. /\ IsCurrent(s) /\ s = ui.session /\ t.in # "decide"
        /\ t.project = p /\ p \in Project /\ catalog[p] # None
        /\ TaskSound(t, s, ui, stores, catalog) /\ CurrentSound(t, ui, stores, catalog)
        /\ DrawnAt(ui.graph, ui.cursor, p, stores)
        /\ Record(p) = RecordIn(catalog, p)
    BY Following
  <1> HIDE DEF t
  <1>2. ui.cursor < RecordIn(catalog, p).min => ui.cursor <= LatestHead(catalog, p)
    BY <1>1 DEF CurrentSound
  <1>3. CurrentSound(t1, ui, stores, catalog)
    BY <1>1, <1>2 DEF CurrentSound, WaitingAt, t
  <1>4. TaskSound(t1, s, ui, stores, catalog) /\ t.at # "ended"
    BY <1>1, <1>3 DEF TaskSound, WaitingAt, t
  <1> QED
    BY <1>4, OnlyTask DEF t

(* A subscription begins *)
LEMMA SubscribesKeeps ==
  ASSUME ServerSound, mishaps = {}, Sound, NEW s \in Session, Subscribes(s)
  PROVE  Sound' /\ Forward
  <1> DEFINE t == tasks[s]
             p == ui.project
             x == [at |-> ui.cursor, txs |-> <<>>]
             t1 == [t EXCEPT !.at = "stream", !.stream = x]
  <1>1. /\ t.at = "subscribe" /\ t.at \notin WaitingAt \cup {"ended"} /\ Becomes(s, t1)
        /\ stores' = stores /\ catalog' = catalog /\ jobs' = jobs /\ ui' = ui /\ stored' = stored
        /\ ui.cursor >= Record(t.project).min
    BY DEF Subscribes, StreamFrom, WaitingAt, serverVars
  <1>2. /\ t.in # "decide" /\ DOMAIN t = TaskFields /\ t.project = p
        /\ ui.cursor \in Nat /\ Committed(stores[p]) \in Nat /\ ui.cursor \in 0 .. Committed(stores[p])
    BY <1>1, Following
  <1>3. StreamSound(x, p, stores)
    <2>1. Len(x.txs) = 0 /\ x.txs = <<>> /\ x.at = ui.cursor /\ DOMAIN x = {"at", "txs"}
      OBVIOUS
    <2> HIDE DEF x
    <2>2. ComesAfter(<<>>, ui.cursor, stores[p])
      BY <1>2, NothingComesAfter
    <2>3. x.at - Len(x.txs) = ui.cursor
      BY <1>2, <2>1
    <2> QED
      BY <1>2, <2>1, <2>2, <2>3 DEF StreamSound
  <1> HIDE DEF x
  <1>4. /\ DOMAIN t1 = TaskFields /\ t1.at = "stream" /\ t1.in = t.in /\ t1.project = t.project
        /\ t1.stream = x
    BY <1>2 DEF TaskFields
  <1> HIDE DEF t1
  <1> QED
    BY <1>1, <1>2, <1>3, <1>4, StreamReplaced

(* streamSubscribe *)
LEMMA StreamRoundKeeps ==
  ASSUME ServerSound, mishaps = {}, Sound, NEW s \in Session, StreamRound(s)
  PROVE  Sound' /\ Forward
  <1> DEFINE t == tasks[s]
             p == ui.project
             k == t.stream.at
             pulled == Page(stores[t.project], k, PollLimit)
             x == [at |-> k + Len(pulled), txs |-> pulled]
             t1 == [t EXCEPT !.stream = x]
  <1>1. /\ t.at \in {"stream", "poll"} /\ t.at \notin WaitingAt \cup {"ended"} /\ Becomes(s, t1)
        /\ t.stream # None /\ t.stream.txs = <<>>
        /\ stores' = stores /\ catalog' = catalog /\ jobs' = jobs /\ ui' = ui /\ stored' = stored
    BY DEF StreamRound, WaitingAt, serverVars
  <1>2. /\ t.in # "decide" /\ DOMAIN t = TaskFields /\ t.project = p
        /\ CurrentSound(t, ui, stores, catalog) /\ ui.cursor \in Nat
        /\ Record(p) = RecordIn(catalog, p) /\ StoreSound(stores[p]) /\ Lost(stores[p]) = 0
        /\ Committed(stores[p]) \in Nat
    BY <1>1, Following
  <1>3. StreamSound(t.stream, p, stores) /\ ui.cursor >= Record(p).min
    BY <1>1, <1>2 DEF CurrentSound
  <1>4. k \in 0 .. Committed(stores[p])
    <2>1. ComesAfter(t.stream.txs, k - Len(t.stream.txs), stores[p]) /\ k \in Nat
      BY <1>3 DEF StreamSound
    <2>2. Len(t.stream.txs) = 0
      BY <1>1
    <2> DEFINE n == Len(t.stream.txs)
    <2>3. (k - n) + n <= Committed(stores[p]) /\ n = 0
      BY <2>1, <2>2 DEF ComesAfter
    <2> HIDE DEF k, n, p
    <2> QED
      BY <1>2, <2>1, <2>3
  <1>5. ComesAfter(pulled, k, stores[p]) /\ Len(pulled) \in Nat
    <2>1. pulled = Page(stores[p], k, PollLimit)
      BY <1>2
    <2> HIDE DEF t, k, pulled, p
    <2>2. ComesAfter(pulled, k, stores[p])
      BY <1>2, <1>4, <2>1, PageComesAfter, ExplorerConstants
    <2> QED
      BY <2>2 DEF ComesAfter, IsSeq
  <1> HIDE DEF t, k, pulled
  <1>6. StreamSound(x, p, stores)
    <2>1. DOMAIN x = {"at", "txs"} /\ x.at = k + Len(pulled) /\ x.txs = pulled
      OBVIOUS
    <2> HIDE DEF x
    <2>2. x.at \in Nat /\ x.at - Len(x.txs) = k
      BY <1>4, <1>5, <2>1
    <2> QED
      BY <1>5, <2>1, <2>2 DEF StreamSound
  <1> HIDE DEF x
  <1>7. /\ DOMAIN t1 = TaskFields /\ t1.at = t.at /\ t1.in = t.in /\ t1.project = t.project
        /\ t1.stream = x /\ t1.cursor = t.cursor
    BY <1>2 DEF TaskFields
  <1> HIDE DEF t1
  <1>8. t1.at = "poll" => t1.cursor = ui.cursor
    BY <1>2, <1>7 DEF CurrentSound, WaitingAt
  <1>9. /\ tasks[s].at \notin WaitingAt \cup {"ended"} /\ t1.project = tasks[s].project /\ t1.in # "decide"
        /\ t1.at \in {"poll", "stream", "subscribe"}
    BY <1>1, <1>2, <1>7 DEF t
  <1> QED
    BY <1>1, <1>3, <1>6, <1>7, <1>8, <1>9, StreamReplaced

(* evaluateSubscribeConvergence *)
LEMMA ReadsBundlesKeeps ==
  ASSUME ServerSound, mishaps = {}, Sound, NEW s \in Session, ReadsBundles(s)
  PROVE  Sound' /\ Forward
  <1> DEFINE t == tasks[s]
             p == ui.project
             y == t.stream
             txs == y.txs
             k == ui.cursor + Len(txs)
             x == [y EXCEPT !.txs = <<>>]
             t1 == [t EXCEPT !.stream = x]
             t2 == [t EXCEPT !.at = "poll", !.in = "fallback", !.stream = x,
                             !.cursor = ui.cursor, !.from = ui.cursor]
  <1>1. /\ t.at = "stream" /\ t.at \notin WaitingAt \cup {"ended"} /\ txs # <<>> /\ t.at # "ended"
        /\ stores' = stores /\ catalog' = catalog /\ jobs' = jobs
    BY DEF ReadsBundles, WaitingAt, serverVars
  <1>2. /\ IsCurrent(s) /\ s = ui.session /\ t.in # "decide" /\ DOMAIN t = TaskFields
        /\ t.project = p /\ p \in Project /\ catalog[p] # None
        /\ TaskSound(t, s, ui, stores, catalog) /\ CurrentSound(t, ui, stores, catalog)
        /\ UiSound(ui) /\ ui.cursor \in Nat /\ StoredSound(stored, stores)
        /\ DrawnAt(ui.graph, ui.cursor, p, stores)
        /\ Record(p).min \in Nat /\ Record(p) = RecordIn(catalog, p)
        /\ StoreSound(stores[p]) /\ Committed(stores[p]) \in Nat
    BY <1>1, Following
  <1>3. /\ DOMAIN y = {"at", "txs"} /\ y.at \in Nat /\ ComesAfter(txs, y.at - Len(txs), stores[p])
        /\ ui.cursor >= Record(p).min
    BY <1>1, <1>2 DEF CurrentSound, StreamSound
  <1>4. \/ /\ Fits(y) /\ ApplyIfAdvanced(t.project, From("subscribe", txs), k)
           /\ Becomes(s, [t EXCEPT !.stream.txs = <<>>])
        \/ /\ Becomes(s, [t EXCEPT !.at = "poll", !.in = "fallback", !.stream.txs = <<>>,
                                   !.cursor = ui.cursor, !.from = ui.cursor])
           /\ ui' = ui /\ stored' = stored
    BY DEF ReadsBundles
  <1>5. /\ [t EXCEPT !.stream.txs = <<>>] = t1
        /\ [t EXCEPT !.at = "poll", !.in = "fallback", !.stream.txs = <<>>,
                     !.cursor = ui.cursor, !.from = ui.cursor] = t2
    BY <1>2 DEF TaskFields
  <1>6. IsSeq(txs) /\ Len(txs) \in Nat /\ Len(txs) # 0 /\ (y.at - Len(txs)) + Len(txs) <= Committed(stores[p])
    <2>1. IsSeq(txs) /\ (y.at - Len(txs)) + Len(txs) <= Committed(stores[p])
      BY <1>3 DEF ComesAfter
    <2>2. txs \in Seq(ElementsOf(txs)) /\ Len(txs) \in Nat
      BY <2>1, IsSeqIsSeq
    <2> HIDE DEF txs
    <2>3. Len(txs) # 0
      BY <1>1, <2>2
    <2> QED
      BY <2>1, <2>2, <2>3
  <1> HIDE DEF t, txs, y
  <1>7. y.at <= Committed(stores[p])
    <2> DEFINE n == Len(txs)
               c == Committed(stores[p])
    <2>1. n \in Nat /\ c \in Nat /\ (y.at - n) + n <= c
      BY <1>2, <1>6
    <2> HIDE DEF n, c
    <2>2. y.at <= c
      BY <1>3, <2>1
    <2> QED
      BY <2>2 DEF c
  <1>8. StreamSound(x, p, stores)
    <2>1. DOMAIN x = {"at", "txs"} /\ x.at = y.at /\ x.txs = <<>> /\ Len(x.txs) = 0
      BY <1>3
    <2> HIDE DEF x
    <2>2. ComesAfter(<<>>, y.at, stores[p])
      BY <1>2, <1>3, <1>7, NothingComesAfter
    <2>3. x.at - Len(x.txs) = y.at
      BY <1>3, <2>1
    <2> QED
      BY <1>3, <2>1, <2>2, <2>3 DEF StreamSound
  <1> HIDE DEF x
  <1>9. tasks[s].at \notin WaitingAt \cup {"ended"} /\ tasks[s].at # "ended"
    BY <1>1 DEF t
  <1>10. CASE Fits(y) /\ ApplyIfAdvanced(p, From("subscribe", txs), k) /\ Becomes(s, t1)
    <2>1. ComesAfter(txs, ui.cursor, stores[p])
      <3>1. y.at = ui.cursor + Len(txs)
        BY <1>10 DEF Fits, txs
      <3>2. y.at - Len(txs) = ui.cursor
        BY <1>2, <1>3, <1>6, <3>1
      <3> QED
        BY <1>3, <3>2
    <2>2. /\ UiSound(ui') /\ ui'.session = ui.session /\ ui'.project = p
          /\ ui'.cursor = k /\ ui'.cursor >= ui.cursor /\ ui'.cursor \in Nat
          /\ DrawnAt(ui'.graph, ui'.cursor, p, stores) /\ StoredSound(stored', stores)
      BY <1>2, <1>6, <1>10, <2>1, Applied
    <2>3. /\ DOMAIN t1 = TaskFields /\ t1.at = "stream" /\ t1.in = t.in /\ t1.project = p
          /\ t1.stream = x /\ t1.last = t.last
      BY <1>1, <1>2 DEF TaskFields
    <2> HIDE DEF t1
    <2> DEFINE min == RecordIn(catalog, p).min
    <2>4. ui'.cursor >= min /\ ~(ui'.cursor < min)
      <3>1. min \in Nat /\ ui.cursor >= min
        BY <1>2, <1>3
      <3> HIDE DEF min
      <3> QED
        BY <1>2, <2>2, <3>1
    <2> HIDE DEF min
    <2>5. CurrentSound(t1, ui', stores, catalog)
      BY <1>2, <1>8, <2>2, <2>3, <2>4 DEF CurrentSound, WaitingAt, min
    <2>6. s <= ui'.session /\ s = ui'.session
      BY <1>2, <2>2 DEF TaskSound
    <2>7. TaskSound(t1, s, ui', stores, catalog)
      BY <1>2, <2>2, <2>3, <2>5, <2>6 DEF TaskSound
    <2>8. t1.project = tasks[s].project /\ ui'.project = ui.project
      BY <1>2, <2>2, <2>3 DEF t
    <2>9. Sound'
      BY <1>1, <1>2, <1>9, <1>10, <2>2, <2>7, <2>8, SessionKeeps
    <2> QED
      BY <2>2, <2>9 DEF Forward
  <1>11. CASE Becomes(s, t2) /\ ui' = ui /\ stored' = stored
    <2>1. /\ DOMAIN t2 = TaskFields /\ t2.at = "poll" /\ t2.in = "fallback" /\ t2.project = p
          /\ t2.stream = x /\ t2.cursor = ui.cursor
      BY <1>2 DEF TaskFields
    <2> HIDE DEF t2
    <2>2. t2.project = tasks[s].project
      BY <1>2, <2>1 DEF t
    <2> QED
      BY <1>1, <1>3, <1>8, <1>9, <1>11, <2>1, <2>2, StreamReplaced
  <1> QED
    BY <1>2, <1>4, <1>5, <1>10, <1>11

-----------------------------------------------------------------------------
(* Faults *)

(* What fetchSnapshot has instead of a snapshot *)
LEMMA SnapshotRefusedKeeps ==
  ASSUME ServerSound, mishaps' = {}, Sound, NEW s \in Session, tasks[s].at \in {"ask", "asked"},
         SnapshotRefused(s)
  PROVE  Sound' /\ Forward
  <1> DEFINE t == tasks[s]
             t1 == [t EXCEPT !.at = "answered", !.snapshot = NoSnapshot]
  <1>1. /\ t.at \in WaitingAt /\ t.at # "ended" /\ Becomes(s, t1) /\ t.in = "decide" /\ mishaps = {}
        /\ stores' = stores /\ catalog' = catalog /\ jobs' = jobs /\ ui' = ui /\ stored' = stored
    BY DEF SnapshotRefused, Answered, WaitingAt
  <1>2. /\ TaskSound(t, s, ui, stores, catalog)
        /\ IsCurrent(s) => CurrentSound(t, ui, stores, catalog)
    BY <1>1, TaskIs
  <1>3. DOMAIN t = TaskFields /\ t.project \in Project
    BY <1>2 DEF TaskSound
  <1> HIDE DEF t
  <1>4. AnswerSound(NoSnapshot, t.project, stores, catalog)
    <2> DEFINE p == t.project
    <2>1. /\ StoreSound(stores[p]) /\ Committed(stores[p]) \in Nat
          /\ LatestHead(catalog, p) \in 0 .. Committed(stores[p])
      BY <1>1, <1>3, Unharmed
    <2>2. GraphOf(stores[p], 0) = EmptyGraph
      BY <2>1, GraphOfNothing
    <2>3. NoSnapshot.cursor = 0 /\ NoSnapshot.graph = EmptyGraph
      BY DEF NoSnapshot
    <2>4. 0 \in 0 .. Committed(stores[p]) /\ 0 <= LatestHead(catalog, p)
      BY <2>1
    <2> QED
      BY <2>2, <2>3, <2>4 DEF AnswerSound, DrawnAt
  <1>5. /\ DOMAIN t1 = TaskFields /\ t1.at = "answered" /\ t1.snapshot = NoSnapshot /\ t1.in = "decide"
        /\ t1.project = t.project /\ t1.last = t.last /\ t1.stream = t.stream
    BY <1>1, <1>3 DEF TaskFields
  <1> HIDE DEF t1
  <1>6. CurrentSound(t, ui, stores, catalog) => CurrentSound(t1, ui, stores, catalog)
    BY <1>1, <1>5 DEF CurrentSound, WaitingAt
  <1>7. TaskSound(t1, s, ui, stores, catalog)
    BY <1>1, <1>2, <1>4, <1>5, <1>6 DEF TaskSound, WaitingAt, IsCurrent
  <1> QED
    BY <1>1, <1>5, <1>7, OnlyTask DEF t

(* All that can become of a request for a snapshot without an answer *)
LEMMA LosesSnapshotKeeps ==
  ASSUME ServerSound, mishaps' = {}, Sound, NEW s \in Session, LosesSnapshot(s)
  PROVE  Sound' /\ Forward
  <1>1. tasks[s].at \in {"ask", "asked"} /\ tasks[s].at # "ended"
    BY DEF LosesSnapshot
  <1>2. CASE SnapshotRefused(s)
    BY <1>1, <1>2, SnapshotRefusedKeeps
  <1>3. CASE SnapshotBroken(s)
    <2>1. Becomes(s, Ended)
          /\ stores' = stores /\ catalog' = catalog /\ jobs' = jobs /\ ui' = ui /\ stored' = stored
      BY <1>3 DEF SnapshotBroken, serverVars
    <2> QED
      BY <1>1, <2>1, OnlyTask
  <1>4. CASE ReplayBroken(s)
    <2>1. /\ tasks[s].in # "decide" /\ Finishes(s, ui, tasks[s].cursor) /\ mishaps = {}
          /\ stores' = stores /\ catalog' = catalog /\ jobs' = jobs
      BY <1>4 DEF ReplayBroken, serverVars
    <2> QED
      BY <1>1, <2>1, FinishesHere
  <1> QED
    BY <1>2, <1>3, <1>4 DEF LosesSnapshot

(* A stream that breaks *)
LEMMA StreamBreaksKeeps ==
  ASSUME ServerSound, mishaps = {}, Sound, NEW s \in Session, StreamBreaks(s)
  PROVE  Sound' /\ Forward
  <1> DEFINE t == tasks[s]
             t1 == [t EXCEPT !.at = "subscribe", !.stream = None]
  <1>1. /\ t.at = "stream" /\ t.at \notin WaitingAt \cup {"ended"} /\ Becomes(s, t1)
        /\ stores' = stores /\ catalog' = catalog /\ jobs' = jobs /\ ui' = ui /\ stored' = stored
    BY DEF StreamBreaks, WaitingAt, serverVars
  <1>2. t.in # "decide" /\ DOMAIN t = TaskFields
    BY <1>1, Following
  <1> HIDE DEF t
  <1>3. /\ DOMAIN t1 = TaskFields /\ t1.at = "subscribe" /\ t1.in = t.in /\ t1.project = t.project
        /\ t1.stream = None
    BY <1>2 DEF TaskFields
  <1> HIDE DEF t1
  <1> QED
    BY <1>1, <1>2, <1>3, StreamReplaced DEF t

(* The server is started again: the streams are closed. *)
LEMMA ServerStopsKeeps ==
  ASSUME ServerSound, mishaps' = {}, Sound, ServerStops
  PROVE  Sound' /\ Forward
  <1> DEFINE Closed(t) == [t EXCEPT !.at = IF t.at = "stream" THEN "subscribe" ELSE t.at, !.stream = None]
  <1>1. /\ RestartsServer /\ ui' = ui /\ stored' = stored
        /\ tasks' = [s \in Session |-> IF tasks[s] = Ended THEN Ended ELSE Closed(tasks[s])]
    BY DEF ServerStops
  <1>2. Moves(stores, catalog, jobs, stores', catalog', jobs')
    BY <1>1, RestartMoves
  <1>3. ExplorerSound(ui, tasks, stored, stores', catalog', jobs')
    BY <1>2, MovesKeep DEF Sound, ServerSound
  <1>4. UiSound(ui) /\ TasksSound(tasks, ui, stores', catalog') /\ ui.cursor \in Nat
    BY <1>3 DEF ExplorerSound, UiSound
  <1>5. ASSUME NEW s \in Session, NEW t, TaskSound(t, s, ui, stores', catalog')
        PROVE  TaskSound(Closed(t), s, ui, stores', catalog') /\ Closed(t).project = t.project
    <2> DEFINE t1 == Closed(t)
    <2>1. /\ DOMAIN t = TaskFields /\ t.at \in WaitingAt \cup {"poll", "subscribe", "stream"}
          /\ s = ui.session => CurrentSound(t, ui, stores', catalog')
      BY <1>5 DEF TaskSound
    <2>2. /\ DOMAIN t1 = TaskFields /\ t1.at = (IF t.at = "stream" THEN "subscribe" ELSE t.at)
          /\ t1.stream = None /\ t1.in = t.in /\ t1.project = t.project /\ t1.last = t.last
          /\ t1.snapshot = t.snapshot /\ t1.cursor = t.cursor
      <3> DEFINE at == IF t.at = "stream" THEN "subscribe" ELSE t.at
      <3>1. t1 = [t EXCEPT !.at = at, !.stream = None]
        OBVIOUS
      <3> HIDE DEF at, t1
      <3>2. /\ DOMAIN t1 = TaskFields /\ t1.at = at
            /\ t1.stream = None /\ t1.in = t.in /\ t1.project = t.project /\ t1.last = t.last
            /\ t1.snapshot = t.snapshot /\ t1.cursor = t.cursor
        BY <2>1, <3>1 DEF TaskFields
      <3> QED
        BY <3>2 DEF at
    <2> HIDE DEF Closed
    <2>3. CurrentSound(t, ui, stores', catalog') => CurrentSound(t1, ui, stores', catalog')
      BY <2>2 DEF CurrentSound, WaitingAt
    <2> QED
      BY <1>5, <2>1, <2>2, <2>3 DEF TaskSound, WaitingAt
  <1> HIDE DEF Closed
  <1>6. \A s \in Session : tasks'[s] = IF tasks[s] = Ended THEN Ended ELSE Closed(tasks[s])
    BY <1>1
  <1>7. TasksSound(tasks', ui, stores', catalog')
    <2>1. \A s \in Session : tasks'[s] = Ended \/ TaskSound(tasks'[s], s, ui, stores', catalog')
      BY <1>4, <1>5, <1>6 DEF TasksSound
    <2>2. tasks' = [s \in Session |-> tasks'[s]]
      BY <1>1
    <2> QED
      BY <2>1, <2>2 DEF TasksSound
  <1>8. \A w \in Worker : AskedSound(jobs'[w], ui, tasks')
    BY <1>1 DEF RestartsServer, AskedSound, Idle
  <1>9. ExplorerSound(ui, tasks', stored, stores', catalog', jobs')
    BY <1>3, <1>7, <1>8 DEF ExplorerSound
  <1> QED
    BY <1>1, <1>4, <1>9 DEF Sound, Forward

-----------------------------------------------------------------------------
(* Sessions *)

(* A project is connected to, perhaps in a page that was loaded anew. *)
LEMMA ConnectsKeeps ==
  ASSUME Sound, NEW p \in Project, catalog[p] # None, NEW isReloaded \in BOOLEAN, Connects(p, isReloaded)
  PROVE  Sound' /\ Forward
  <1> DEFINE s == ui.session + 1
             Stays(t) == IsWaiting(t) /\ ~isReloaded
             pending == ui.pending /\ \E t \in Session : Stays(t) /\ tasks[t].in = "replay"
             v == [session |-> s, project |-> p, graph |-> EmptyGraph, cursor |-> 0,
                   ingested |-> 0, seen |-> {}, pending |-> pending]
             x == Task(p)
  <1>1. /\ s \in Session /\ ui' = v
        /\ tasks' = [t \in Session |-> IF t = s THEN x ELSE IF Stays(t) THEN tasks[t] ELSE Ended]
        /\ stores' = stores /\ catalog' = catalog /\ jobs' = jobs /\ stored' = stored
    BY DEF Connects, serverVars
  <1>2. /\ UiSound(ui) /\ TasksSound(tasks, ui, stores, catalog) /\ StoredSound(stored, stores)
        /\ \A w \in Worker : AskedSound(jobs[w], ui, tasks)
        /\ LatestSound(stores, catalog) /\ catalog[Main] # None
    BY DEF Sound, ExplorerSound
  <1>3. ui.session \in 0 .. MaxSessions /\ MaxSessions \in Nat /\ s \in 1 .. MaxSessions
    BY <1>1, <1>2, ExplorerConstants DEF UiSound, Session
  <1> HIDE DEF pending
  <1>4. /\ DOMAIN v = UiFields /\ v.session = s /\ v.project = p /\ v.graph = EmptyGraph /\ v.cursor = 0
        /\ v.ingested = 0 /\ v.seen = {}
    BY DEF UiFields
  <1>5. /\ DOMAIN x = TaskFields /\ x.at = "ask" /\ x.in = "decide" /\ x.project = p
        /\ x.last = stored[p] /\ x.stream = None
    BY DEF Task, TaskFields
  <1> HIDE DEF v, x
  <1>6. UiSound(v)
    BY <1>3, <1>4 DEF UiSound
  <1>7. CacheSound(x.last.cache, p, stores)
    BY <1>2, <1>5 DEF StoredSound
  <1>8. TaskSound(x, s, v, stores, catalog)
    <2>1. CurrentSound(x, v, stores, catalog)
      BY <1>4, <1>5 DEF CurrentSound, WaitingAt
    <2>2. s <= v.session /\ s = v.session
      BY <1>3, <1>4
    <2> QED
      BY <1>4, <1>5, <1>7, <2>1, <2>2 DEF TaskSound, WaitingAt
  <1>9. ASSUME NEW t \in Session, t # s, Stays(t) PROVE TaskSound(tasks[t], t, v, stores, catalog)
    <2>1. tasks[t].at \in WaitingAt /\ tasks[t] # Ended
      BY <1>9 DEF IsWaiting, WaitingAt, Ended
    <2>2. TaskSound(tasks[t], t, ui, stores, catalog)
      BY <1>2, <2>1 DEF TasksSound
    <2>3. t <= v.session /\ t # v.session
      BY <1>3, <1>4, <1>9, <2>2 DEF TaskSound, Session
    <2> QED
      BY <2>1, <2>2, <2>3 DEF TaskSound
  <1>10. TasksSound(tasks', v, stores, catalog)
    <2>1. \A t \in Session : tasks'[t] = IF t = s THEN x ELSE IF Stays(t) THEN tasks[t] ELSE Ended
      BY <1>1
    <2>2. tasks' = [t \in Session |-> tasks'[t]]
      BY <1>1
    <2> HIDE DEF s, Stays
    <2> QED
      BY <1>8, <1>9, <2>1, <2>2 DEF TasksSound
  <1>11. ASSUME NEW w \in Worker PROVE AskedSound(jobs[w], v, tasks')
    <2> DEFINE j == jobs[w]
    <2>1. AskedSound(j, ui, tasks)
      BY <1>2
    <2> HIDE DEF j
    <2> SUFFICES ASSUME j.at \in {"view", "head"}, j.for # None
                 PROVE  j.for \in Session /\ j.for <= v.session
                        /\ (tasks'[j.for] # Ended => tasks'[j.for].project = j.project)
      BY DEF AskedSound, j
    <2>2. j.for \in Session /\ j.for <= ui.session /\ (tasks[j.for] # Ended => tasks[j.for].project = j.project)
      BY <2>1 DEF AskedSound
    <2>3. j.for <= v.session /\ j.for # s
      BY <1>3, <1>4, <2>2 DEF Session
    <2>4. tasks'[j.for] = tasks[j.for] \/ tasks'[j.for] = Ended
      BY <1>1, <2>2, <2>3
    <2> QED
      BY <2>2, <2>3, <2>4
  <1>12. ExplorerSound(v, tasks', stored, stores, catalog, jobs)
    BY <1>2, <1>6, <1>10, <1>11 DEF ExplorerSound
  <1>13. ui'.session # ui.session
    BY <1>1, <1>3, <1>4
  <1> QED
    BY <1>1, <1>12, <1>13 DEF Sound, Forward

-----------------------------------------------------------------------------
(* The explorer and the server, with any commands, policies and projects:    *)
(* what MCExplorer does, without its script and its bounds.                  *)

ServerAlone ==
  /\ \/ \E p \in Project :
          \/ \E e : IsGraphEvent(e) /\ Commands(p, e)
          \/ CreatesSnapshot(p)
          \/ \E policy \in Policy : SetsPolicy(p, policy)
          \/ \E q \in Project, i \in Nat : ForkBegins(p, q, i)
          \/ PurgeBegins(p)
     \/ \E w \in Worker :
          \/ ReadsView(w)
          \/ ForkCopies(w) \/ ForkSets(w, IsFollowed(w))
          \/ ChoosesCut(w) \/ Compacts(w) \/ RecordsPurge(w)
  /\ UNCHANGED uiVars

ExplorerMoves ==
  \/ \E p \in Project, isReloaded \in BOOLEAN : catalog[p] # None /\ Connects(p, isReloaded)
  \/ \E s \in Session : SessionStep(s) \/ LosesSnapshot(s) \/ PollFails(s) \/ StreamBreaks(s)

ExplorerNext == ServerAlone \/ (\E w \in Worker : SealsFor(w)) \/ ExplorerMoves \/ ServerStops

ExplorerSpec == ServerInit /\ ExplorerInit /\ [][ExplorerNext]_<<serverVars, uiVars>>

(* What holds of both, until there is a mishap. *)
BothSound == mishaps = {} => ServerSound /\ Sound

(* A mishap is never taken back. *)
LEMMA MishapsStay ==
  ASSUME ExplorerNext \/ UNCHANGED <<serverVars, uiVars>>, mishaps' = {}
  PROVE  mishaps = {}
  <1>1. ASSUME ServerAlone PROVE mishaps = {}
    <2>1. ASSUME NEW p \in Project, ProjectStep(p) PROVE mishaps = {}
      BY <2>1 DEF ProjectStep, Commands, CreatesSnapshot, SetsPolicy, ForkBegins, PurgeBegins
    <2>2. ASSUME NEW w \in Worker, ReadsView(w) \/ ForkCopies(w) \/ ForkSets(w, IsFollowed(w))
          PROVE  mishaps = {}
      BY <2>2 DEF ReadsView, ForkCopies, ForkSets
    <2>3. ASSUME NEW w \in Worker, ChoosesCut(w) \/ Compacts(w) \/ RecordsPurge(w) PROVE mishaps = {}
      BY <2>3 DEF ChoosesCut, Compacts, RecordsPurge
    <2> QED
      BY <1>1, <2>1, <2>2, <2>3, Zenon DEF ServerAlone, ProjectStep
  <1>2. ASSUME NEW w \in Worker, SealsFor(w) PROVE mishaps = {}
    BY <1>2 DEF SealsFor, Seals
  <1>3. ASSUME ServerStops PROVE mishaps = {}
    BY <1>3 DEF ServerStops, RestartsServer
  <1>4. ASSUME NEW p \in Project, NEW isReloaded \in BOOLEAN, Connects(p, isReloaded) PROVE mishaps = {}
    BY <1>4 DEF Connects, serverVars
  <1>5. ASSUME NEW s \in Session, SessionStep(s) PROVE mishaps = {}
    BY <1>5 DEF SessionStep, AsksSnapshot, Bootstraps, Polls, PollsTooOld, PollsNothing, BootstrapsAgain,
                Subscribes, StreamRound, ReadsBundles, serverVars
  <1>6. ASSUME NEW s \in Session, LosesSnapshot(s) \/ PollFails(s) \/ StreamBreaks(s) PROVE mishaps = {}
    BY <1>6 DEF LosesSnapshot, SnapshotRefused, SnapshotBroken, ReplayBroken, PollFails, StreamBreaks, serverVars
  <1> QED
    BY <1>1, <1>2, <1>3, <1>4, <1>5, <1>6 DEF ExplorerNext, ExplorerMoves, serverVars

(* To the server, what an explorer does is a step of its own, or no step. *)
LEMMA ExplorerIsServer ==
  ASSUME ExplorerNext \/ UNCHANGED <<serverVars, uiVars>>, Sound, mishaps' = {}
  PROVE  [ServerNext]_serverVars
  <1>1. CASE ServerAlone
    <2>1. \A w \in Worker : IsFollowed(w) \in BOOLEAN
      BY DEF IsFollowed
    <2>2. (\E p \in Project : ProjectStep(p)) \/ \E w \in Worker : WorkerStep(w)
      BY <1>1, <2>1, Zenon DEF ServerAlone, ProjectStep, WorkerStep
    <2> QED
      BY <2>2 DEF ServerNext
  <1>2. CASE \E w \in Worker : SealsFor(w)
    <2>1. \E w \in Worker : WorkerStep(w)
      BY <1>2 DEF SealsFor, WorkerStep
    <2> QED
      BY <2>1 DEF ServerNext
  <1>3. CASE ServerStops
    BY <1>3 DEF ServerStops, ServerNext
  <1>4. mishaps' = mishaps
    BY MishapsStay
  <1>5. CASE ExplorerMoves
    <2>1. ASSUME NEW p \in Project, NEW isReloaded \in BOOLEAN, Connects(p, isReloaded)
          PROVE  UNCHANGED serverVars
      BY <2>1 DEF Connects
    <2>2. ASSUME NEW s \in Session, AsksSnapshot(s)
          PROVE  ServerNext \/ UNCHANGED serverVars
      <3> DEFINE p == tasks[s].project
      <3>1. /\ stores' = stores /\ catalog' = catalog /\ mishaps' = mishaps /\ tasks[s].at # "ended"
            /\ (jobs' = jobs \/ \E w \in Worker : Occupy(w, p, s))
        BY <2>2 DEF AsksSnapshot
      <3>2. p \in Project
        BY <3>1, TaskIs DEF TaskSound
      <3> HIDE DEF p
      <3>3. CASE jobs' = jobs
        BY <3>1, <3>3 DEF serverVars
      <3>4. CASE \E w \in Worker : Occupy(w, p, s)
        <4>1. ProjectStep(p)
          BY <3>1, <3>4 DEF ProjectStep
        <4> QED
          BY <3>2, <4>1 DEF ServerNext
      <3> QED
        BY <3>1, <3>3, <3>4
    <2>3. ASSUME NEW s \in Session,
                 \/ Bootstraps(s) \/ BootstrapsAgain(s) \/ SnapshotRefused(s)
                 \/ Polls(s) \/ PollsTooOld(s) \/ PollsNothing(s) \/ Subscribes(s) \/ StreamRound(s)
                 \/ ReadsBundles(s) \/ SnapshotBroken(s) \/ ReplayBroken(s) \/ PollFails(s) \/ StreamBreaks(s)
          PROVE  UNCHANGED serverVars
      <3>1. stores' = stores /\ catalog' = catalog /\ jobs' = jobs
        BY <2>3 DEF Bootstraps, BootstrapsAgain, SnapshotRefused,
                    Polls, PollsTooOld, PollsNothing, Subscribes, StreamRound, ReadsBundles,
                    SnapshotBroken, ReplayBroken, PollFails, StreamBreaks, serverVars
      <3> QED
        BY <1>4, <3>1 DEF serverVars
    <2> QED
      BY <1>5, <2>1, <2>2, <2>3 DEF ExplorerMoves, SessionStep, LosesSnapshot
  <1> QED
    BY <1>1, <1>2, <1>3, <1>5 DEF ExplorerNext

(* The end of a fork: its least cursor is not after that of an explorer that *)
(* follows it, for else it were a mishap.                                    *)
LEMMA ForkSetsKeepsBoth ==
  ASSUME NoneIsNoRecord, ServerSound, mishaps' = {}, Sound, NEW w \in Worker, ForkSets(w, IsFollowed(w))
  PROVE  ExplorerSound(ui, tasks, stored, stores', catalog', jobs')
  <1> DEFINE q == jobs[w].project
             c == jobs[w].min
             r == RecordIn(catalog, q)
             t == [r EXCEPT !.min = c]
  <1>1. /\ jobs[w].at = "copy" /\ stores' = stores /\ catalog' = [catalog EXCEPT ![q] = t]
        /\ jobs' = [jobs EXCEPT ![w] = Starting(q, None)] /\ ~IsFollowed(w)
    BY RecordIs DEF ForkSets
  <1>2. CatalogSound(catalog) /\ JobsSound(jobs)
    BY DEF ServerSound
  <1>3. q \in Project /\ c \in Nat
    BY <1>1, <1>2 DEF JobsSound, JobSound, Forking
  <1>4. RecordSound(r)
    BY <1>2, <1>3 DEF CatalogSound
  <1>5. RecordSound(t) /\ t.min = c /\ t.snapshots = r.snapshots
    BY <1>3, <1>4, RecordFrom
  <1> HIDE DEF t
  <1>6. /\ \A p \in Project : RecordIn(catalog', p) = IF p = q THEN t ELSE RecordIn(catalog, p)
        /\ \A p \in Project : catalog[p] # None => catalog'[p] # None
    <2>1. Replaced(catalog, q, t, catalog') /\ t # None
      BY <1>1, <1>5 DEF Replaced, NoneIsNoRecord
    <2>2. \A p \in Project : RecordIn(catalog', p) = IF p = q THEN t ELSE RecordIn(catalog, p)
      BY <1>2, <1>3, <1>5, <2>1, OneRecord
    <2>3. \A p \in Project : catalog'[p] = IF p = q THEN t ELSE catalog[p]
      BY <1>2, <2>1 DEF Replaced, CatalogSound
    <2> QED
      BY <2>1, <2>2, <2>3
  <1>7. \A p \in Project : RecordIn(catalog', p).snapshots = RecordIn(catalog, p).snapshots
    BY <1>5, <1>6
  <1>8. \A p \in Project : LatestHead(catalog', p) = LatestHead(catalog, p)
    BY <1>7 DEF LatestHead, LatestSnapshotHead
  <1>9. /\ UiSound(ui) /\ TasksSound(tasks, ui, stores, catalog) /\ StoredSound(stored, stores)
        /\ \A v \in Worker : AskedSound(jobs[v], ui, tasks)
        /\ LatestSound(stores, catalog) /\ catalog[Main] # None
    BY DEF Sound, ExplorerSound
  <1> HIDE DEF r
  <1>10. ASSUME NEW s \in Session, tasks[s] # Ended, s = ui.session,
                CurrentSound(tasks[s], ui, stores, catalog), tasks[s].project \in Project
         PROVE  CurrentSound(tasks[s], ui, stores, catalog')
    <2> DEFINE p == ui.project
               a == LatestHead(catalog, p)
               m == RecordIn(catalog, p).min
               n == RecordIn(catalog', p).min
    <2>1. p \in Project /\ tasks[s].project = p /\ s # 0
      BY <1>10, ExplorerConstants DEF CurrentSound, Session
    <2>2. LatestHead(catalog', p) = a
      BY <1>8, <2>1
    <2>3. p # q => n = m
      BY <1>6, <2>1
    <2>4. tasks[s].in # "decide" /\ p = q => n = c /\ ui.cursor >= c
      <3>1. tasks[s].in # "decide" /\ p = q => ~(ui.cursor < c)
        BY <1>1, <1>10, <2>1 DEF IsFollowed, IsSynced
      <3>2. ui.cursor \in Nat
        BY <1>9 DEF UiSound
      <3>3. p = q => n = c
        BY <1>5, <1>6, <2>1
      <3> HIDE DEF c, p, q, n
      <3> QED
        BY <1>3, <3>1, <3>2, <3>3
    <2> HIDE DEF a, m, n, p, q, c
    <2>5. ui.cursor \in Nat /\ c \in Nat
      BY <1>3, <1>9 DEF UiSound
    <2> DEFINE x == tasks[s]
    <2>6. /\ x.in = "decide" => x.at \in WaitingAt /\ ui.cursor = 0 /\ x.stream = None
          /\ x.in # "decide" =>
               /\ DrawnAt(ui.graph, ui.cursor, p, stores)
               /\ ui.cursor < m \/ x.at \in WaitingAt => ui.cursor <= a
               /\ x.at \in WaitingAt \cup {"poll"} => x.cursor = ui.cursor
               /\ x.at = "answered" => ui.cursor <= x.snapshot.cursor
          /\ x.at = "stream" \/ x.stream # None => StreamSound(x.stream, x.project, stores) /\ ui.cursor >= m
      BY <1>10 DEF CurrentSound, a, m, p
    <2> HIDE DEF x
    <2>7. CASE x.in = "decide"
      <3>1. x.at # "stream" /\ x.stream = None
        BY <2>6, <2>7 DEF WaitingAt
      <3> QED
        BY <2>1, <2>6, <2>7, <3>1 DEF CurrentSound, x, p
    <2>8. CASE x.in # "decide"
      <3>1. n = m \/ (n = c /\ ui.cursor >= c)
        BY <2>3, <2>4, <2>8 DEF x
      <3>2. /\ ui.cursor < n => ui.cursor < m
            /\ ui.cursor >= m => ui.cursor >= n
        BY <2>5, <3>1
      <3>3. /\ DrawnAt(ui.graph, ui.cursor, p, stores)
            /\ ui.cursor < n \/ x.at \in WaitingAt => ui.cursor <= a
            /\ x.at \in WaitingAt \cup {"poll"} => x.cursor = ui.cursor
            /\ x.at = "answered" => ui.cursor <= x.snapshot.cursor
            /\ x.at = "stream" \/ x.stream # None => StreamSound(x.stream, x.project, stores) /\ ui.cursor >= n
        BY <2>6, <2>8, <3>2
      <3> QED
        BY <2>1, <2>2, <2>8, <3>3 DEF CurrentSound, n, x, p
    <2> QED
      BY <2>7, <2>8
  <1>11. ASSUME NEW s \in Session, tasks[s] # Ended PROVE TaskSound(tasks[s], s, ui, stores, catalog')
    <2>1. TaskSound(tasks[s], s, ui, stores, catalog) /\ tasks[s].project \in Project
      BY <1>9, <1>11 DEF TasksSound, TaskSound
    <2>2. tasks[s].at = "answered" => AnswerSound(tasks[s].snapshot, tasks[s].project, stores, catalog')
      BY <1>8, <2>1 DEF TaskSound, AnswerSound
    <2>3. IF s = ui.session THEN CurrentSound(tasks[s], ui, stores, catalog') ELSE tasks[s].at \in WaitingAt
      BY <1>10, <1>11, <2>1 DEF TaskSound
    <2> QED
      BY <1>6, <2>1, <2>2, <2>3 DEF TaskSound
  <1>12. TasksSound(tasks, ui, stores, catalog')
    BY <1>9, <1>11 DEF TasksSound
  <1>13. LatestSound(stores, catalog') /\ catalog'[Main] # None
    BY <1>6, <1>7, <1>9, ExplorerConstants DEF LatestSound
  <1>14. \A v \in Worker : AskedSound(jobs'[v], ui, tasks)
    <2>1. \A v \in Worker : jobs'[v] = IF v = w THEN Starting(q, None) ELSE jobs[v]
      BY <1>1, <1>2 DEF JobsSound
    <2>2. AskedSound(Starting(q, None), ui, tasks)
      BY DEF AskedSound, Starting
    <2> QED
      BY <1>9, <2>1, <2>2
  <1> QED
    BY <1>1, <1>9, <1>12, <1>13, <1>14 DEF ExplorerSound

(* The server by itself leaves sound what the explorer has. *)
LEMMA ServerAloneKeeps ==
  ASSUME NoneIsNoRecord, ServerSound, mishaps' = {}, Sound, ServerAlone
  PROVE  Sound' /\ Forward
  <1>1. mishaps = {} /\ ui' = ui /\ tasks' = tasks /\ stored' = stored
    BY MishapsStay DEF ServerAlone, ExplorerNext, uiVars
  <1>2. \/ Moves(stores, catalog, jobs, stores', catalog', jobs')
        \/ ExplorerSound(ui, tasks, stored, stores', catalog', jobs')
    <2>1. ASSUME NEW p \in Project, NEW e, IsGraphEvent(e), Commands(p, e)
          PROVE  Moves(stores, catalog, jobs, stores', catalog', jobs')
      BY <1>1, <2>1, CommandsMove
    <2>2. ASSUME NEW p \in Project, CreatesSnapshot(p)
          PROVE  Moves(stores, catalog, jobs, stores', catalog', jobs')
      BY <1>1, <2>2, CreatesSnapshotMoves
    <2>3. ASSUME NEW p \in Project, NEW policy \in Policy, SetsPolicy(p, policy)
          PROVE  Moves(stores, catalog, jobs, stores', catalog', jobs')
      BY <1>1, <2>3, SetsPolicyMoves
    <2>4. ASSUME NEW p \in Project, NEW q \in Project, NEW i \in Nat, ForkBegins(p, q, i)
          PROVE  Moves(stores, catalog, jobs, stores', catalog', jobs')
      BY <1>1, <2>4, ForkBeginsMoves
    <2>5. ASSUME (\E p \in Project : PurgeBegins(p)) \/ \E w \in Worker : ChoosesCut(w)
          PROVE  Moves(stores, catalog, jobs, stores', catalog', jobs')
      BY <1>1, <2>5, PurgeMoves
    <2>6. ASSUME NEW w \in Worker, ReadsView(w) \/ ForkCopies(w)
          PROVE  Moves(stores, catalog, jobs, stores', catalog', jobs')
      BY <1>1, <2>6, ReadsViewMoves, ForkCopiesMoves
    <2>7. ASSUME NEW w \in Worker, ForkSets(w, IsFollowed(w))
          PROVE  ExplorerSound(ui, tasks, stored, stores', catalog', jobs')
      BY <2>7, ForkSetsKeepsBoth
    <2>8. \A w \in Worker : ~Compacts(w) /\ ~RecordsPurge(w)
      BY NothingPurged
    <2> QED
      BY <2>1, <2>2, <2>3, <2>4, <2>5, <2>6, <2>7, <2>8, Zenon DEF ServerAlone
  <1>3. ExplorerSound(ui, tasks, stored, stores', catalog', jobs')
    BY <1>2, MovesKeep DEF Sound, ServerSound
  <1>4. ui.cursor \in Nat
    BY <1>3 DEF ExplorerSound, UiSound
  <1> QED
    BY <1>1, <1>3, <1>4 DEF Sound, Forward

(* Each step keeps it all, and the cursor does not go back. *)
LEMMA ExplorerStepKeeps ==
  ASSUME NoneIsNoRecord, DefaultPolicy \in Policy, ServerSound, Sound, mishaps' = {},
         ExplorerNext \/ UNCHANGED <<serverVars, uiVars>>
  PROVE  ServerSound' /\ Sound' /\ Forward
  <1>1. mishaps = {}
    BY MishapsStay
  <1>2. ServerSound'
    BY ExplorerIsServer, ServerStepKeeps DEF ServerKept
  <1>3. CASE ServerAlone
    BY <1>2, <1>3, ServerAloneKeeps
  <1>4. CASE \E w \in Worker : SealsFor(w)
    BY <1>2, <1>4, SealsForKeeps
  <1>5. CASE ServerStops
    BY <1>2, <1>5, ServerStopsKeeps
  <1>6. ASSUME NEW p \in Project, NEW isReloaded \in BOOLEAN, catalog[p] # None, Connects(p, isReloaded)
        PROVE  Sound' /\ Forward
    BY <1>6, ConnectsKeeps
  <1>7. ASSUME NEW s \in Session, SessionStep(s) PROVE Sound' /\ Forward
    <2>1. CASE AsksSnapshot(s)
      BY <1>1, <2>1, AsksSnapshotKeeps
    <2>2. CASE Bootstraps(s)
      BY <2>2, BootstrapsKeeps
    <2>3. CASE Polls(s)
      BY <1>1, <2>3, PollsKeeps
    <2>4. CASE PollsTooOld(s)
      BY <1>1, <2>4, PollsTooOldKeeps
    <2>5. CASE PollsNothing(s)
      BY <1>1, <2>5, PollsNothingKeeps
    <2>6. CASE BootstrapsAgain(s)
      BY <2>6, BootstrapsAgainKeeps
    <2>7. CASE Subscribes(s)
      BY <1>1, <2>7, SubscribesKeeps
    <2>8. CASE StreamRound(s)
      BY <1>1, <2>8, StreamRoundKeeps
    <2>9. CASE ReadsBundles(s)
      BY <1>1, <2>9, ReadsBundlesKeeps
    <2> QED
      BY <1>7, <2>1, <2>2, <2>3, <2>4, <2>5, <2>6, <2>7, <2>8, <2>9 DEF SessionStep
  <1>8. ASSUME NEW s \in Session, LosesSnapshot(s) \/ PollFails(s) \/ StreamBreaks(s) PROVE Sound' /\ Forward
    BY <1>1, <1>8, LosesSnapshotKeeps, PollsNothingKeeps, StreamBreaksKeeps
  <1>9. CASE UNCHANGED <<serverVars, uiVars>>
    <2>1. /\ ui' = ui /\ tasks' = tasks /\ stored' = stored
          /\ stores' = stores /\ catalog' = catalog /\ jobs' = jobs
      BY <1>9 DEF serverVars, uiVars
    <2>2. ui.cursor \in Nat
      BY DEF Sound, ExplorerSound, UiSound
    <2> QED
      BY <1>2, <2>1, <2>2 DEF Sound, Forward
  <1> QED
    BY <1>2, <1>3, <1>4, <1>5, <1>6, <1>7, <1>8, <1>9 DEF ExplorerNext, ExplorerMoves

(* At the start, nothing is drawn or cached. *)
LEMMA ExplorerInitSound ==
  ASSUME NoneIsNoRecord, DefaultPolicy \in Policy, ServerInit, ExplorerInit
  PROVE  ServerSound /\ Sound
  <1>1. ServerSound
    BY InitSound
  <1>2. /\ ui = [session |-> 0, project |-> Main, graph |-> EmptyGraph, cursor |-> 0,
                 ingested |-> 0, seen |-> {}, pending |-> FALSE]
        /\ tasks = [s \in Session |-> Ended]
        /\ stored = [p \in Project |-> [cursor |-> None, cache |-> None]]
    BY DEF ExplorerInit
  <1>3. UiSound(ui)
    BY <1>2, ExplorerConstants DEF UiSound, UiFields
  <1>4. TasksSound(tasks, ui, stores, catalog)
    BY <1>2 DEF TasksSound
  <1>5. StoredSound(stored, stores)
    BY <1>2 DEF StoredSound, CacheSound
  <1>6. \A w \in Worker : AskedSound(jobs[w], ui, tasks)
    BY DEF ServerInit, Idle, AskedSound
  <1>7. LatestSound(stores, catalog)
    BY DEF LatestSound, ServerInit, RecordIn, NewProject
  <1>8. catalog[Main] # None
    <2>1. catalog[Main] = NewProject /\ RecordSound(RecordIn(catalog, Main))
      BY <1>1, ExplorerConstants DEF ServerInit, ServerSound, CatalogSound
    <2>2. RecordSound(NewProject)
      BY <2>1 DEF RecordIn
    <2> QED
      BY <2>1, <2>2 DEF NoneIsNoRecord
  <1> QED
    BY <1>1, <1>3, <1>4, <1>5, <1>6, <1>7, <1>8 DEF Sound, ExplorerSound

(* The invariant, of an explorer beside a server. *)
THEOREM ExplorerStaysSound ==
  ASSUME NoneIsNoRecord, DefaultPolicy \in Policy
  PROVE  ExplorerSpec => []BothSound
  <1>1. ServerInit /\ ExplorerInit => BothSound
    BY ExplorerInitSound DEF BothSound
  <1>2. BothSound /\ [ExplorerNext]_<<serverVars, uiVars>> => BothSound'
    BY MishapsStay, ExplorerStepKeeps DEF BothSound
  <1> QED
    BY <1>1, <1>2, PTL DEF ExplorerSpec

-----------------------------------------------------------------------------
(* What the invariant says *)

(* A graph of the history at k draws what that draws. *)
LEMMA DrawnAgrees ==
  ASSUME LinksHaveEnds(stores), NEW p, NEW g, NEW k, DrawnAt(g, k, p, stores)
  PROVE  Shown(g) = Shown(GraphAt(p, k))
  BY DEF DrawnAt, GraphOf, GraphAt

(* The store of a session that has its snapshot is such a graph. *)
LEMMA StoreAgrees == ASSUME BothSound, LinksHaveEnds(stores) PROVE ExplorerAgrees
  <1> DEFINE s == ui.session
  <1> SUFFICES ASSUME mishaps = {}, s # 0, IsSynced(s)
               PROVE  Shown(ui.graph) = Shown(GraphAt(ui.project, ui.cursor))
    BY DEF ExplorerAgrees
  <1>1. UiSound(ui) /\ TasksSound(tasks, ui, stores, catalog)
    BY DEF BothSound, Sound, ExplorerSound
  <1>2. s \in Session
    BY <1>1, ExplorerConstants DEF UiSound, Session
  <1>3. CurrentSound(tasks[s], ui, stores, catalog) /\ tasks[s].in # "decide"
    BY <1>1, <1>2 DEF TasksSound, TaskSound, IsSynced
  <1>4. DrawnAt(ui.graph, ui.cursor, ui.project, stores)
    BY <1>3 DEF CurrentSound
  <1> QED
    BY <1>4, DrawnAgrees

(* And so is what is cached. *)
LEMMA CachesAgree == ASSUME BothSound, LinksHaveEnds(stores) PROVE CacheAgrees
  <1> SUFFICES ASSUME mishaps = {}, NEW p \in Project, stored[p].cache # None
               PROVE  Shown(stored[p].cache.graph) = Shown(GraphAt(p, stored[p].cache.cursor))
    BY DEF CacheAgrees
  <1>1. DrawnAt(stored[p].cache.graph, stored[p].cache.cursor, p, stores)
    BY DEF BothSound, Sound, ExplorerSound, StoredSound, CacheSound
  <1> QED
    BY <1>1, DrawnAgrees

-----------------------------------------------------------------------------
(* The theorems *)

(* Once a session has its snapshot the store draws the graph as it was at its *)
(* cursor, of any projects, commands and sessions, as long as no link was     *)
(* ever without its ends: such a link is not in a snapshot, and a replay of   *)
(* what came after it does not bring it back.                                 *)
THEOREM StoresAgree ==
  ASSUME NoneIsNoRecord, DefaultPolicy \in Policy
  PROVE  ExplorerSpec => [](LinksHaveEnds(stores) => ExplorerAgrees)
  <1>1. BothSound => (LinksHaveEnds(stores) => ExplorerAgrees)
    BY StoreAgrees
  <1> QED
    BY <1>1, ExplorerStaysSound, PTL

(* And so is what is cached the graph at the cursor it is cached with.        *)
THEOREM CachesMayBeUsed ==
  ASSUME NoneIsNoRecord, DefaultPolicy \in Policy
  PROVE  ExplorerSpec => [](LinksHaveEnds(stores) => CacheAgrees)
  <1>1. BothSound => (LinksHaveEnds(stores) => CacheAgrees)
    BY CachesAgree
  <1> QED
    BY <1>1, ExplorerStaysSound, PTL

(* Within a session the cursor never goes back, whatever links there are.     *)
THEOREM CursorsAreMonotone ==
  ASSUME NoneIsNoRecord, DefaultPolicy \in Policy
  PROVE  ExplorerSpec => CursorMonotone
  <1>1. BothSound /\ [ExplorerNext]_<<serverVars, uiVars>> =>
          [ui'.session = ui.session /\ mishaps' = {} => ui'.cursor >= ui.cursor]_ui
    BY MishapsStay, ExplorerStepKeeps DEF BothSound, Forward
  <1> QED
    BY <1>1, ExplorerStaysSound, PTL DEF ExplorerSpec, CursorMonotone

-----------------------------------------------------------------------------
(* What the user does to the graph *)

EditSpec == EditInit /\ [][EditStep]_edit

(* The ids in use when m gestures have been made, and what is made of them.   *)
KnownId(m) == {id \in Seq(Nat) : id # <<>> /\ \A k \in m + 1 .. MaxGestures : id # <<k>>}

NodeUpTo(m) == [id : KnownId(m), label : AnyLabel]
LinkUpTo(m) == [id : KnownId(m), source : KnownId(m), target : KnownId(m)]

GraphUpTo(m) ==
  {g \in [nodes : SUBSET NodeUpTo(m), links : SUBSET LinkUpTo(m)] : IsKeyed(g.nodes) /\ IsKeyed(g.links)}

EventUpTo(m) == [type : {"node.created", "node.label.updated"}, id : KnownId(m), label : AnyLabel]
                \cup [type : {"link.created"}, link : LinkUpTo(m)]
                \cup [type : {"node.deleted", "link.deleted"}, id : KnownId(m)]

ItemUpTo(m) == [redo : Seq(EventUpTo(m)), undo : Seq(EventUpTo(m))]

(* What is known stays so. *)
LEMMA KnownGrows ==
  ASSUME NEW m \in Nat
  PROVE  /\ KnownId(m) \subseteq KnownId(m + 1) /\ LinkUpTo(m) \subseteq LinkUpTo(m + 1)
         /\ NodeUpTo(m) \subseteq NodeUpTo(m + 1)
         /\ GraphUpTo(m) \subseteq GraphUpTo(m + 1)
         /\ EventUpTo(m) \subseteq EventUpTo(m + 1) /\ ItemUpTo(m) \subseteq ItemUpTo(m + 1)
  <1>0. MaxGestures \in Nat
    BY EditConstants
  <1>1. KnownId(m) \subseteq KnownId(m + 1)
    BY <1>0 DEF KnownId
  <1>2. LinkUpTo(m) \subseteq LinkUpTo(m + 1) /\ NodeUpTo(m) \subseteq NodeUpTo(m + 1)
    BY <1>1 DEF LinkUpTo, NodeUpTo
  <1>3. GraphUpTo(m) \subseteq GraphUpTo(m + 1)
    BY <1>2 DEF GraphUpTo
  <1>4. EventUpTo(m) \subseteq EventUpTo(m + 1)
    BY <1>1, <1>2 DEF EventUpTo
  <1>5. ItemUpTo(m) \subseteq ItemUpTo(m + 1)
    BY <1>4 DEF ItemUpTo
  <1> QED
    BY <1>1, <1>2, <1>3, <1>4, <1>5

(* The id of a gesture is new. *)
LEMMA FreshIsNew ==
  ASSUME NEW m \in Nat, m < MaxGestures
  PROVE  <<m + 1>> \in KnownId(m + 1) /\ <<m + 1>> \notin KnownId(m)
  <1>0. MaxGestures \in Nat
    BY EditConstants
  <1>1. <<m + 1>> \in Seq(Nat) /\ <<m + 1>> # <<>>
    OBVIOUS
  <1>2. \A k \in (m + 1) + 1 .. MaxGestures : <<m + 1>> # <<k>>
    <2> TAKE k \in (m + 1) + 1 .. MaxGestures
    <2>1. <<m + 1>>[1] = m + 1 /\ <<k>>[1] = k /\ m + 1 # k
      BY <1>0
    <2> QED
      BY <2>1
  <1>3. m + 1 \in m + 1 .. MaxGestures
    BY <1>0
  <1> QED
    BY <1>1, <1>2, <1>3 DEF KnownId

(* An id that was made longer is no gesture's. *)
LEMMA LongerIsKnown ==
  ASSUME NEW m \in Nat, NEW id \in KnownId(m), NEW i \in Nat
  PROVE  Append(id, i) \in KnownId(m)
  <1>1. id \in Seq(Nat) /\ id # <<>>
    BY DEF KnownId
  <1>2. Len(id) \in Nat /\ Len(id) # 0 /\ Append(id, i) \in Seq(Nat) /\ Len(Append(id, i)) = Len(id) + 1
    BY <1>1
  <1>3. \A k : Len(<<k>>) = 1 /\ Len(<<>>) = 0
    OBVIOUS
  <1> QED
    BY <1>2, <1>3 DEF KnownId

-----------------------------------------------------------------------------
(* Events on a graph *)

(* What each event leaves. *)
LEMMA EventEffects ==
  ASSUME NEW g, g = [nodes |-> g.nodes, links |-> g.links], NEW e
  PROVE  /\ e.type = "node.created" => ApplyGraphEvent(g, e) =
              [nodes |-> Without(g.nodes, e.id) \cup {[id |-> e.id, label |-> e.label]}, links |-> g.links]
         /\ e.type = "node.label.updated" => ApplyGraphEvent(g, e) =
              IF e.id \in NodeIds(g)
                THEN [nodes |-> Without(g.nodes, e.id) \cup {[id |-> e.id, label |-> e.label]}, links |-> g.links]
                ELSE g
         /\ e.type = "node.deleted" => ApplyGraphEvent(g, e) =
              [nodes |-> Without(g.nodes, e.id), links |-> {l \in g.links : e.id \notin {l.source, l.target}}]
         /\ e.type = "link.created" => ApplyGraphEvent(g, e) =
              [nodes |-> g.nodes, links |-> Without(g.links, e.link.id) \cup {e.link}]
         /\ e.type = "link.deleted" => ApplyGraphEvent(g, e) =
              [nodes |-> g.nodes, links |-> Without(g.links, e.id)]
  <1>1. \A id, label : WithNode(g, id, label) =
          [nodes |-> Without(g.nodes, id) \cup {[id |-> id, label |-> label]}, links |-> g.links]
    BY DEF WithNode
  <1>2. \A K : [g EXCEPT !.links = K] = [nodes |-> g.nodes, links |-> K]
    OBVIOUS
  <1>3. e.type = "node.created" => ApplyGraphEvent(g, e) = WithNode(g, e.id, e.label)
    BY DEF ApplyGraphEvent
  <1>4. e.type = "node.label.updated" => ApplyGraphEvent(g, e) = IF e.id \in NodeIds(g) THEN WithNode(g, e.id, e.label) ELSE g
    BY DEF ApplyGraphEvent
  <1>5. e.type = "node.deleted" => ApplyGraphEvent(g, e) =
              [nodes |-> Without(g.nodes, e.id), links |-> {l \in g.links : e.id \notin {l.source, l.target}}]
    BY DEF ApplyGraphEvent
  <1>6. e.type = "link.created" => ApplyGraphEvent(g, e) = [g EXCEPT !.links = Without(g.links, e.link.id) \cup {e.link}]
    BY DEF ApplyGraphEvent
  <1>7. e.type = "link.deleted" => ApplyGraphEvent(g, e) = [g EXCEPT !.links = Without(g.links, e.id)]
    BY DEF ApplyGraphEvent
  <1> QED
    BY <1>1, <1>2, <1>3, <1>4, <1>5, <1>6, <1>7

(* Whatever is taken out or put in its place, an id names one. *)
LEMMA KeyedNext ==
  ASSUME NEW xs, IsKeyed(xs), NEW x
  PROVE  /\ \A id : IsKeyed(Without(xs, id))
         /\ IsKeyed(Without(xs, x.id) \cup {x})
         /\ \A ys \in SUBSET xs : IsKeyed(ys)
  <1>1. ASSUME NEW ys \in SUBSET xs PROVE IsKeyed(ys)
    <2>1. IsFiniteSet(ys)
      BY FS_Subset DEF IsKeyed
    <2> QED
      BY <2>1 DEF IsKeyed
  <1>2. \A id : Without(xs, id) \in SUBSET xs
    BY DEF Without
  <1>3. IsFiniteSet(Without(xs, x.id) \cup {x})
    BY <1>1, <1>2, FS_AddElement DEF IsKeyed
  <1>4. \A y, z \in Without(xs, x.id) \cup {x} : y.id = z.id => y = z
    BY DEF IsKeyed, Without
  <1> QED
    BY <1>1, <1>2, <1>3, <1>4 DEF IsKeyed

(* A graph stays one. *)
LEMMA GraphNext ==
  ASSUME NEW m, NEW g \in GraphUpTo(m), NEW e \in EventUpTo(m)
  PROVE  ApplyGraphEvent(g, e) \in GraphUpTo(m)
  <1>1. /\ g = [nodes |-> g.nodes, links |-> g.links]
        /\ g.nodes \in SUBSET NodeUpTo(m) /\ g.links \in SUBSET LinkUpTo(m)
        /\ IsKeyed(g.nodes) /\ IsKeyed(g.links)
    BY DEF GraphUpTo
  <1>2. ASSUME NEW N \in SUBSET NodeUpTo(m), NEW L \in SUBSET LinkUpTo(m), IsKeyed(N), IsKeyed(L)
        PROVE  [nodes |-> N, links |-> L] \in GraphUpTo(m)
    BY <1>2 DEF GraphUpTo
  <1>3. \A id : Without(g.nodes, id) \in SUBSET NodeUpTo(m) /\ Without(g.links, id) \in SUBSET LinkUpTo(m)
    BY <1>1 DEF Without
  <1>4. ASSUME NEW id \in KnownId(m), NEW label \in AnyLabel
        PROVE  [nodes |-> Without(g.nodes, id) \cup {[id |-> id, label |-> label]}, links |-> g.links] \in GraphUpTo(m)
    <2> DEFINE n == [id |-> id, label |-> label]
    <2>1. n \in NodeUpTo(m) /\ n.id = id
      BY <1>4 DEF NodeUpTo
    <2> HIDE DEF n
    <2>2. IsKeyed(Without(g.nodes, id) \cup {n})
      BY <1>1, <2>1, KeyedNext
    <2>3. Without(g.nodes, id) \cup {n} \in SUBSET NodeUpTo(m)
      BY <1>3, <2>1
    <2> QED
      BY <1>1, <1>2, <2>2, <2>3 DEF n
  <1>5. CASE e \in [type : {"node.created", "node.label.updated"}, id : KnownId(m), label : AnyLabel]
    <2>1. e.id \in KnownId(m) /\ e.label \in AnyLabel /\ e.type \in {"node.created", "node.label.updated"}
      BY <1>5
    <2>2. \/ ApplyGraphEvent(g, e) = g
          \/ ApplyGraphEvent(g, e) =
               [nodes |-> Without(g.nodes, e.id) \cup {[id |-> e.id, label |-> e.label]}, links |-> g.links]
      BY <1>1, <2>1, EventEffects
    <2> QED
      BY <1>4, <2>1, <2>2
  <1>6. CASE e \in [type : {"link.created"}, link : LinkUpTo(m)]
    <2>1. e.link \in LinkUpTo(m) /\ e.type = "link.created"
      BY <1>6
    <2>2. ApplyGraphEvent(g, e) = [nodes |-> g.nodes, links |-> Without(g.links, e.link.id) \cup {e.link}]
      BY <1>1, <2>1, EventEffects
    <2>3. IsKeyed(Without(g.links, e.link.id) \cup {e.link})
      BY <1>1, KeyedNext
    <2>4. Without(g.links, e.link.id) \cup {e.link} \in SUBSET LinkUpTo(m)
      BY <1>3, <2>1
    <2> QED
      BY <1>1, <1>2, <2>2, <2>3, <2>4
  <1>7. CASE e \in [type : {"node.deleted", "link.deleted"}, id : KnownId(m)]
    <2> DEFINE K == {l \in g.links : e.id \notin {l.source, l.target}}
    <2>1. e.type \in {"node.deleted", "link.deleted"}
      BY <1>7
    <2>2. \/ ApplyGraphEvent(g, e) = [nodes |-> Without(g.nodes, e.id), links |-> K]
          \/ ApplyGraphEvent(g, e) = [nodes |-> g.nodes, links |-> Without(g.links, e.id)]
      BY <1>1, <2>1, EventEffects
    <2>3. K \in SUBSET g.links
      OBVIOUS
    <2> HIDE DEF K
    <2>4. IsKeyed(K) /\ K \in SUBSET LinkUpTo(m)
      BY <1>1, <2>3, KeyedNext
    <2>5. IsKeyed(Without(g.nodes, e.id)) /\ IsKeyed(Without(g.links, e.id))
      BY <1>1, KeyedNext
    <2> QED
      BY <1>1, <1>2, <1>3, <2>2, <2>4, <2>5
  <1> QED
    BY <1>5, <1>6, <1>7 DEF EventUpTo

-----------------------------------------------------------------------------
(* What a gesture does and what takes it back                                 *)

(* Whichever of the graphs M it starts from, es leads to H, and within M.     *)
Leads(M, es, H) ==
  /\ \A g \in M : ApplyGraphEvents(g, es) = H
  /\ \A g \in M, j \in 1 .. Len(es) : ApplyGraphEvent(g, es[j]) \in M

(* Between the graphs G and H lie those that item leaves half done.           *)
Between(M, G, item, H) ==
  /\ G \in M /\ H \in M
  /\ Leads(M, item.redo, H) /\ Leads(M, item.undo, G)

(* If each event stays done, and G is what is left when all are, they lead to *)
(* G.  In T[j] are the graphs in which the j-th is done.                      *)
LEMMA DoneLeads ==
  ASSUME NEW M, NEW es, Len(es) \in Nat, NEW H, NEW T,
         \A g \in M, j \in 1 .. Len(es) : ApplyGraphEvent(g, es[j]) \in M /\ ApplyGraphEvent(g, es[j]) \in T[j],
         \A g \in M, j, k \in 1 .. Len(es) : g \in T[k] => ApplyGraphEvent(g, es[j]) \in T[k],
         \A g \in M : (\A k \in 1 .. Len(es) : g \in T[k]) => g = H
  PROVE  Leads(M, es, H)
  <1> SUFFICES ASSUME NEW g \in M PROVE ApplyGraphEvents(g, es) = H
    BY DEF Leads
  <1> DEFINE n == Len(es)
  <1>1. PICK f : f = DrawBody(f, g, es, n) /\ ApplyGraphEvents(g, es) = f[n]
    BY DrawIs
  <1> HIDE DEF n
  <1>0. n \in Nat /\ n = Len(es)
    BY DEF n
  <1> DEFINE S == {i \in Nat : i <= n => f[i] \in M /\ \A k \in 1 .. i : f[i] \in T[k]}
  <1>2. 0 \in S
    <2>1. 0 \in 0 .. n
      BY <1>0
    <2>2. f[0] = g
      BY <1>1, <2>1, Zenon DEF DrawBody
    <2> QED
      BY <2>2
  <1>3. ASSUME NEW i \in Nat, i \in S PROVE i + 1 \in S
    <2> SUFFICES ASSUME i + 1 <= n PROVE f[i + 1] \in M /\ \A k \in 1 .. i + 1 : f[i + 1] \in T[k]
      OBVIOUS
    <2>0. i <= n /\ i + 1 \in 0 .. n /\ i + 1 \in 1 .. n /\ i + 1 # 0 /\ (i + 1) - 1 = i
      BY <1>0
    <2>1. f[i] \in M /\ \A k \in 1 .. i : f[i] \in T[k]
      BY <1>3, <2>0
    <2>2. f[i + 1] = ApplyGraphEvent(f[(i + 1) - 1], es[i + 1])
      BY <1>1, <2>0, Zenon DEF DrawBody
    <2>3. \A k \in 1 .. i + 1 : k = i + 1 \/ k \in 1 .. i
      OBVIOUS
    <2>4. \A k \in 1 .. i : k \in 1 .. Len(es)
      BY <1>0
    <2> HIDE DEF S
    <2> QED
      BY <1>0, <2>0, <2>1, <2>2, <2>3, <2>4
  <1> HIDE DEF S
  <1>4. n \in S
    BY <1>0, <1>2, <1>3, NatInduct
  <1>5. f[n] \in M /\ \A k \in 1 .. n : f[n] \in T[k]
    BY <1>0, <1>4 DEF S
  <1> QED
    BY <1>0, <1>1, <1>5

(* One event, that does nothing the second time. *)
LEMMA OneLeads ==
  ASSUME NEW G, NEW H, NEW e, ApplyGraphEvent(G, e) = H, ApplyGraphEvent(H, e) = H
  PROVE  Leads({G, H}, <<e>>, H)
  <1> DEFINE M == {G, H}
             T == [j \in 1 .. 1 |-> {H}]
  <1>0. Len(<<e>>) = 1 /\ <<e>>[1] = e
    OBVIOUS
  <1>1. \A j \in 1 .. Len(<<e>>) : j = 1 /\ T[j] = {H} /\ <<e>>[j] = e
    BY <1>0
  <1>2. Len(<<e>>) \in Nat
    BY <1>0
  <1> HIDE DEF T
  <1>3. \A g \in M, j \in 1 .. Len(<<e>>) : ApplyGraphEvent(g, <<e>>[j]) = H
    BY <1>1
  <1>4. H \in M
    OBVIOUS
  <1> HIDE DEF M
  <1>5. \A g \in M, j \in 1 .. Len(<<e>>) :
          ApplyGraphEvent(g, <<e>>[j]) \in M /\ ApplyGraphEvent(g, <<e>>[j]) \in T[j]
    BY <1>1, <1>3, <1>4
  <1>6. \A g \in M, j, k \in 1 .. Len(<<e>>) : g \in T[k] => ApplyGraphEvent(g, <<e>>[j]) \in T[k]
    BY <1>1, <1>3, <1>4
  <1>7. \A g \in M : (\A k \in 1 .. Len(<<e>>) : g \in T[k]) => g = H
    BY <1>0, <1>1
  <1>8. Leads(M, <<e>>, H)
    BY <1>2, <1>5, <1>6, <1>7, DoneLeads
  <1> QED
    BY <1>8 DEF M

(* There and back. *)
LEMMA OneBetween ==
  ASSUME NEW G, NEW H, NEW d, NEW e,
         ApplyGraphEvent(G, d) = H, ApplyGraphEvent(H, d) = H,
         ApplyGraphEvent(H, e) = G, ApplyGraphEvent(G, e) = G
  PROVE  Between({G, H}, G, Item(<<d>>, <<e>>), H)
  <1>1. Leads({G, H}, <<d>>, H)
    BY OneLeads
  <1>2. Leads({H, G}, <<e>>, G)
    BY OneLeads
  <1>3. {H, G} = {G, H}
    OBVIOUS
  <1> QED
    BY <1>1, <1>2, <1>3 DEF Between, Item

(* A graph of the model is its nodes and links. *)
LEMMA GraphIs ==
  ASSUME NEW m, NEW g \in GraphUpTo(m)
  PROVE  /\ g = [nodes |-> g.nodes, links |-> g.links]
         /\ g.nodes \in SUBSET NodeUpTo(m) /\ g.links \in SUBSET LinkUpTo(m)
         /\ IsKeyed(g.nodes) /\ IsKeyed(g.links)
  BY DEF GraphUpTo

(* Adding a node and taking it away lead between the graphs without and with it. *)
LEMMA NodeAdded ==
  ASSUME NEW m \in Nat, m < MaxGestures, NEW g \in GraphUpTo(m), NEW label \in AnyLabel
  PROVE  LET n == [id |-> <<m + 1>>, label |-> label] IN
         \E M, H : Between(M, g, Item(<<NodeCreated(n)>>, <<Deleted("node.deleted", n)>>), H)
  <1> DEFINE n == [id |-> <<m + 1>>, label |-> label]
             id == <<m + 1>>
             h == [nodes |-> g.nodes \cup {n}, links |-> g.links]
             d == NodeCreated(n)
             e == Deleted("node.deleted", n)
  <1>1. /\ g = [nodes |-> g.nodes, links |-> g.links]
        /\ g.nodes \in SUBSET NodeUpTo(m) /\ g.links \in SUBSET LinkUpTo(m)
    BY GraphIs
  <1>2. id \notin KnownId(m)
    BY FreshIsNew
  <1>3. h = [nodes |-> h.nodes, links |-> h.links] /\ h.nodes = g.nodes \cup {n} /\ h.links = g.links
    OBVIOUS
  <1>4. d.type = "node.created" /\ d.id = id /\ [id |-> d.id, label |-> d.label] = n /\ n.id = id
    BY DEF NodeCreated
  <1>5. e.type = "node.deleted" /\ e.id = id
    BY DEF Deleted
  <1> HIDE DEF n, id, h, d, e
  <1>6. /\ \A x \in g.nodes : x.id # id
        /\ \A l \in g.links : id \notin {l.source, l.target}
    BY <1>1, <1>2 DEF NodeUpTo, LinkUpTo
  <1>7. Without(g.nodes, id) = g.nodes /\ Without(h.nodes, id) = g.nodes
    BY <1>3, <1>4, <1>6 DEF Without
  <1>8. {l \in g.links : id \notin {l.source, l.target}} = g.links
    BY <1>6
  <1>9. h = [nodes |-> g.nodes \cup {n}, links |-> g.links]
    BY <1>3
  <1>10. ApplyGraphEvent(g, d) = h /\ ApplyGraphEvent(h, d) = h
    <2>1. ApplyGraphEvent(g, d) =
            [nodes |-> Without(g.nodes, d.id) \cup {[id |-> d.id, label |-> d.label]}, links |-> g.links]
      BY <1>1, <1>4, EventEffects
    <2>2. ApplyGraphEvent(h, d) =
            [nodes |-> Without(h.nodes, d.id) \cup {[id |-> d.id, label |-> d.label]}, links |-> h.links]
      BY <1>3, <1>4, EventEffects
    <2> QED
      BY <2>1, <2>2, <1>3, <1>4, <1>7, <1>9
  <1>11. ApplyGraphEvent(h, e) = g /\ ApplyGraphEvent(g, e) = g
    <2>1. ApplyGraphEvent(g, e) =
            [nodes |-> Without(g.nodes, e.id), links |-> {l \in g.links : e.id \notin {l.source, l.target}}]
      BY <1>1, <1>5, EventEffects
    <2>2. ApplyGraphEvent(h, e) =
            [nodes |-> Without(h.nodes, e.id), links |-> {l \in h.links : e.id \notin {l.source, l.target}}]
      BY <1>3, <1>5, EventEffects
    <2> QED
      BY <2>1, <2>2, <1>1, <1>3, <1>5, <1>7, <1>8
  <1>12. Between({g, h}, g, Item(<<d>>, <<e>>), h)
    BY <1>10, <1>11, OneBetween
  <1> QED
    BY <1>12 DEF d, e, n

(* So do drawing a link and taking it away. *)
LEMMA LinkAdded ==
  ASSUME NEW m \in Nat, m < MaxGestures, NEW g \in GraphUpTo(m), NEW l, l.id = <<m + 1>>
  PROVE  \E M, H : Between(M, g, Item(<<LinkCreated(l)>>, <<Deleted("link.deleted", l)>>), H)
  <1> DEFINE id == <<m + 1>>
             h == [nodes |-> g.nodes, links |-> g.links \cup {l}]
             d == LinkCreated(l)
             e == Deleted("link.deleted", l)
  <1>1. /\ g = [nodes |-> g.nodes, links |-> g.links]
        /\ g.links \in SUBSET LinkUpTo(m)
    BY GraphIs
  <1>2. id \notin KnownId(m)
    BY FreshIsNew
  <1>3. h = [nodes |-> h.nodes, links |-> h.links] /\ h.nodes = g.nodes /\ h.links = g.links \cup {l}
    OBVIOUS
  <1>4. d.type = "link.created" /\ d.link = l /\ l.id = id
    BY DEF LinkCreated
  <1>5. e.type = "link.deleted" /\ e.id = id
    BY DEF Deleted
  <1> HIDE DEF id, h, d, e
  <1>6. \A k \in g.links : k.id # id
    BY <1>1, <1>2 DEF LinkUpTo
  <1>7. Without(g.links, id) = g.links /\ Without(h.links, id) = g.links
    BY <1>3, <1>4, <1>6 DEF Without
  <1>9. h = [nodes |-> g.nodes, links |-> g.links \cup {l}]
    BY <1>3
  <1>10. ApplyGraphEvent(g, d) = h /\ ApplyGraphEvent(h, d) = h
    <2>1. ApplyGraphEvent(g, d) = [nodes |-> g.nodes, links |-> Without(g.links, d.link.id) \cup {d.link}]
      BY <1>1, <1>4, EventEffects
    <2>2. ApplyGraphEvent(h, d) = [nodes |-> h.nodes, links |-> Without(h.links, d.link.id) \cup {d.link}]
      BY <1>3, <1>4, EventEffects
    <2> QED
      BY <2>1, <2>2, <1>3, <1>4, <1>7, <1>9
  <1>11. ApplyGraphEvent(h, e) = g /\ ApplyGraphEvent(g, e) = g
    <2>1. ApplyGraphEvent(g, e) = [nodes |-> g.nodes, links |-> Without(g.links, e.id)]
      BY <1>1, <1>5, EventEffects
    <2>2. ApplyGraphEvent(h, e) = [nodes |-> h.nodes, links |-> Without(h.links, e.id)]
      BY <1>3, <1>5, EventEffects
    <2> QED
      BY <2>1, <2>2, <1>1, <1>3, <1>5, <1>7
  <1>12. Between({g, h}, g, Item(<<d>>, <<e>>), h)
    BY <1>10, <1>11, OneBetween
  <1> QED
    BY <1>12 DEF d, e

(* And a rename and the one back. *)
LEMMA NodeRenamed ==
  ASSUME NEW m, NEW g \in GraphUpTo(m), NEW n \in g.nodes, NEW label
  PROVE  \E M, H : Between(M, g, Item(<<Relabelled(n, label)>>, <<Relabelled(n, n.label)>>), H)
  <1> DEFINE k == [id |-> n.id, label |-> label]
             N == Without(g.nodes, n.id)
             h == [nodes |-> N \cup {k}, links |-> g.links]
             d == Relabelled(n, label)
             e == Relabelled(n, n.label)
  <1>1. /\ g = [nodes |-> g.nodes, links |-> g.links]
        /\ g.nodes \in SUBSET NodeUpTo(m) /\ IsKeyed(g.nodes)
    BY GraphIs
  <1>2. n = [id |-> n.id, label |-> n.label]
    BY <1>1 DEF NodeUpTo
  <1>3. /\ d.type = "node.label.updated" /\ d.id = n.id /\ [id |-> d.id, label |-> d.label] = k
        /\ e.type = "node.label.updated" /\ e.id = n.id /\ [id |-> e.id, label |-> e.label] = n
        /\ k.id = n.id
    BY <1>2 DEF Relabelled
  <1>4. h = [nodes |-> h.nodes, links |-> h.links] /\ h.nodes = N \cup {k} /\ h.links = g.links
    OBVIOUS
  <1>5. g.nodes = N \cup {n}
    BY <1>1 DEF IsKeyed, Without
  <1>6. Without(N \cup {k}, n.id) = N
    BY <1>3 DEF Without
  <1>7. n.id \in NodeIds(g)
    BY DEF NodeIds
  <1> HIDE DEF k, h, d, e
  <1>8. n.id \in NodeIds(h)
    BY <1>3, <1>4 DEF NodeIds
  <1>9. Without(g.nodes, n.id) = N /\ Without(h.nodes, n.id) = N
    BY <1>4, <1>6
  <1>a. h = [nodes |-> N \cup {k}, links |-> g.links] /\ g = [nodes |-> N \cup {n}, links |-> g.links]
    BY <1>1, <1>4, <1>5
  <1> HIDE DEF N
  <1>10. ApplyGraphEvent(g, d) = h /\ ApplyGraphEvent(h, d) = h
    <2>1. ApplyGraphEvent(g, d) =
            IF d.id \in NodeIds(g)
              THEN [nodes |-> Without(g.nodes, d.id) \cup {[id |-> d.id, label |-> d.label]}, links |-> g.links]
              ELSE g
      BY <1>1, <1>3, <1>4, EventEffects
    <2>2. ApplyGraphEvent(h, d) =
            IF d.id \in NodeIds(h)
              THEN [nodes |-> Without(h.nodes, d.id) \cup {[id |-> d.id, label |-> d.label]}, links |-> h.links]
              ELSE h
      BY <1>1, <1>3, <1>4, EventEffects
    <2> QED
      BY <2>1, <2>2, <1>3, <1>4, <1>7, <1>8, <1>9, <1>a
  <1>11. ApplyGraphEvent(h, e) = g /\ ApplyGraphEvent(g, e) = g
    <2>1. ApplyGraphEvent(g, e) =
            IF e.id \in NodeIds(g)
              THEN [nodes |-> Without(g.nodes, e.id) \cup {[id |-> e.id, label |-> e.label]}, links |-> g.links]
              ELSE g
      BY <1>1, <1>3, <1>4, EventEffects
    <2>2. ApplyGraphEvent(h, e) =
            IF e.id \in NodeIds(h)
              THEN [nodes |-> Without(h.nodes, e.id) \cup {[id |-> e.id, label |-> e.label]}, links |-> h.links]
              ELSE h
      BY <1>1, <1>3, <1>4, EventEffects
    <2> QED
      BY <2>1, <2>2, <1>3, <1>4, <1>7, <1>8, <1>9, <1>a
  <1>12. Between({g, h}, g, Item(<<d>>, <<e>>), h)
    BY <1>10, <1>11, OneBetween
  <1> QED
    BY <1>12 DEF d, e

(* All of the elements are among them. *)
LEMMA InOrderCovers ==
  ASSUME NEW S, IsFiniteSet(S)
  PROVE  InOrder(S) \in Seq(S) /\ \A x \in S : \E i \in 1 .. Len(InOrder(S)) : InOrder(S)[i] = x
  <1> DEFINE n == Cardinality(S)
             f == InOrder(S)
  <1>1. f \in [1 .. n -> S] /\ \A i, j \in 1 .. n : f[i] = f[j] => i = j
    BY Enumerated, Zenon DEF InOrder
  <1>2. n \in Nat
    BY Enumerated
  <1> HIDE DEF n, f
  <1>3. f \in Seq(S) /\ Len(f) = n
    BY <1>1, <1>2, FunctionIsSeq
  <1>4. ASSUME NEW x \in S, \A i \in 1 .. n : f[i] # x PROVE FALSE
    <2>1. IsFiniteSet(S \ {x}) /\ Cardinality(S \ {x}) = n - 1
      BY FS_RemoveElement DEF n
    <2>2. IsFiniteSet(1 .. n) /\ Cardinality(1 .. n) = n
      <3>1. 1 \in Int /\ n \in Int
        BY <1>2
      <3>2. IsFiniteSet(1 .. n) /\ Cardinality(1 .. n) = IF 1 > n THEN 0 ELSE n - 1 + 1
        BY <3>1, FS_Interval
      <3> QED
        BY <1>2, <3>2
    <2>3. f \in [1 .. n -> S \ {x}]
      BY <1>1, <1>4
    <2>4. Cardinality(S \ {x}) < Cardinality(1 .. n)
      BY <1>2, <2>1, <2>2
    <2>5. \E i, j \in 1 .. n : i # j /\ f[i] = f[j]
      BY <2>1, <2>2, <2>3, <2>4, FS_PigeonHole, Zenon
    <2> QED
      BY <1>1, <2>5
  <1> QED
    BY <1>3, <1>4 DEF f

(* An event has taken out of g what it deletes, or put in what it creates.    *)
Undrawn(g, e) ==
  /\ e.type = "node.deleted" => /\ \A n \in g.nodes : n.id # e.id
                                /\ \A l \in g.links : e.id \notin {l.source, l.target}
  /\ e.type = "link.deleted" => \A l \in g.links : l.id # e.id

IsDrawn(g, e) ==
  /\ e.type = "node.created" => [id |-> e.id, label |-> e.label] \in g.nodes
  /\ e.type = "link.created" => e.link \in g.links

(* The graphs that have all of G but some of these. *)
Partly(G, nodes, links) ==
  {g \in [nodes : SUBSET G.nodes, links : SUBSET G.links] :
     G.nodes \ nodes \subseteq g.nodes /\ G.links \ links \subseteq g.links}

(* What is in Partly. *)
LEMMA PartlyIs ==
  ASSUME NEW G, NEW nodes, NEW links, NEW g
  PROVE  g \in Partly(G, nodes, links) <=>
           /\ g = [nodes |-> g.nodes, links |-> g.links]
           /\ g.nodes \subseteq G.nodes /\ g.links \subseteq G.links
           /\ G.nodes \ nodes \subseteq g.nodes /\ G.links \ links \subseteq g.links
  BY DEF Partly

(* The graph without the node and its links. *)
NodeGone(g, n) == [nodes |-> g.nodes \ {n}, links |-> {l \in g.links : n.id \notin {l.source, l.target}}]

LinkGone(g, l) == [nodes |-> g.nodes, links |-> g.links \ {l}]

NodeBack(g, n) == [nodes |-> g.nodes \cup {n}, links |-> g.links]

LinkBack(g, l) == [nodes |-> g.nodes, links |-> g.links \cup {l}]

(* What the events of a deletion do to such a graph. *)
LEMMA PartlyLess ==
  ASSUME NEW m, NEW G \in GraphUpTo(m), NEW nodes \in SUBSET G.nodes, NEW links \in SUBSET G.links,
         NEW g \in Partly(G, nodes, links)
  PROVE  /\ \A n \in nodes : ApplyGraphEvent(g, Deleted("node.deleted", n)) = NodeGone(g, n)
         /\ \A l \in links : ApplyGraphEvent(g, Deleted("link.deleted", l)) = LinkGone(g, l)
  <1>1. /\ G.nodes \in SUBSET NodeUpTo(m) /\ IsKeyed(G.nodes) /\ IsKeyed(G.links)
    BY GraphIs
  <1>2. /\ g = [nodes |-> g.nodes, links |-> g.links]
        /\ g.nodes \subseteq G.nodes /\ g.links \subseteq G.links
    BY PartlyIs
  <1>3. /\ \A n \in nodes : Without(g.nodes, n.id) = g.nodes \ {n}
        /\ \A l \in links : Without(g.links, l.id) = g.links \ {l}
    BY <1>1, <1>2 DEF Without, IsKeyed
  <1>4. \A n \in nodes : n = [id |-> n.id, label |-> n.label]
    BY <1>1 DEF NodeUpTo
  <1>5. ASSUME NEW n \in nodes
        PROVE  ApplyGraphEvent(g, Deleted("node.deleted", n)) = NodeGone(g, n)
    <2> DEFINE e == Deleted("node.deleted", n)
    <2>1. e.type = "node.deleted" /\ e.id = n.id
      BY DEF Deleted
    <2> HIDE DEF e
    <2>2. ApplyGraphEvent(g, e) =
            [nodes |-> Without(g.nodes, e.id), links |-> {l \in g.links : e.id \notin {l.source, l.target}}]
      BY <1>2, <2>1, EventEffects
    <2> QED
      BY <1>3, <2>1, <2>2 DEF e, NodeGone
  <1>6. ASSUME NEW l \in links
        PROVE  ApplyGraphEvent(g, Deleted("link.deleted", l)) = LinkGone(g, l)
    <2> DEFINE e == Deleted("link.deleted", l)
    <2>1. e.type = "link.deleted" /\ e.id = l.id
      BY DEF Deleted
    <2> HIDE DEF e
    <2>2. ApplyGraphEvent(g, e) = [nodes |-> g.nodes, links |-> Without(g.links, e.id)]
      BY <1>2, <2>1, EventEffects
    <2> QED
      BY <1>3, <2>1, <2>2 DEF e, LinkGone
  <1> QED
    BY <1>5, <1>6

(* What those of its undo do. *)
LEMMA PartlyMore ==
  ASSUME NEW m, NEW G \in GraphUpTo(m), NEW nodes \in SUBSET G.nodes, NEW links \in SUBSET G.links,
         NEW g \in Partly(G, nodes, links)
  PROVE  /\ \A n \in nodes : ApplyGraphEvent(g, NodeCreated(n)) = NodeBack(g, n)
         /\ \A l \in links : ApplyGraphEvent(g, LinkCreated(l)) = LinkBack(g, l)
  <1>1. /\ G.nodes \in SUBSET NodeUpTo(m) /\ IsKeyed(G.nodes) /\ IsKeyed(G.links)
    BY GraphIs
  <1>2. /\ g = [nodes |-> g.nodes, links |-> g.links]
        /\ g.nodes \subseteq G.nodes /\ g.links \subseteq G.links
    BY PartlyIs
  <1>3. /\ \A n \in nodes : Without(g.nodes, n.id) = g.nodes \ {n}
        /\ \A l \in links : Without(g.links, l.id) = g.links \ {l}
    BY <1>1, <1>2 DEF Without, IsKeyed
  <1>4. \A n \in nodes : n = [id |-> n.id, label |-> n.label]
    BY <1>1 DEF NodeUpTo
  <1>7. ASSUME NEW n \in nodes
        PROVE  ApplyGraphEvent(g, NodeCreated(n)) = NodeBack(g, n)
    <2> DEFINE e == NodeCreated(n)
    <2>1. e.type = "node.created" /\ e.id = n.id /\ [id |-> e.id, label |-> e.label] = n
      BY <1>4 DEF NodeCreated
    <2> HIDE DEF e
    <2>2. ApplyGraphEvent(g, e) =
            [nodes |-> Without(g.nodes, e.id) \cup {[id |-> e.id, label |-> e.label]}, links |-> g.links]
      BY <1>2, <2>1, EventEffects
    <2>3. (g.nodes \ {n}) \cup {n} = g.nodes \cup {n}
      OBVIOUS
    <2> QED
      BY <1>3, <2>1, <2>2, <2>3 DEF e, NodeBack
  <1>8. ASSUME NEW l \in links
        PROVE  ApplyGraphEvent(g, LinkCreated(l)) = LinkBack(g, l)
    <2> DEFINE e == LinkCreated(l)
    <2>1. e.type = "link.created" /\ e.link = l
      BY DEF LinkCreated
    <2> HIDE DEF e
    <2>2. ApplyGraphEvent(g, e) = [nodes |-> g.nodes, links |-> Without(g.links, e.link.id) \cup {e.link}]
      BY <1>2, <2>1, EventEffects
    <2>3. (g.links \ {l}) \cup {l} = g.links \cup {l}
      OBVIOUS
    <2> QED
      BY <1>3, <2>1, <2>2, <2>3 DEF e, LinkBack
  <1> QED
    BY <1>7, <1>8

(* Deleting all of them, in whatever order, leads from each of these graphs   *)
(* to the one without them.                                                   *)
LEMMA DeletingLeads ==
  ASSUME NEW m, NEW G \in GraphUpTo(m), NEW nodes \in SUBSET G.nodes, NEW links \in SUBSET G.links,
         \A l \in G.links : IsIncident(l, nodes) => l \in links,
         NEW es, Len(es) \in Nat,
         \A j \in 1 .. Len(es) : \/ \E n \in nodes : es[j] = Deleted("node.deleted", n)
                                 \/ \E l \in links : es[j] = Deleted("link.deleted", l),
         \A n \in nodes : \E j \in 1 .. Len(es) : es[j] = Deleted("node.deleted", n),
         \A l \in links : IsIncident(l, nodes) \/ \E j \in 1 .. Len(es) : es[j] = Deleted("link.deleted", l)
  PROVE  Leads(Partly(G, nodes, links), es, [nodes |-> G.nodes \ nodes, links |-> G.links \ links])
  <1> DEFINE M == Partly(G, nodes, links)
             H == [nodes |-> G.nodes \ nodes, links |-> G.links \ links]
             T == [j \in 1 .. Len(es) |-> {g \in M : Undrawn(g, es[j])}]
  <1>1. /\ IsKeyed(G.nodes) /\ IsKeyed(G.links)
    BY GraphIs
  <1>2. ASSUME NEW g \in M, NEW j \in 1 .. Len(es)
        PROVE  LET h == ApplyGraphEvent(g, es[j]) IN
               /\ h \in M /\ Undrawn(h, es[j])
               /\ h.nodes \subseteq g.nodes /\ h.links \subseteq g.links
    <2>1. /\ g = [nodes |-> g.nodes, links |-> g.links]
          /\ g.nodes \subseteq G.nodes /\ g.links \subseteq G.links
          /\ G.nodes \ nodes \subseteq g.nodes /\ G.links \ links \subseteq g.links
      BY PartlyIs
    <2>0. /\ \A n \in nodes : ApplyGraphEvent(g, Deleted("node.deleted", n)) = NodeGone(g, n)
          /\ \A l \in links : ApplyGraphEvent(g, Deleted("link.deleted", l)) = LinkGone(g, l)
      <3>1. g \in Partly(G, nodes, links)
        OBVIOUS
      <3> HIDE DEF M, T
      <3> QED
        BY <3>1, PartlyLess
    <2>2. CASE \E n \in nodes : es[j] = Deleted("node.deleted", n)
      <3>1. PICK n \in nodes : es[j] = Deleted("node.deleted", n)
        BY <2>2
      <3> DEFINE L == {l \in g.links : n.id \notin {l.source, l.target}}
                 h == [nodes |-> g.nodes \ {n}, links |-> L]
      <3>2. ApplyGraphEvent(g, es[j]) = h
        BY <2>0, <3>1 DEF NodeGone
      <3>3. es[j].type = "node.deleted" /\ es[j].id = n.id
        BY <3>1 DEF Deleted
      <3>4. \A l \in G.links : n.id \in {l.source, l.target} => l \in links
        <4> SUFFICES ASSUME NEW l \in G.links, n.id \in {l.source, l.target} PROVE IsIncident(l, nodes)
          OBVIOUS
        <4>1. n.id \in {k.id : k \in nodes}
          OBVIOUS
        <4> QED
          BY <4>1 DEF IsIncident
      <3>5. G.links \ links \subseteq L /\ L \subseteq g.links
        BY <2>1, <3>4
      <3>6. h.nodes = g.nodes \ {n} /\ h.links = L /\ h = [nodes |-> h.nodes, links |-> h.links]
        OBVIOUS
      <3>7. \A l \in L : n.id \notin {l.source, l.target}
        OBVIOUS
      <3> HIDE DEF L, h
      <3>8. \A k \in g.nodes \ {n} : k.id # n.id
        BY <1>1, <2>1, <3>1 DEF IsKeyed
      <3>9. Undrawn(h, es[j])
        BY <3>3, <3>6, <3>7, <3>8 DEF Undrawn
      <3>10. h \in M
        BY <2>1, <3>1, <3>5, <3>6, PartlyIs
      <3> QED
        BY <3>2, <3>5, <3>6, <3>9, <3>10
    <2>3. CASE \E l \in links : es[j] = Deleted("link.deleted", l)
      <3>1. PICK l \in links : es[j] = Deleted("link.deleted", l)
        BY <2>3
      <3> DEFINE h == [nodes |-> g.nodes, links |-> g.links \ {l}]
      <3>2. ApplyGraphEvent(g, es[j]) = h
        BY <2>0, <3>1 DEF LinkGone
      <3>3. es[j].type = "link.deleted" /\ es[j].id = l.id
        BY <3>1 DEF Deleted
      <3>6. h.nodes = g.nodes /\ h.links = g.links \ {l} /\ h = [nodes |-> h.nodes, links |-> h.links]
        OBVIOUS
      <3> HIDE DEF h
      <3>8. \A k \in g.links \ {l} : k.id # l.id
        BY <1>1, <2>1, <3>1 DEF IsKeyed
      <3>9. Undrawn(h, es[j])
        BY <3>3, <3>6, <3>8 DEF Undrawn
      <3>10. h \in M
        BY <2>1, <3>1, <3>6, PartlyIs
      <3> QED
        BY <3>2, <3>6, <3>9, <3>10
    <2> QED
      BY <2>2, <2>3
  <1>3. ASSUME NEW g \in M, \A k \in 1 .. Len(es) : Undrawn(g, es[k])
        PROVE  g = H
    <2>1. /\ g = [nodes |-> g.nodes, links |-> g.links]
          /\ g.nodes \subseteq G.nodes /\ g.links \subseteq G.links
          /\ G.nodes \ nodes \subseteq g.nodes /\ G.links \ links \subseteq g.links
      BY PartlyIs
    <2>2. ASSUME NEW n \in nodes
          PROVE  n \notin g.nodes /\ \A l \in g.links : n.id \notin {l.source, l.target}
      <3>1. PICK j \in 1 .. Len(es) : es[j] = Deleted("node.deleted", n)
        BY <2>2
      <3>2. es[j].type = "node.deleted" /\ es[j].id = n.id
        BY <3>1 DEF Deleted
      <3> QED
        BY <1>3, <3>2 DEF Undrawn
    <2>3. ASSUME NEW l \in links
          PROVE  l \notin g.links
      <3>1. CASE IsIncident(l, nodes)
        BY <2>2, <3>1 DEF IsIncident
      <3>2. CASE \E j \in 1 .. Len(es) : es[j] = Deleted("link.deleted", l)
        <4>1. PICK j \in 1 .. Len(es) : es[j] = Deleted("link.deleted", l)
          BY <3>2
        <4>2. es[j].type = "link.deleted" /\ es[j].id = l.id
          BY <4>1 DEF Deleted
        <4> QED
          BY <1>3, <4>2 DEF Undrawn
      <3> QED
        BY <3>1, <3>2
    <2>4. g.nodes = G.nodes \ nodes /\ g.links = G.links \ links
      BY <2>1, <2>2, <2>3
    <2> QED
      BY <2>1, <2>4
  <1> HIDE DEF M, H
  <1>4. \A j \in 1 .. Len(es) : \A g : g \in T[j] <=> g \in M /\ Undrawn(g, es[j])
    OBVIOUS
  <1> HIDE DEF T
  <1>5. \A g \in M, j \in 1 .. Len(es) : ApplyGraphEvent(g, es[j]) \in M /\ ApplyGraphEvent(g, es[j]) \in T[j]
    BY <1>2, <1>4
  <1>6. \A g \in M, j, k \in 1 .. Len(es) : g \in T[k] => ApplyGraphEvent(g, es[j]) \in T[k]
    <2> SUFFICES ASSUME NEW g \in M, NEW j \in 1 .. Len(es), NEW k \in 1 .. Len(es), g \in T[k]
                 PROVE  ApplyGraphEvent(g, es[j]) \in T[k]
      OBVIOUS
    <2> DEFINE h == ApplyGraphEvent(g, es[j])
    <2>1. h \in M /\ h.nodes \subseteq g.nodes /\ h.links \subseteq g.links
      BY <1>2
    <2>2. Undrawn(g, es[k])
      BY <1>4
    <2> HIDE DEF h
    <2>3. Undrawn(h, es[k])
      BY <2>1, <2>2 DEF Undrawn
    <2> QED
      BY <1>4, <2>1, <2>3 DEF h
  <1>7. \A g \in M : (\A k \in 1 .. Len(es) : g \in T[k]) => g = H
    BY <1>3, <1>4
  <1>8. Leads(M, es, H)
    BY <1>5, <1>6, <1>7, DoneLeads
  <1> QED
    BY <1>8 DEF M, H

(* Creating all of them leads to the graph that has them. *)
LEMMA CreatingLeads ==
  ASSUME NEW m, NEW G \in GraphUpTo(m), NEW nodes \in SUBSET G.nodes, NEW links \in SUBSET G.links,
         NEW es, Len(es) \in Nat,
         \A j \in 1 .. Len(es) : \/ \E n \in nodes : es[j] = NodeCreated(n)
                                 \/ \E l \in links : es[j] = LinkCreated(l),
         \A n \in nodes : \E j \in 1 .. Len(es) : es[j] = NodeCreated(n),
         \A l \in links : \E j \in 1 .. Len(es) : es[j] = LinkCreated(l)
  PROVE  Leads(Partly(G, nodes, links), es, G)
  <1> DEFINE M == Partly(G, nodes, links)
             T == [j \in 1 .. Len(es) |-> {g \in M : IsDrawn(g, es[j])}]
  <1>1. G = [nodes |-> G.nodes, links |-> G.links] /\ G.nodes \in SUBSET NodeUpTo(m)
    BY GraphIs
  <1>a. \A n \in nodes : n = [id |-> n.id, label |-> n.label]
    BY <1>1 DEF NodeUpTo
  <1>2. ASSUME NEW g \in M, NEW j \in 1 .. Len(es)
        PROVE  LET h == ApplyGraphEvent(g, es[j]) IN
               /\ h \in M /\ IsDrawn(h, es[j])
               /\ g.nodes \subseteq h.nodes /\ g.links \subseteq h.links
    <2>1. /\ g = [nodes |-> g.nodes, links |-> g.links]
          /\ g.nodes \subseteq G.nodes /\ g.links \subseteq G.links
          /\ G.nodes \ nodes \subseteq g.nodes /\ G.links \ links \subseteq g.links
      BY PartlyIs
    <2>0. /\ \A n \in nodes : ApplyGraphEvent(g, NodeCreated(n)) = NodeBack(g, n)
          /\ \A l \in links : ApplyGraphEvent(g, LinkCreated(l)) = LinkBack(g, l)
      <3>1. g \in Partly(G, nodes, links)
        OBVIOUS
      <3> HIDE DEF M, T
      <3> QED
        BY <3>1, PartlyMore
    <2>2. CASE \E n \in nodes : es[j] = NodeCreated(n)
      <3>1. PICK n \in nodes : es[j] = NodeCreated(n)
        BY <2>2
      <3> DEFINE h == [nodes |-> g.nodes \cup {n}, links |-> g.links]
      <3>2. ApplyGraphEvent(g, es[j]) = h
        BY <2>0, <3>1 DEF NodeBack
      <3>3. es[j].type = "node.created" /\ [id |-> es[j].id, label |-> es[j].label] = n
        BY <1>a, <3>1 DEF NodeCreated
      <3>6. h.nodes = g.nodes \cup {n} /\ h.links = g.links /\ h = [nodes |-> h.nodes, links |-> h.links]
        OBVIOUS
      <3> HIDE DEF h
      <3>9. IsDrawn(h, es[j])
        BY <3>3, <3>6 DEF IsDrawn
      <3>10. h \in M
        BY <2>1, <3>1, <3>6, PartlyIs
      <3> QED
        BY <3>2, <3>6, <3>9, <3>10
    <2>3. CASE \E l \in links : es[j] = LinkCreated(l)
      <3>1. PICK l \in links : es[j] = LinkCreated(l)
        BY <2>3
      <3> DEFINE h == [nodes |-> g.nodes, links |-> g.links \cup {l}]
      <3>2. ApplyGraphEvent(g, es[j]) = h
        BY <2>0, <3>1 DEF LinkBack
      <3>3. es[j].type = "link.created" /\ es[j].link = l
        BY <3>1 DEF LinkCreated
      <3>6. h.nodes = g.nodes /\ h.links = g.links \cup {l} /\ h = [nodes |-> h.nodes, links |-> h.links]
        OBVIOUS
      <3> HIDE DEF h
      <3>9. IsDrawn(h, es[j])
        BY <3>3, <3>6 DEF IsDrawn
      <3>10. h \in M
        BY <2>1, <3>1, <3>6, PartlyIs
      <3> QED
        BY <3>2, <3>6, <3>9, <3>10
    <2> QED
      BY <2>2, <2>3
  <1>3. ASSUME NEW g \in M, \A k \in 1 .. Len(es) : IsDrawn(g, es[k])
        PROVE  g = G
    <2>1. /\ g = [nodes |-> g.nodes, links |-> g.links]
          /\ g.nodes \subseteq G.nodes /\ g.links \subseteq G.links
          /\ G.nodes \ nodes \subseteq g.nodes /\ G.links \ links \subseteq g.links
      BY PartlyIs
    <2>2. ASSUME NEW n \in nodes PROVE n \in g.nodes
      <3>1. PICK j \in 1 .. Len(es) : es[j] = NodeCreated(n)
        BY <2>2
      <3>2. es[j].type = "node.created" /\ [id |-> es[j].id, label |-> es[j].label] = n
        BY <1>a, <3>1 DEF NodeCreated
      <3> QED
        BY <1>3, <3>2 DEF IsDrawn
    <2>3. ASSUME NEW l \in links PROVE l \in g.links
      <3>1. PICK j \in 1 .. Len(es) : es[j] = LinkCreated(l)
        BY <2>3
      <3>2. es[j].type = "link.created" /\ es[j].link = l
        BY <3>1 DEF LinkCreated
      <3> QED
        BY <1>3, <3>2 DEF IsDrawn
    <2>4. g.nodes = G.nodes /\ g.links = G.links
      BY <2>1, <2>2, <2>3
    <2> QED
      BY <1>1, <2>1, <2>4
  <1> HIDE DEF M
  <1>4. \A j \in 1 .. Len(es) : \A g : g \in T[j] <=> g \in M /\ IsDrawn(g, es[j])
    OBVIOUS
  <1> HIDE DEF T
  <1>5. \A g \in M, j \in 1 .. Len(es) : ApplyGraphEvent(g, es[j]) \in M /\ ApplyGraphEvent(g, es[j]) \in T[j]
    BY <1>2, <1>4
  <1>6. \A g \in M, j, k \in 1 .. Len(es) : g \in T[k] => ApplyGraphEvent(g, es[j]) \in T[k]
    <2> SUFFICES ASSUME NEW g \in M, NEW j \in 1 .. Len(es), NEW k \in 1 .. Len(es), g \in T[k]
                 PROVE  ApplyGraphEvent(g, es[j]) \in T[k]
      OBVIOUS
    <2> DEFINE h == ApplyGraphEvent(g, es[j])
    <2>1. h \in M /\ g.nodes \subseteq h.nodes /\ g.links \subseteq h.links
      BY <1>2
    <2>2. IsDrawn(g, es[k])
      BY <1>4
    <2> HIDE DEF h
    <2>3. IsDrawn(h, es[k])
      BY <2>1, <2>2 DEF IsDrawn
    <2> QED
      BY <1>4, <2>1, <2>3 DEF h
  <1>7. \A g \in M : (\A k \in 1 .. Len(es) : g \in T[k]) => g = G
    BY <1>3, <1>4
  <1>8. Leads(M, es, G)
    BY <1>5, <1>6, <1>7, DoneLeads
  <1> QED
    BY <1>8 DEF M

(* s holds what the two lists hold. *)
Joins(s, xs, ys) ==
  /\ Len(s) \in Nat
  /\ \A j \in 1 .. Len(s) : (\E i \in 1 .. Len(xs) : s[j] = xs[i]) \/ (\E i \in 1 .. Len(ys) : s[j] = ys[i])
  /\ \A i \in 1 .. Len(xs) : \E j \in 1 .. Len(s) : s[j] = xs[i]
  /\ \A i \in 1 .. Len(ys) : \E j \in 1 .. Len(s) : s[j] = ys[i]

(* The elements of two lists, one after the other. *)
LEMMA TwoLists ==
  ASSUME NEW A, NEW B, NEW xs \in Seq(A), NEW ys \in Seq(B)
  PROVE  Joins(xs \o ys, xs, ys)
  <1> DEFINE s == xs \o ys
  <1>0. xs \in Seq(A \cup B) /\ ys \in Seq(A \cup B)
    OBVIOUS
  <1>1. /\ Len(xs) \in Nat /\ Len(ys) \in Nat /\ Len(s) = Len(xs) + Len(ys)
        /\ \A i \in 1 .. Len(xs) + Len(ys) : s[i] = IF i <= Len(xs) THEN xs[i] ELSE ys[i - Len(xs)]
    BY <1>0, ConcatProperties
  <1> HIDE DEF s
  <1>2. \A i \in 1 .. Len(xs) : i \in 1 .. Len(s) /\ s[i] = xs[i]
    BY <1>1
  <1>3. \A i \in 1 .. Len(ys) : Len(xs) + i \in 1 .. Len(s) /\ s[Len(xs) + i] = ys[i]
    <2> TAKE i \in 1 .. Len(ys)
    <2>1. /\ Len(xs) + i \in 1 .. Len(xs) + Len(ys) /\ (Len(xs) + i) - Len(xs) = i
          /\ ~(Len(xs) + i <= Len(xs))
      BY <1>1
    <2> QED
      BY <1>1, <2>1
  <1>4. \A j \in 1 .. Len(s) : (\E i \in 1 .. Len(xs) : s[j] = xs[i])
                               \/ (\E i \in 1 .. Len(ys) : s[j] = ys[i])
    <2> TAKE j \in 1 .. Len(s)
    <2>1. CASE j <= Len(xs)
      BY <1>1, <2>1
    <2>2. CASE ~(j <= Len(xs))
      <3>1. j - Len(xs) \in 1 .. Len(ys) /\ s[j] = ys[j - Len(xs)]
        BY <1>1, <2>2
      <3> QED
        BY <3>1, Zenon
    <2> QED
      BY <2>1, <2>2
  <1>5. Len(s) \in Nat
    BY <1>1
  <1> QED
    BY <1>2, <1>3, <1>4, <1>5 DEF s, Joins

(* A deletion of several, and what brings them back with all their links, lead between
   the graphs with and without: whatever is done of either, and in whatever order. *)
LEMMA ManyDeleted ==
  ASSUME NEW m, NEW G \in GraphUpTo(m), NEW nodes \in SUBSET G.nodes, NEW links \in SUBSET G.links
  PROVE  LET implicit == {l \in G.links : IsIncident(l, nodes)}
             explicit == ExplicitLinks(nodes, links)
             ns       == InOrder(nodes)
         IN  \E M, H : Between(M, G,
               Item(NodesDeleted(ns) \o LinksDeleted(InOrder(explicit)),
                    NodesCreated(ns) \o LinksCreated(InOrder(implicit \cup explicit))), H)
  <1> DEFINE implicit == {l \in G.links : IsIncident(l, nodes)}
             explicit == ExplicitLinks(nodes, links)
             all      == implicit \cup explicit
             ns == InOrder(nodes)
             ls == InOrder(explicit)
             ks == InOrder(all)
             redo == NodesDeleted(ns) \o LinksDeleted(ls)
             undo == NodesCreated(ns) \o LinksCreated(ks)
             M == Partly(G, nodes, all)
             H == [nodes |-> G.nodes \ nodes, links |-> G.links \ all]
  <1>1. /\ G = [nodes |-> G.nodes, links |-> G.links] /\ IsFiniteSet(G.nodes) /\ IsFiniteSet(G.links)
    BY GraphIs DEF IsKeyed
  <1>2. all \in SUBSET G.links /\ explicit \in SUBSET G.links
    BY DEF ExplicitLinks
  <1>3. (\A l \in G.links : IsIncident(l, nodes) => l \in all) /\ (\A l \in all : IsIncident(l, nodes) \/ l \in explicit)
        /\ explicit \subseteq all
    OBVIOUS
  <1> HIDE DEF implicit, explicit, all
  <1>4. IsFiniteSet(nodes) /\ IsFiniteSet(explicit) /\ IsFiniteSet(all)
    BY <1>1, <1>2, FS_Subset
  <1>5. /\ ns \in Seq(nodes) /\ \A x \in nodes : \E i \in 1 .. Len(ns) : ns[i] = x
        /\ ls \in Seq(explicit) /\ \A x \in explicit : \E i \in 1 .. Len(ls) : ls[i] = x
        /\ ks \in Seq(all) /\ \A x \in all : \E i \in 1 .. Len(ks) : ks[i] = x
    BY <1>4, InOrderCovers
  <1>b. /\ \A i \in 1 .. Len(ns) : ns[i] \in nodes
        /\ \A i \in 1 .. Len(ls) : ls[i] \in explicit
        /\ \A i \in 1 .. Len(ks) : ks[i] \in all
    BY <1>5
  <1>c. /\ Len(ns) \in Nat /\ DOMAIN ns = 1 .. Len(ns)
        /\ Len(ls) \in Nat /\ DOMAIN ls = 1 .. Len(ls)
        /\ Len(ks) \in Nat /\ DOMAIN ks = 1 .. Len(ks)
    BY <1>5
  <1> HIDE DEF ns, ls, ks
  <1> DEFINE A == {Deleted("node.deleted", n) : n \in nodes}
             B == {Deleted("link.deleted", l) : l \in explicit}
             C == {NodeCreated(n) : n \in nodes}
             D == {LinkCreated(l) : l \in all}
  <1>6. /\ NodesDeleted(ns) \in Seq(A) /\ Len(NodesDeleted(ns)) = Len(ns)
        /\ \A i \in 1 .. Len(ns) : NodesDeleted(ns)[i] = Deleted("node.deleted", ns[i])
    BY <1>b, <1>c DEF NodesDeleted
  <1>7. /\ LinksDeleted(ls) \in Seq(B) /\ Len(LinksDeleted(ls)) = Len(ls)
        /\ \A i \in 1 .. Len(ls) : LinksDeleted(ls)[i] = Deleted("link.deleted", ls[i])
    BY <1>b, <1>c DEF LinksDeleted
  <1>8. /\ NodesCreated(ns) \in Seq(C) /\ Len(NodesCreated(ns)) = Len(ns)
        /\ \A i \in 1 .. Len(ns) : NodesCreated(ns)[i] = NodeCreated(ns[i])
    BY <1>b, <1>c DEF NodesCreated
  <1>9. /\ LinksCreated(ks) \in Seq(D) /\ Len(LinksCreated(ks)) = Len(ks)
        /\ \A i \in 1 .. Len(ks) : LinksCreated(ks)[i] = LinkCreated(ks[i])
    BY <1>b, <1>c DEF LinksCreated
  <1> HIDE DEF A, B, C, D
  <1>10. Leads(M, redo, H)
    <2>1. /\ Len(redo) \in Nat
          /\ \A j \in 1 .. Len(redo) : (\E i \in 1 .. Len(NodesDeleted(ns)) : redo[j] = NodesDeleted(ns)[i])
                                        \/ (\E i \in 1 .. Len(LinksDeleted(ls)) : redo[j] = LinksDeleted(ls)[i])
          /\ \A i \in 1 .. Len(NodesDeleted(ns)) : \E j \in 1 .. Len(redo) : redo[j] = NodesDeleted(ns)[i]
          /\ \A i \in 1 .. Len(LinksDeleted(ls)) : \E j \in 1 .. Len(redo) : redo[j] = LinksDeleted(ls)[i]
      <3>1. NodesDeleted(ns) \in Seq(A) /\ LinksDeleted(ls) \in Seq(B)
        BY <1>6, <1>7
      <3>2. Joins(NodesDeleted(ns) \o LinksDeleted(ls), NodesDeleted(ns), LinksDeleted(ls))
        BY <3>1, TwoLists
      <3> QED
        BY <3>2 DEF Joins
    <2> HIDE DEF redo, M, H
    <2>2. ASSUME NEW j \in 1 .. Len(redo)
          PROVE  (\E n \in nodes : redo[j] = Deleted("node.deleted", n)) \/ (\E l \in all : redo[j] = Deleted("link.deleted", l))
      <3>1. CASE \E i \in 1 .. Len(NodesDeleted(ns)) : redo[j] = NodesDeleted(ns)[i]
        <4>1. PICK i \in 1 .. Len(ns) : redo[j] = NodesDeleted(ns)[i]
          BY <1>6, <3>1
        <4>2. redo[j] = Deleted("node.deleted", ns[i]) /\ ns[i] \in nodes
          BY <1>b, <1>6, <4>1
        <4> QED
          BY <4>2
      <3>2. CASE \E i \in 1 .. Len(LinksDeleted(ls)) : redo[j] = LinksDeleted(ls)[i]
        <4>1. PICK i \in 1 .. Len(ls) : redo[j] = LinksDeleted(ls)[i]
          BY <1>7, <3>2
        <4>2. redo[j] = Deleted("link.deleted", ls[i]) /\ ls[i] \in all
          BY <1>3, <1>b, <1>7, <4>1
        <4> QED
          BY <4>2
      <3> QED
        BY <2>1, <3>1, <3>2
    <2>3. ASSUME NEW n \in nodes
          PROVE  \E j \in 1 .. Len(redo) : redo[j] = Deleted("node.deleted", n)
      <3>1. PICK i \in 1 .. Len(ns) : ns[i] = n
        BY <1>5
      <3>2. i \in 1 .. Len(NodesDeleted(ns)) /\ NodesDeleted(ns)[i] = Deleted("node.deleted", n)
        BY <1>6, <3>1
      <3>3. PICK j \in 1 .. Len(redo) : redo[j] = NodesDeleted(ns)[i]
        BY <2>1, <3>2
      <3> QED
        BY <3>2, <3>3
    <2>4. ASSUME NEW l \in explicit
          PROVE  \E j \in 1 .. Len(redo) : redo[j] = Deleted("link.deleted", l)
      <3>1. PICK i \in 1 .. Len(ls) : ls[i] = l
        BY <1>5
      <3>2. i \in 1 .. Len(LinksDeleted(ls)) /\ LinksDeleted(ls)[i] = Deleted("link.deleted", l)
        BY <1>7, <3>1
      <3>3. PICK j \in 1 .. Len(redo) : redo[j] = LinksDeleted(ls)[i]
        BY <2>1, <3>2
      <3> QED
        BY <3>2, <3>3
    <2> QED
      BY <1>2, <1>3, <2>1, <2>2, <2>3, <2>4, DeletingLeads DEF M, H
  <1>11. Leads(M, undo, G)
    <2>1. /\ Len(undo) \in Nat
          /\ \A j \in 1 .. Len(undo) : (\E i \in 1 .. Len(NodesCreated(ns)) : undo[j] = NodesCreated(ns)[i])
                                        \/ (\E i \in 1 .. Len(LinksCreated(ks)) : undo[j] = LinksCreated(ks)[i])
          /\ \A i \in 1 .. Len(NodesCreated(ns)) : \E j \in 1 .. Len(undo) : undo[j] = NodesCreated(ns)[i]
          /\ \A i \in 1 .. Len(LinksCreated(ks)) : \E j \in 1 .. Len(undo) : undo[j] = LinksCreated(ks)[i]
      <3>1. NodesCreated(ns) \in Seq(C) /\ LinksCreated(ks) \in Seq(D)
        BY <1>8, <1>9
      <3>2. Joins(NodesCreated(ns) \o LinksCreated(ks), NodesCreated(ns), LinksCreated(ks))
        BY <3>1, TwoLists
      <3> QED
        BY <3>2 DEF Joins
    <2> HIDE DEF undo, M
    <2>2. ASSUME NEW j \in 1 .. Len(undo)
          PROVE  (\E n \in nodes : undo[j] = NodeCreated(n)) \/ (\E l \in all : undo[j] = LinkCreated(l))
      <3>1. CASE \E i \in 1 .. Len(NodesCreated(ns)) : undo[j] = NodesCreated(ns)[i]
        <4>1. PICK i \in 1 .. Len(ns) : undo[j] = NodesCreated(ns)[i]
          BY <1>8, <3>1
        <4>2. undo[j] = NodeCreated(ns[i]) /\ ns[i] \in nodes
          BY <1>b, <1>8, <4>1
        <4> QED
          BY <4>2
      <3>2. CASE \E i \in 1 .. Len(LinksCreated(ks)) : undo[j] = LinksCreated(ks)[i]
        <4>1. PICK i \in 1 .. Len(ks) : undo[j] = LinksCreated(ks)[i]
          BY <1>9, <3>2
        <4>2. undo[j] = LinkCreated(ks[i]) /\ ks[i] \in all
          BY <1>3, <1>b, <1>9, <4>1
        <4> QED
          BY <4>2
      <3> QED
        BY <2>1, <3>1, <3>2
    <2>3. ASSUME NEW n \in nodes
          PROVE  \E j \in 1 .. Len(undo) : undo[j] = NodeCreated(n)
      <3>1. PICK i \in 1 .. Len(ns) : ns[i] = n
        BY <1>5
      <3>2. i \in 1 .. Len(NodesCreated(ns)) /\ NodesCreated(ns)[i] = NodeCreated(n)
        BY <1>8, <3>1
      <3>3. PICK j \in 1 .. Len(undo) : undo[j] = NodesCreated(ns)[i]
        BY <2>1, <3>2
      <3> QED
        BY <3>2, <3>3
    <2>4. ASSUME NEW l \in all
          PROVE  \E j \in 1 .. Len(undo) : undo[j] = LinkCreated(l)
      <3>1. PICK i \in 1 .. Len(ks) : ks[i] = l
        BY <1>5
      <3>2. i \in 1 .. Len(LinksCreated(ks)) /\ LinksCreated(ks)[i] = LinkCreated(l)
        BY <1>9, <3>1
      <3>3. PICK j \in 1 .. Len(undo) : undo[j] = LinksCreated(ks)[i]
        BY <2>1, <3>2
      <3> QED
        BY <3>2, <3>3
    <2> QED
      BY <1>2, <2>1, <2>2, <2>3, <2>4, CreatingLeads DEF M
  <1>12. G \in M /\ H \in M
    <2>1. H.nodes = G.nodes \ nodes /\ H.links = G.links \ all /\ H = [nodes |-> H.nodes, links |-> H.links]
      OBVIOUS
    <2> HIDE DEF H
    <2> QED
      BY <1>1, <2>1, PartlyIs
  <1>13. Between(M, G, Item(redo, undo), H)
    <2> HIDE DEF M, H, redo, undo
    <2> QED
      BY <1>10, <1>11, <1>12 DEF Between, Item
  <1> HIDE DEF M, H
  <1> QED
    BY <1>13 DEF redo, undo, ns, ls, ks, all, implicit, explicit

-----------------------------------------------------------------------------
(* A gesture on its way                                                       *)

(* The first event, then the others. *)
LEMMA DrawFirst ==
  ASSUME NEW g, NEW E, NEW s \in Seq(E), s # <<>>
  PROVE  ApplyGraphEvents(ApplyGraphEvent(g, Head(s)), Tail(s)) = ApplyGraphEvents(g, s)
  <1> DEFINE n == Len(s)
             t == Tail(s)
             s0 == SubSeq(s, 1, 0)
             s1 == SubSeq(s, 1, 1)
  <1>1. n \in Nat /\ n > 0 /\ Len(t) = n - 1 /\ t \in Seq(E) /\ \A i \in 1 .. n - 1 : t[i] = s[1 + i]
    OBVIOUS
  <1>2. Head(s) = s[1]
    OBVIOUS
  <1>3. /\ Len(s0) = 0 /\ Len(s1) = 1 /\ s1[1] = s[1]
        /\ SubSeq(s, 1, n) = s
    BY <1>1, PrefixProperties
  <1>4. IsSeq(s) /\ IsSeq(t)
    BY <1>1, SeqIsSeq
  <1>5. PartOf(t, s, 1, n - 1)
    <2>1. n - 1 \in Nat /\ 1 + (n - 1) = n
      BY <1>1
    <2> HIDE DEF t
    <2> QED
      BY <1>1, <1>4, <2>1 DEF PartOf
  <1> HIDE DEF s0, s1, t
  <1>6. OneMore(s1, s0, 0)
    BY <1>3 DEF OneMore
  <1>7. ApplyGraphEvents(g, s1) = ApplyGraphEvent(g, s[1])
    <2>1. ApplyGraphEvents(g, s1) = ApplyGraphEvent(ApplyGraphEvents(g, s0), s1[0 + 1])
      BY <1>6, DrawNext
    <2>2. ApplyGraphEvents(g, s0) = g
      BY <1>3, DrawNothing
    <2> QED
      BY <1>3, <2>1, <2>2
  <1>8. ApplyGraphEvents(ApplyGraphEvents(g, SubSeq(s, 1, 1)), t) = ApplyGraphEvents(g, SubSeq(s, 1, 1 + (n - 1)))
    BY <1>5, DrawFurther
  <1>9. 1 + (n - 1) = n
    BY <1>1
  <1> QED
    BY <1>2, <1>3, <1>7, <1>8, <1>9 DEF s1, t

(* Among M still, what is left to do leads from graph to H. *)
Goes(M, todo, graph, H) ==
  /\ graph \in M /\ ApplyGraphEvents(graph, todo) = H
  /\ \A g \in M, j \in 1 .. Len(todo) : ApplyGraphEvent(g, todo[j]) \in M

(* A gesture that begins. *)
LEMMA GoesBegins ==
  ASSUME NEW M, NEW es, NEW H, Leads(M, es, H), NEW graph \in M
  PROVE  Goes(M, es, graph, H)
  BY DEF Goes, Leads

(* Whether the command is carried out or not, the graph stays among M. *)
LEMMA GoesFurther ==
  ASSUME NEW M, NEW E, NEW todo \in Seq(E), todo # <<>>, NEW graph, NEW H, Goes(M, todo, graph, H)
  PROVE  /\ Goes(M, Tail(todo), ApplyGraphEvent(graph, Head(todo)), H)
         /\ graph \in M /\ ApplyGraphEvent(graph, Head(todo)) \in M
  <1>1. /\ Len(todo) \in Nat /\ Len(todo) > 0 /\ Head(todo) = todo[1]
        /\ Len(Tail(todo)) = Len(todo) - 1
        /\ \A j \in 1 .. Len(todo) - 1 : Tail(todo)[j] = todo[j + 1]
    OBVIOUS
  <1>2. ApplyGraphEvents(ApplyGraphEvent(graph, Head(todo)), Tail(todo)) = ApplyGraphEvents(graph, todo)
    BY DrawFirst
  <1>3. 1 \in 1 .. Len(todo) /\ \A j \in 1 .. Len(todo) - 1 : j + 1 \in 1 .. Len(todo)
    BY <1>1
  <1> QED
    BY <1>1, <1>2, <1>3 DEF Goes

(* A gesture with nothing left to do has led where it was to lead. *)
LEMMA GoesEnds ==
  ASSUME NEW M, NEW todo, Len(todo) = 0, NEW graph, NEW H, Goes(M, todo, graph, H)
  PROVE  graph = H
  BY DrawNothing DEF Goes

-----------------------------------------------------------------------------
(* The stacks                                                                 *)

(* From low, the items of the stack, the bottom one first, lead to top.       *)
UndoPath(stack, gs) ==
  \A i \in 1 .. Len(stack) : \E M : Between(M, gs[i - 1], stack[i], gs[i])

UndoChain(low, stack, top) ==
  \E gs : gs[0] = low /\ gs[Len(stack)] = top /\ UndoPath(stack, gs)

(* From graph, they lead on, the top one first.                               *)
RedoPath(stack, gs) ==
  \A i \in 1 .. Len(stack) : \E M : Between(M, gs[i], stack[i], gs[i - 1])

RedoChain(graph, stack) ==
  \E gs : gs[Len(stack)] = graph /\ RedoPath(stack, gs)

(* Empty stacks. *)
LEMMA EmptyChains ==
  ASSUME NEW graph
  PROVE  UndoChain(graph, <<>>, graph) /\ RedoChain(graph, <<>>)
  <1>1. Len(<<>>) = 0
    OBVIOUS
  <1> DEFINE gs == [i \in 0 .. 0 |-> graph]
  <1>2. gs[0] = graph
    OBVIOUS
  <1>3. \A i \in 1 .. Len(<<>>) : FALSE
    BY <1>1
  <1> HIDE DEF gs
  <1> QED
    BY <1>1, <1>2, <1>3 DEF UndoChain, RedoChain, UndoPath, RedoPath

(* A stack with one item more. *)
LEMMA AppendedStack ==
  ASSUME NEW I, NEW stack \in Seq(I), NEW item
  PROVE  /\ Len(stack) \in Nat /\ Len(Append(stack, item)) = Len(stack) + 1
         /\ Append(stack, item)[Len(stack) + 1] = item
         /\ \A i \in 1 .. Len(stack) : Append(stack, item)[i] = stack[i]
  OBVIOUS

(* A stack with one item less. *)
LEMMA PoppedStack ==
  ASSUME NEW I, NEW stack \in Seq(I), stack # <<>>
  PROVE  /\ Len(stack) \in Nat /\ Len(stack) > 0 /\ Len(Popped(stack)) = Len(stack) - 1
         /\ Popped(stack) \in Seq(I) /\ Top(stack) \in I
         /\ \A i \in 1 .. Len(stack) - 1 : Popped(stack)[i] = stack[i]
  <1>1. Len(stack) \in Nat /\ Len(stack) > 0
    OBVIOUS
  <1>2. Len(stack) - 1 \in 0 .. Len(stack) /\ Len(stack) \in 1 .. Len(stack)
    BY <1>1
  <1>3. /\ Len(SubSeq(stack, 1, Len(stack) - 1)) = Len(stack) - 1
        /\ \A i \in 1 .. Len(stack) - 1 : SubSeq(stack, 1, Len(stack) - 1)[i] = stack[i]
    BY <1>2, PrefixProperties
  <1>4. SubSeq(stack, 1, Len(stack) - 1) \in Seq(I)
    BY <1>2
  <1> QED
    BY <1>1, <1>2, <1>3, <1>4 DEF Popped, Top

(* An item on top of what can be undone. *)
LEMMA UndoPush ==
  ASSUME NEW I, NEW stack \in Seq(I), NEW item, NEW low, NEW g, NEW M, NEW h,
         UndoChain(low, stack, g), Between(M, g, item, h)
  PROVE  UndoChain(low, Append(stack, item), h)
  <1> DEFINE n == Len(stack)
             more == Append(stack, item)
  <1>1. n \in Nat /\ Len(more) = n + 1 /\ more[n + 1] = item /\ \A i \in 1 .. n : more[i] = stack[i]
    BY AppendedStack
  <1>2. PICK gs : gs[0] = low /\ gs[n] = g /\ UndoPath(stack, gs)
    BY DEF UndoChain
  <1> HIDE DEF more
  <1> DEFINE hs == [i \in 0 .. n + 1 |-> IF i = n + 1 THEN h ELSE gs[i]]
  <1>3. hs[n + 1] = h /\ \A i \in 0 .. n : hs[i] = gs[i]
    BY <1>1
  <1> HIDE DEF hs
  <1>4. ASSUME NEW i \in 1 .. Len(more) PROVE \E K : Between(K, hs[i - 1], more[i], hs[i])
    <2>1. CASE i = n + 1
      <3>1. i - 1 = n /\ n \in 0 .. n
        BY <1>1, <2>1
      <3>2. hs[i - 1] = g /\ more[i] = item /\ hs[i] = h
        BY <1>1, <1>2, <1>3, <2>1, <3>1
      <3> QED
        BY <3>2
    <2>2. CASE i # n + 1
      <3>1. i \in 1 .. n /\ i - 1 \in 0 .. n /\ i \in 0 .. n
        BY <1>1, <2>2
      <3>2. \E K : Between(K, gs[i - 1], stack[i], gs[i])
        BY <1>2, <3>1 DEF UndoPath
      <3>3. hs[i - 1] = gs[i - 1] /\ hs[i] = gs[i] /\ more[i] = stack[i]
        BY <1>1, <1>3, <3>1
      <3> QED
        BY <3>2, <3>3
    <2> QED
      BY <2>1, <2>2
  <1>5. UndoPath(more, hs)
    BY <1>4 DEF UndoPath
  <1>6. hs[0] = low /\ hs[Len(more)] = h
    BY <1>1, <1>2, <1>3
  <1>7. UndoChain(low, more, h)
    BY <1>5, <1>6 DEF UndoChain
  <1> QED
    BY <1>7 DEF more

(* The top of what can be undone leads back to where the rest leads. *)
LEMMA UndoPop ==
  ASSUME NEW I, NEW stack \in Seq(I), stack # <<>>, NEW low, NEW h, UndoChain(low, stack, h)
  PROVE  \E M, g : Between(M, g, Top(stack), h) /\ UndoChain(low, Popped(stack), g)
  <1> DEFINE n == Len(stack)
             less == Popped(stack)
  <1>1. n \in Nat /\ n > 0 /\ Len(less) = n - 1 /\ \A i \in 1 .. n - 1 : less[i] = stack[i]
    BY PoppedStack
  <1>2. PICK gs : gs[0] = low /\ gs[n] = h /\ UndoPath(stack, gs)
    BY DEF UndoChain
  <1> HIDE DEF less
  <1>3. n \in 1 .. n /\ \A i \in 1 .. n - 1 : i \in 1 .. n
    BY <1>1
  <1>4. PICK M : Between(M, gs[n - 1], stack[n], gs[n])
    BY <1>2, <1>3 DEF UndoPath
  <1>5. UndoPath(less, gs)
    BY <1>1, <1>2, <1>3 DEF UndoPath
  <1>6. UndoChain(low, less, gs[n - 1])
    BY <1>1, <1>2, <1>5 DEF UndoChain
  <1>7. Between(M, gs[n - 1], Top(stack), h)
    BY <1>2, <1>4 DEF Top
  <1> QED
    BY <1>6, <1>7 DEF less

(* An item on top of what can be done again. *)
LEMMA RedoPush ==
  ASSUME NEW I, NEW stack \in Seq(I), NEW item, NEW g, NEW M, NEW h,
         RedoChain(h, stack), Between(M, g, item, h)
  PROVE  RedoChain(g, Append(stack, item))
  <1> DEFINE n == Len(stack)
             more == Append(stack, item)
  <1>1. n \in Nat /\ Len(more) = n + 1 /\ more[n + 1] = item /\ \A i \in 1 .. n : more[i] = stack[i]
    BY AppendedStack
  <1>2. PICK gs : gs[n] = h /\ RedoPath(stack, gs)
    BY DEF RedoChain
  <1> HIDE DEF more
  <1> DEFINE hs == [i \in 0 .. n + 1 |-> IF i = n + 1 THEN g ELSE gs[i]]
  <1>3. hs[n + 1] = g /\ \A i \in 0 .. n : hs[i] = gs[i]
    BY <1>1
  <1> HIDE DEF hs
  <1>4. ASSUME NEW i \in 1 .. Len(more) PROVE \E K : Between(K, hs[i], more[i], hs[i - 1])
    <2>1. CASE i = n + 1
      <3>1. i - 1 = n /\ n \in 0 .. n
        BY <1>1, <2>1
      <3>2. hs[i - 1] = h /\ more[i] = item /\ hs[i] = g
        BY <1>1, <1>2, <1>3, <2>1, <3>1
      <3> QED
        BY <3>2
    <2>2. CASE i # n + 1
      <3>1. i \in 1 .. n /\ i - 1 \in 0 .. n /\ i \in 0 .. n
        BY <1>1, <2>2
      <3>2. \E K : Between(K, gs[i], stack[i], gs[i - 1])
        BY <1>2, <3>1 DEF RedoPath
      <3>3. hs[i - 1] = gs[i - 1] /\ hs[i] = gs[i] /\ more[i] = stack[i]
        BY <1>1, <1>3, <3>1
      <3> QED
        BY <3>2, <3>3
    <2> QED
      BY <2>1, <2>2
  <1>5. RedoPath(more, hs)
    BY <1>4 DEF RedoPath
  <1>6. hs[Len(more)] = g
    BY <1>1, <1>3
  <1>7. RedoChain(g, more)
    BY <1>5, <1>6 DEF RedoChain
  <1> QED
    BY <1>7 DEF more

(* The top of what can be done again leads to where the rest goes on. *)
LEMMA RedoPop ==
  ASSUME NEW I, NEW stack \in Seq(I), stack # <<>>, NEW g, RedoChain(g, stack)
  PROVE  \E M, h : Between(M, g, Top(stack), h) /\ RedoChain(h, Popped(stack))
  <1> DEFINE n == Len(stack)
             less == Popped(stack)
  <1>1. n \in Nat /\ n > 0 /\ Len(less) = n - 1 /\ \A i \in 1 .. n - 1 : less[i] = stack[i]
    BY PoppedStack
  <1>2. PICK gs : gs[n] = g /\ RedoPath(stack, gs)
    BY DEF RedoChain
  <1> HIDE DEF less
  <1>3. n \in 1 .. n /\ \A i \in 1 .. n - 1 : i \in 1 .. n
    BY <1>1
  <1>4. PICK M : Between(M, gs[n], stack[n], gs[n - 1])
    BY <1>2, <1>3 DEF RedoPath
  <1>5. RedoPath(less, gs)
    BY <1>1, <1>2, <1>3 DEF RedoPath
  <1>6. RedoChain(gs[n - 1], less)
    BY <1>1, <1>5 DEF RedoChain
  <1>7. Between(M, g, Top(stack), gs[n - 1])
    BY <1>2, <1>4 DEF Top
  <1> QED
    BY <1>6, <1>7 DEF less

(* What the recursions of Undone and Redone make of f: ess are the lists of   *)
(* events they go through.                                                    *)
WalkBody(f, g, ess, n) ==
  [i \in 0 .. n |-> IF i = 0 THEN g ELSE ApplyGraphEvents(f[i - 1], ess[i])]

(* Each list leads to the next graph. *)
Walks(gs, ess, n) == n \in Nat /\ \A i \in 1 .. n : ApplyGraphEvents(gs[i - 1], ess[i]) = gs[i]

(* There is a function that goes from graph to graph with the lists of events. *)
LEMMA WalkExists ==
  ASSUME NEW n, NEW ess, NEW gs, Walks(gs, ess, n)
  PROVE  \E f : f = WalkBody(f, gs[0], ess, n)
  <1>0. n \in Nat /\ \A i \in 1 .. n : ApplyGraphEvents(gs[i - 1], ess[i]) = gs[i]
    BY DEF Walks
  <1> DEFINE f == [i \in 0 .. n |-> gs[i]]
  <1>1. f = [i \in 0 .. n |-> f[i]] /\ \A i \in 0 .. n : f[i] = gs[i]
    OBVIOUS
  <1> HIDE DEF f
  <1>2. ASSUME NEW i \in 0 .. n
        PROVE  f[i] = IF i = 0 THEN gs[0] ELSE ApplyGraphEvents(f[i - 1], ess[i])
    <2>1. i # 0 => i \in 1 .. n /\ i - 1 \in 0 .. n
      BY <1>0
    <2> QED
      BY <1>0, <1>1, <2>1
  <1>3. f = WalkBody(f, gs[0], ess, n)
    BY <1>1, <1>2, Zenon DEF WalkBody
  <1> QED
    BY <1>3

(* And every such function goes where the lists lead. *)
LEMMA WalkIs ==
  ASSUME NEW n, NEW ess, NEW gs, Walks(gs, ess, n)
  PROVE  \A f : f = WalkBody(f, gs[0], ess, n) => f[n] = gs[n]
  <1> SUFFICES ASSUME NEW f, f = WalkBody(f, gs[0], ess, n) PROVE f[n] = gs[n]
    OBVIOUS
  <1>0. n \in Nat /\ \A i \in 1 .. n : ApplyGraphEvents(gs[i - 1], ess[i]) = gs[i]
    BY DEF Walks
  <1> DEFINE S == {i \in Nat : i <= n => f[i] = gs[i]}
  <1>1. 0 \in S
    <2>1. 0 \in 0 .. n
      BY <1>0
    <2>2. f[0] = gs[0]
      BY <2>1, Zenon DEF WalkBody
    <2> QED
      BY <2>2
  <1>2. ASSUME NEW i \in Nat, i \in S PROVE i + 1 \in S
    <2> SUFFICES ASSUME i + 1 <= n PROVE f[i + 1] = gs[i + 1]
      OBVIOUS
    <2>1. i + 1 \in 0 .. n /\ i + 1 \in 1 .. n /\ i + 1 # 0 /\ (i + 1) - 1 = i /\ f[i] = gs[i]
      BY <1>0, <1>2
    <2>2. f[i + 1] = ApplyGraphEvents(f[(i + 1) - 1], ess[i + 1])
      BY <2>1, Zenon DEF WalkBody
    <2>3. ApplyGraphEvents(gs[(i + 1) - 1], ess[i + 1]) = gs[i + 1]
      BY <1>0, <2>1
    <2> QED
      BY <2>1, <2>2, <2>3
  <1> HIDE DEF S
  <1>3. n \in S
    BY <1>0, <1>1, <1>2, NatInduct
  <1> QED
    BY <1>0, <1>3 DEF S

(* Undone leads a chain down to its bottom. *)
LEMMA UndoneIs ==
  ASSUME NEW low, NEW stack, Len(stack) \in Nat, NEW top, UndoChain(low, stack, top)
  PROVE  Undone(top, stack) = low
  <1> DEFINE n == Len(stack)
             ess == [i \in 1 .. n |-> stack[n + 1 - i].undo]
  <1>1. PICK gs : gs[0] = low /\ gs[n] = top /\ UndoPath(stack, gs)
    BY DEF UndoChain
  <1> DEFINE hs == [i \in 0 .. n |-> gs[n - i]]
  <1>2. hs[0] = top /\ hs[n] = low
    BY <1>1
  <1>3. ASSUME NEW i \in 1 .. n PROVE ApplyGraphEvents(hs[i - 1], ess[i]) = hs[i]
    <2> DEFINE k == n + 1 - i
    <2>1. k \in 1 .. n /\ n - (i - 1) = k /\ n - i = k - 1 /\ i - 1 \in 0 .. n /\ i \in 0 .. n
      OBVIOUS
    <2>2. hs[i - 1] = gs[k] /\ hs[i] = gs[k - 1] /\ ess[i] = stack[k].undo
      BY <2>1
    <2> HIDE DEF k, hs, ess
    <2>3. PICK M : Between(M, gs[k - 1], stack[k], gs[k])
      BY <1>1, <2>1 DEF UndoPath
    <2>4. ApplyGraphEvents(gs[k], stack[k].undo) = gs[k - 1]
      BY <2>3 DEF Between, Leads
    <2> QED
      BY <2>2, <2>4
  <1> DEFINE Body(f) == [i \in 0 .. Len(stack) |->
                           IF i = 0 THEN top ELSE ApplyGraphEvents(f[i - 1], stack[Len(stack) + 1 - i].undo)]
             after == CHOOSE f : f = Body(f)
  <1>4. Undone(top, stack) = after[Len(stack)]
    BY DEF Undone
  <1>5. ASSUME NEW f PROVE Body(f) = WalkBody(f, top, ess, n)
    BY DEF WalkBody
  <1> HIDE DEF hs, ess, Body
  <1>a. Walks(hs, ess, n)
    BY <1>3 DEF Walks
  <1>6. \E f : f = WalkBody(f, hs[0], ess, n)
    BY <1>a, WalkExists
  <1>7. after = Body(after)
    <2>1. \E f : f = Body(f)
      BY <1>2, <1>5, <1>6
    <2> QED
      BY <2>1, Zenon
  <1> HIDE DEF after
  <1>8. after = WalkBody(after, hs[0], ess, n)
    BY <1>2, <1>5, <1>7
  <1>9. after[n] = hs[n]
    BY <1>8, <1>a, WalkIs
  <1> QED
    BY <1>2, <1>4, <1>9

(* Redone leads along the other. *)
LEMMA RedoneIs ==
  ASSUME NEW graph, NEW stack, Len(stack) \in Nat, NEW gs, gs[Len(stack)] = graph, RedoPath(stack, gs)
  PROVE  Redone(graph, stack) = gs[0]
  <1> DEFINE n == Len(stack)
             ess == [i \in 1 .. n |-> stack[n + 1 - i].redo]
             hs == [i \in 0 .. n |-> gs[n - i]]
  <1>2. hs[0] = graph /\ hs[n] = gs[0]
    OBVIOUS
  <1>3. ASSUME NEW i \in 1 .. n PROVE ApplyGraphEvents(hs[i - 1], ess[i]) = hs[i]
    <2> DEFINE k == n + 1 - i
    <2>1. k \in 1 .. n /\ n - (i - 1) = k /\ n - i = k - 1 /\ i - 1 \in 0 .. n /\ i \in 0 .. n
      OBVIOUS
    <2>2. hs[i - 1] = gs[k] /\ hs[i] = gs[k - 1] /\ ess[i] = stack[k].redo
      BY <2>1
    <2> HIDE DEF k, hs, ess
    <2>3. PICK M : Between(M, gs[k], stack[k], gs[k - 1])
      BY <2>1 DEF RedoPath
    <2>4. ApplyGraphEvents(gs[k], stack[k].redo) = gs[k - 1]
      BY <2>3 DEF Between, Leads
    <2> QED
      BY <2>2, <2>4
  <1> DEFINE Body(f) == [i \in 0 .. Len(stack) |->
                           IF i = 0 THEN graph ELSE ApplyGraphEvents(f[i - 1], stack[Len(stack) + 1 - i].redo)]
             after == CHOOSE f : f = Body(f)
  <1>4. Redone(graph, stack) = after[Len(stack)]
    BY DEF Redone
  <1>5. ASSUME NEW f PROVE Body(f) = WalkBody(f, graph, ess, n)
    BY DEF WalkBody
  <1> HIDE DEF hs, ess, Body
  <1>a. Walks(hs, ess, n)
    BY <1>3 DEF Walks
  <1>6. \E f : f = WalkBody(f, hs[0], ess, n)
    BY <1>a, WalkExists
  <1>7. after = Body(after)
    <2>1. \E f : f = Body(f)
      BY <1>2, <1>5, <1>6
    <2> QED
      BY <2>1, Zenon
  <1> HIDE DEF after
  <1>8. after = WalkBody(after, hs[0], ess, n)
    BY <1>2, <1>5, <1>7
  <1>9. after[n] = hs[n]
    BY <1>8, <1>a, WalkIs
  <1> QED
    BY <1>2, <1>4, <1>9

(* Redone, the stack turned round is what there is to be undone. *)
LEMMA ThereAndBack ==
  ASSUME NEW graph, NEW stack, Len(stack) \in Nat, RedoChain(graph, stack)
  PROVE  Undone(Redone(graph, stack), Turned(stack)) = graph
  <1> DEFINE n == Len(stack)
             turned == Turned(stack)
  <1>1. PICK gs : gs[n] = graph /\ RedoPath(stack, gs)
    BY DEF RedoChain
  <1>2. Redone(graph, stack) = gs[0]
    BY <1>1, RedoneIs
  <1> DEFINE hs == [i \in 0 .. n |-> gs[n - i]]
  <1>3. turned = [i \in 1 .. n |-> stack[n + 1 - i]]
    BY DEF Turned
  <1>4. Len(turned) = n
    <2>1. turned = [i \in 1 .. n |-> turned[i]]
      BY <1>3
    <2> HIDE DEF turned
    <2> QED
      BY <2>1, TupleIsSeq
  <1> HIDE DEF turned
  <1>5. hs[0] = graph /\ hs[n] = gs[0]
    BY <1>1
  <1>6. ASSUME NEW i \in 1 .. n PROVE \E M : Between(M, hs[i - 1], turned[i], hs[i])
    <2> DEFINE k == n + 1 - i
    <2>1. k \in 1 .. n /\ n - (i - 1) = k /\ n - i = k - 1 /\ i - 1 \in 0 .. n /\ i \in 0 .. n
      OBVIOUS
    <2>2. hs[i - 1] = gs[k] /\ hs[i] = gs[k - 1] /\ turned[i] = stack[k]
      BY <1>3, <2>1
    <2> HIDE DEF k, hs
    <2>3. \E M : Between(M, gs[k], stack[k], gs[k - 1])
      BY <1>1, <2>1 DEF RedoPath
    <2> QED
      BY <2>2, <2>3
  <1> HIDE DEF hs
  <1>7. UndoPath(turned, hs)
    BY <1>4, <1>6 DEF UndoPath
  <1>8. UndoChain(graph, turned, gs[0])
    BY <1>4, <1>5, <1>7 DEF UndoChain
  <1>9. Len(turned) \in Nat
    BY <1>4
  <1>10. Undone(gs[0], turned) = graph
    BY <1>8, <1>9, UndoneIs
  <1> QED
    BY <1>2, <1>10 DEF turned

-----------------------------------------------------------------------------
(* The events of a gesture are made of what is known *)

(* Each kind of event is of what is known. *)
LEMMA EventTyped ==
  ASSUME NEW m
  PROVE  /\ \A n \in NodeUpTo(m) : NodeCreated(n) \in EventUpTo(m) /\ Deleted("node.deleted", n) \in EventUpTo(m)
         /\ \A n \in NodeUpTo(m), label \in AnyLabel : Relabelled(n, label) \in EventUpTo(m)
         /\ \A l \in LinkUpTo(m) : LinkCreated(l) \in EventUpTo(m) /\ Deleted("link.deleted", l) \in EventUpTo(m)
  <1>1. ASSUME NEW n \in NodeUpTo(m) PROVE n.id \in KnownId(m) /\ n.label \in AnyLabel
    BY DEF NodeUpTo
  <1>2. ASSUME NEW l \in LinkUpTo(m) PROVE l.id \in KnownId(m)
    BY DEF LinkUpTo
  <1>3. ASSUME NEW id \in KnownId(m), NEW label \in AnyLabel
        PROVE  /\ [type |-> "node.created", id |-> id, label |-> label] \in EventUpTo(m)
               /\ [type |-> "node.label.updated", id |-> id, label |-> label] \in EventUpTo(m)
    BY DEF EventUpTo
  <1>4. ASSUME NEW id \in KnownId(m)
        PROVE  /\ [type |-> "node.deleted", id |-> id] \in EventUpTo(m)
               /\ [type |-> "link.deleted", id |-> id] \in EventUpTo(m)
    BY DEF EventUpTo
  <1>5. ASSUME NEW l \in LinkUpTo(m) PROVE [type |-> "link.created", link |-> l] \in EventUpTo(m)
    BY DEF EventUpTo
  <1>6. \A n \in NodeUpTo(m) : NodeCreated(n) \in EventUpTo(m) /\ Deleted("node.deleted", n) \in EventUpTo(m)
    BY <1>1, <1>3, <1>4 DEF NodeCreated, Deleted
  <1>7. \A n \in NodeUpTo(m), label \in AnyLabel : Relabelled(n, label) \in EventUpTo(m)
    BY <1>1, <1>3 DEF Relabelled
  <1>8. \A l \in LinkUpTo(m) : LinkCreated(l) \in EventUpTo(m) /\ Deleted("link.deleted", l) \in EventUpTo(m)
    BY <1>2, <1>4, <1>5 DEF LinkCreated, Deleted
  <1> QED
    BY <1>6, <1>7, <1>8

(* So are lists of them. *)
LEMMA EventsTyped ==
  ASSUME NEW m
  PROVE  /\ \A ns \in Seq(NodeUpTo(m)) : NodesCreated(ns) \in Seq(EventUpTo(m)) /\ NodesDeleted(ns) \in Seq(EventUpTo(m))
         /\ \A ls \in Seq(LinkUpTo(m)) : LinksCreated(ls) \in Seq(EventUpTo(m)) /\ LinksDeleted(ls) \in Seq(EventUpTo(m))
  <1>1. ASSUME NEW ns \in Seq(NodeUpTo(m))
        PROVE  NodesCreated(ns) \in Seq(EventUpTo(m)) /\ NodesDeleted(ns) \in Seq(EventUpTo(m))
    <2>1. \A i \in 1 .. Len(ns) : NodeCreated(ns[i]) \in EventUpTo(m) /\ Deleted("node.deleted", ns[i]) \in EventUpTo(m)
      <3>1. \A i \in 1 .. Len(ns) : ns[i] \in NodeUpTo(m)
        OBVIOUS
      <3> QED
        BY <3>1, EventTyped
    <2>2. Len(ns) \in Nat /\ DOMAIN ns = 1 .. Len(ns)
      OBVIOUS
    <2> QED
      BY <2>1, <2>2 DEF NodesCreated, NodesDeleted
  <1>2. ASSUME NEW ls \in Seq(LinkUpTo(m))
        PROVE  LinksCreated(ls) \in Seq(EventUpTo(m)) /\ LinksDeleted(ls) \in Seq(EventUpTo(m))
    <2>1. \A i \in 1 .. Len(ls) : LinkCreated(ls[i]) \in EventUpTo(m) /\ Deleted("link.deleted", ls[i]) \in EventUpTo(m)
      <3>1. \A i \in 1 .. Len(ls) : ls[i] \in LinkUpTo(m)
        OBVIOUS
      <3> QED
        BY <3>1, EventTyped
    <2>2. Len(ls) \in Nat /\ DOMAIN ls = 1 .. Len(ls)
      OBVIOUS
    <2> QED
      BY <2>1, <2>2 DEF LinksCreated, LinksDeleted
  <1> QED
    BY <1>1, <1>2

(* What is recorded for a gesture: made of what is known by then, and there   *)
(* and back, if the explorer draws the graph as it is.                        *)
Recordable(m, g, item) ==
  item \in ItemUpTo(m + 1) /\ \E M, H : Between(M, g, item, H)

(* And items. *)
LEMMA ItemTyped ==
  ASSUME NEW m, NEW redo \in Seq(EventUpTo(m)), NEW undo \in Seq(EventUpTo(m))
  PROVE  Item(redo, undo) \in ItemUpTo(m)
  BY DEF Item, ItemUpTo

(* addNode records an item that leads there and back. *)
LEMMA AddRecordable ==
  ASSUME NEW m \in Nat, m < MaxGestures, NEW g \in GraphUpTo(m), NEW label \in AnyLabel
  PROVE  LET n == [id |-> <<m + 1>>, label |-> label]
         IN  Recordable(m, g, Item(<<NodeCreated(n)>>, <<Deleted("node.deleted", n)>>))
  <1> DEFINE n == [id |-> <<m + 1>>, label |-> label]
  <1>1. <<m + 1>> \in KnownId(m + 1)
    BY FreshIsNew
  <1>2. n \in NodeUpTo(m + 1)
    BY <1>1 DEF NodeUpTo
  <1>3. \E M, H : Between(M, g, Item(<<NodeCreated(n)>>, <<Deleted("node.deleted", n)>>), H)
    BY NodeAdded
  <1> HIDE DEF n
  <1>4. NodeCreated(n) \in EventUpTo(m + 1) /\ Deleted("node.deleted", n) \in EventUpTo(m + 1)
    BY <1>2, EventTyped
  <1>5. <<NodeCreated(n)>> \in Seq(EventUpTo(m + 1)) /\ <<Deleted("node.deleted", n)>> \in Seq(EventUpTo(m + 1))
    BY <1>4
  <1>6. Item(<<NodeCreated(n)>>, <<Deleted("node.deleted", n)>>) \in ItemUpTo(m + 1)
    BY <1>5, ItemTyped
  <1> QED
    BY <1>3, <1>6 DEF Recordable, n

(* So does createLinkFromDraft. *)
LEMMA LinkRecordable ==
  ASSUME NEW m \in Nat, m < MaxGestures, NEW g \in GraphUpTo(m), NEW source \in KnownId(m), NEW target \in KnownId(m)
  PROVE  LET l == [id |-> <<m + 1>>, source |-> source, target |-> target]
         IN  Recordable(m, g, Item(<<LinkCreated(l)>>, <<Deleted("link.deleted", l)>>))
  <1> DEFINE l == [id |-> <<m + 1>>, source |-> source, target |-> target]
  <1>1. <<m + 1>> \in KnownId(m + 1) /\ source \in KnownId(m + 1) /\ target \in KnownId(m + 1)
    BY FreshIsNew, KnownGrows
  <1>2. l \in LinkUpTo(m + 1) /\ l.id = <<m + 1>>
    BY <1>1 DEF LinkUpTo
  <1> HIDE DEF l
  <1>3. \E M, H : Between(M, g, Item(<<LinkCreated(l)>>, <<Deleted("link.deleted", l)>>), H)
    BY <1>2, LinkAdded
  <1>4. LinkCreated(l) \in EventUpTo(m + 1) /\ Deleted("link.deleted", l) \in EventUpTo(m + 1)
    BY <1>2, EventTyped
  <1>5. <<LinkCreated(l)>> \in Seq(EventUpTo(m + 1)) /\ <<Deleted("link.deleted", l)>> \in Seq(EventUpTo(m + 1))
    BY <1>4
  <1>6. Item(<<LinkCreated(l)>>, <<Deleted("link.deleted", l)>>) \in ItemUpTo(m + 1)
    BY <1>5, ItemTyped
  <1> QED
    BY <1>3, <1>6 DEF Recordable, l

(* So does recordRename. *)
LEMMA RenameRecordable ==
  ASSUME NEW m \in Nat, NEW g \in GraphUpTo(m), NEW n \in g.nodes, NEW label \in AnyLabel
  PROVE  Recordable(m, g, Item(<<Relabelled(n, label)>>, <<Relabelled(n, n.label)>>))
  <1>1. n \in NodeUpTo(m)
    BY GraphIs
  <1>2. n \in NodeUpTo(m + 1)
    BY <1>1, KnownGrows
  <1>3. n.label \in AnyLabel
    BY <1>1 DEF NodeUpTo
  <1>4. Relabelled(n, label) \in EventUpTo(m + 1) /\ Relabelled(n, n.label) \in EventUpTo(m + 1)
    BY <1>2, <1>3, EventTyped
  <1>5. <<Relabelled(n, label)>> \in Seq(EventUpTo(m + 1)) /\ <<Relabelled(n, n.label)>> \in Seq(EventUpTo(m + 1))
    BY <1>4
  <1>6. Item(<<Relabelled(n, label)>>, <<Relabelled(n, n.label)>>) \in ItemUpTo(m + 1)
    BY <1>5, ItemTyped
  <1>7. \E M, H : Between(M, g, Item(<<Relabelled(n, label)>>, <<Relabelled(n, n.label)>>), H)
    BY NodeRenamed
  <1> QED
    BY <1>6, <1>7 DEF Recordable

(* So does recordMultiDelete. *)
LEMMA DeleteRecordable ==
  ASSUME NEW m \in Nat, NEW g \in GraphUpTo(m), NEW nodes \in SUBSET g.nodes, NEW links \in SUBSET g.links
  PROVE  LET implicit == {l \in g.links : IsIncident(l, nodes)}
             explicit == ExplicitLinks(nodes, links)
             ns       == InOrder(nodes)
         IN  Recordable(m, g,
               Item(NodesDeleted(ns) \o LinksDeleted(InOrder(explicit)),
                    NodesCreated(ns) \o LinksCreated(InOrder(implicit \cup explicit))))
  <1> DEFINE implicit == {l \in g.links : IsIncident(l, nodes)}
             explicit == ExplicitLinks(nodes, links)
             all == implicit \cup explicit
             ns == InOrder(nodes)
             ls == InOrder(explicit)
             ks == InOrder(all)
             redo == NodesDeleted(ns) \o LinksDeleted(ls)
             undo == NodesCreated(ns) \o LinksCreated(ks)
             m1 == m + 1
  <1>1. /\ g.nodes \in SUBSET NodeUpTo(m) /\ g.links \in SUBSET LinkUpTo(m)
        /\ IsFiniteSet(g.nodes) /\ IsFiniteSet(g.links)
    BY GraphIs DEF IsKeyed
  <1>2. NodeUpTo(m) \subseteq NodeUpTo(m1) /\ LinkUpTo(m) \subseteq LinkUpTo(m1)
    BY KnownGrows
  <1>3. \E M, H : Between(M, g, Item(redo, undo), H)
    BY ManyDeleted
  <1> HIDE DEF m1
  <1>4. explicit \in SUBSET g.links /\ implicit \in SUBSET g.links
    BY DEF ExplicitLinks
  <1> HIDE DEF implicit, explicit
  <1>5. all \in SUBSET g.links
    BY <1>4
  <1>6. IsFiniteSet(nodes) /\ IsFiniteSet(explicit) /\ IsFiniteSet(all)
    BY <1>1, <1>4, <1>5, FS_Subset
  <1> HIDE DEF all
  <1>7. ns \in Seq(nodes) /\ ls \in Seq(explicit) /\ ks \in Seq(all)
    BY <1>6, InOrderCovers
  <1> HIDE DEF ns, ls, ks
  <1>8. nodes \subseteq NodeUpTo(m1) /\ explicit \subseteq LinkUpTo(m1) /\ all \subseteq LinkUpTo(m1)
    BY <1>1, <1>2, <1>4, <1>5
  <1>9. ns \in Seq(NodeUpTo(m1)) /\ ls \in Seq(LinkUpTo(m1)) /\ ks \in Seq(LinkUpTo(m1))
    BY <1>7, <1>8
  <1>10. /\ NodesDeleted(ns) \in Seq(EventUpTo(m1)) /\ NodesCreated(ns) \in Seq(EventUpTo(m1))
         /\ LinksDeleted(ls) \in Seq(EventUpTo(m1)) /\ LinksCreated(ks) \in Seq(EventUpTo(m1))
    BY <1>9, EventsTyped
  <1>11. redo \in Seq(EventUpTo(m1)) /\ undo \in Seq(EventUpTo(m1))
    BY <1>10
  <1> HIDE DEF redo, undo
  <1>12. Item(redo, undo) \in ItemUpTo(m1)
    BY <1>11, ItemTyped
  <1> QED
    BY <1>3, <1>12 DEF Recordable, m1, redo, undo, ns, ls, ks, all, implicit, explicit

-----------------------------------------------------------------------------
(* What an import sends                                                       *)

(* What the recursion of Missing makes of f.                                  *)
MissBody(f, xs, ids, n) ==
  [i \in 0 .. n |-> IF i = 0 THEN <<>>
                    ELSE IF xs[i].id \in ids THEN f[i - 1] ELSE Append(f[i - 1], xs[i])]

(* The recursive function of Missing exists. *)
LEMMA MissDefined ==
  ASSUME NEW xs, NEW ids
  PROVE  \A n \in Nat : \E f : f = MissBody(f, xs, ids, n)
  <1> DEFINE S == {n \in Nat : \E f : f = MissBody(f, xs, ids, n)}
             Next1(s, x) == IF x.id \in ids THEN s ELSE Append(s, x)
  <1>1. 0 \in S
    <2>1. [i \in 0 .. 0 |-> <<>>] = MissBody([i \in 0 .. 0 |-> <<>>], xs, ids, 0)
      BY DEF MissBody
    <2> QED
      BY <2>1
  <1>2. ASSUME NEW n \in Nat, n \in S PROVE n + 1 \in S
    <2>1. PICK f : f = MissBody(f, xs, ids, n)
      BY <1>2
    <2> DEFINE h == [i \in 0 .. n + 1 |-> IF i <= n THEN f[i] ELSE Next1(f[n], xs[i])]
    <2> HIDE DEF Next1
    <2>2. ASSUME NEW i \in 0 .. n + 1
          PROVE  h[i] = IF i = 0 THEN <<>> ELSE Next1(h[i - 1], xs[i])
      <3>1. i # 0 => i - 1 \in 0 .. n /\ h[i - 1] = f[i - 1]
        OBVIOUS
      <3>2. CASE i <= n
        <4>1. i \in 0 .. n
          BY <3>2
        <4>2. f[i] = IF i = 0 THEN <<>> ELSE Next1(f[i - 1], xs[i])
          BY <2>1, <4>1, Zenon DEF MissBody, Next1
        <4> QED
          BY <3>1, <3>2, <4>2
      <3>3. CASE i = n + 1
        BY <3>1, <3>3
      <3> QED
        BY <3>2, <3>3
    <2>3. h = MissBody(h, xs, ids, n + 1)
      <3>1. h = [i \in 0 .. n + 1 |-> h[i]]
        OBVIOUS
      <3> HIDE DEF h
      <3> QED
        BY <2>2, <3>1, Zenon DEF MissBody, Next1
    <2> QED
      BY <2>3
  <1> HIDE DEF S
  <1>3. \A n \in Nat : n \in S
    BY <1>1, <1>2, NatInduct
  <1> QED
    BY <1>3 DEF S

(* And is the one Missing chooses. *)
LEMMA MissIs ==
  ASSUME NEW xs, NEW ids, Len(xs) \in Nat
  PROVE  \E f : f = MissBody(f, xs, ids, Len(xs)) /\ Missing(xs, ids) = f[Len(xs)]
  <1> DEFINE Body(f) == [i \in 0 .. Len(xs) |->
                           IF i = 0 THEN <<>>
                           ELSE IF xs[i].id \in ids THEN f[i - 1] ELSE Append(f[i - 1], xs[i])]
             upTo == CHOOSE f : f = Body(f)
  <1>1. Missing(xs, ids) = upTo[Len(xs)]
    BY DEF Missing
  <1>2. ASSUME NEW f PROVE Body(f) = MissBody(f, xs, ids, Len(xs))
    BY DEF MissBody
  <1> HIDE DEF Body
  <1>3. \E f : f = Body(f)
    BY <1>2, MissDefined, Zenon
  <1>4. upTo = Body(upTo)
    BY <1>3, Zenon
  <1> QED
    BY <1>1, <1>2, <1>4

(* s holds the first j of xs, but for those with one of these ids.            *)
HoldsFirst(s, xs, ids, j) ==
  /\ \A k \in 1 .. Len(s) : \E i \in 1 .. j : s[k] = xs[i]
  /\ \A i \in 1 .. j : xs[i].id \in ids \/ \E k \in 1 .. Len(s) : s[k] = xs[i]

(* What Missing keeps: all whose ids are not there, and nothing else. *)
LEMMA MissingHolds ==
  ASSUME NEW X, NEW xs \in Seq(X), NEW ids
  PROVE  Missing(xs, ids) \in Seq(X) /\ HoldsFirst(Missing(xs, ids), xs, ids, Len(xs))
  <1> DEFINE n == Len(xs)
  <1>0. n \in Nat /\ \A i \in 1 .. n : xs[i] \in X
    OBVIOUS
  <1>1. PICK f : f = MissBody(f, xs, ids, n) /\ Missing(xs, ids) = f[n]
    BY <1>0, MissIs
  <1> DEFINE S == {j \in Nat : j <= n => f[j] \in Seq(X) /\ HoldsFirst(f[j], xs, ids, j)}
  <1>2. 0 \in S
    <2>1. 0 \in 0 .. n
      BY <1>0
    <2>2. f[0] = <<>>
      BY <1>1, <2>1, Zenon DEF MissBody
    <2>3. \A k \in 1 .. Len(<<>>) : FALSE
      OBVIOUS
    <2>4. HoldsFirst(<<>>, xs, ids, 0)
      BY <2>3 DEF HoldsFirst
    <2>5. f[0] \in Seq(X) /\ HoldsFirst(f[0], xs, ids, 0)
      BY <2>2, <2>4
    <2> QED
      BY <2>5
  <1>3. ASSUME NEW j \in Nat, j \in S PROVE j + 1 \in S
    <2> SUFFICES ASSUME j + 1 <= n PROVE f[j + 1] \in Seq(X) /\ HoldsFirst(f[j + 1], xs, ids, j + 1)
      OBVIOUS
    <2> DEFINE s == f[j]
               t == f[j + 1]
               x == xs[j + 1]
    <2>1. j + 1 \in 0 .. n /\ j + 1 # 0 /\ (j + 1) - 1 = j /\ s \in Seq(X) /\ x \in X
      BY <1>0, <1>3
    <2>2. HoldsFirst(s, xs, ids, j)
      BY <1>0, <1>3
    <2>3. t = IF x.id \in ids THEN f[(j + 1) - 1] ELSE Append(f[(j + 1) - 1], x)
      BY <1>1, <2>1, Zenon DEF MissBody
    <2>4. t = IF x.id \in ids THEN s ELSE Append(s, x)
      BY <2>1, <2>3
    <2> HIDE DEF s, t, S
    <2>5. /\ \A k \in 1 .. Len(s) : \E i \in 1 .. j : s[k] = xs[i]
          /\ \A i \in 1 .. j : xs[i].id \in ids \/ \E k \in 1 .. Len(s) : s[k] = xs[i]
      BY <2>2 DEF HoldsFirst
    <2>6. \A i \in 1 .. j : i \in 1 .. j + 1
      OBVIOUS
    <2>7. \A i \in 1 .. j + 1 : i = j + 1 \/ i \in 1 .. j
      OBVIOUS
    <2>8. CASE x.id \in ids
      <3>1. t = s
        BY <2>4, <2>8
      <3>2. HoldsFirst(s, xs, ids, j + 1)
        BY <2>5, <2>6, <2>7, <2>8 DEF HoldsFirst
      <3> QED
        BY <2>1, <3>1, <3>2 DEF t
    <2>9. CASE x.id \notin ids
      <3>1. t = Append(s, x)
        BY <2>4, <2>9
      <3>2. /\ Len(s) \in Nat /\ Len(t) = Len(s) + 1 /\ t[Len(s) + 1] = x /\ t \in Seq(X)
            /\ \A k \in 1 .. Len(s) : t[k] = s[k]
        BY <2>1, <3>1, AppendProperties
      <3>3. /\ \A k \in 1 .. Len(t) : k = Len(s) + 1 \/ k \in 1 .. Len(s)
            /\ Len(s) + 1 \in 1 .. Len(t) /\ \A k \in 1 .. Len(s) : k \in 1 .. Len(t)
            /\ j + 1 \in 1 .. j + 1
        BY <3>2
      <3> HIDE DEF x
      <3>4. ASSUME NEW k \in 1 .. Len(t) PROVE \E i \in 1 .. j + 1 : t[k] = xs[i]
        <4>1. CASE k = Len(s) + 1
          BY <3>2, <3>3, <4>1 DEF x
        <4>2. CASE k \in 1 .. Len(s)
          <5>1. PICK i \in 1 .. j : s[k] = xs[i]
            BY <2>5, <4>2
          <5>2. i \in 1 .. j + 1 /\ t[k] = xs[i]
            BY <2>6, <3>2, <4>2, <5>1
          <5> QED
            BY <5>2
        <4> QED
          BY <3>3, <4>1, <4>2
      <3>5. ASSUME NEW i \in 1 .. j + 1 PROVE xs[i].id \in ids \/ \E k \in 1 .. Len(t) : t[k] = xs[i]
        <4>1. CASE i = j + 1
          BY <3>2, <3>3, <4>1 DEF x
        <4>2. CASE i \in 1 .. j /\ xs[i].id \notin ids
          <5>1. PICK k \in 1 .. Len(s) : s[k] = xs[i]
            BY <2>5, <4>2
          <5>2. k \in 1 .. Len(t) /\ t[k] = xs[i]
            BY <3>2, <3>3, <5>1
          <5> QED
            BY <5>2
        <4> QED
          BY <2>7, <4>1, <4>2
      <3>6. HoldsFirst(t, xs, ids, j + 1)
        BY <3>4, <3>5 DEF HoldsFirst
      <3> QED
        BY <3>2, <3>6 DEF t
    <2> QED
      BY <2>8, <2>9
  <1> HIDE DEF S
  <1>4. n \in S
    BY <1>0, <1>2, <1>3, NatInduct
  <1>5. f[n] \in Seq(X) /\ HoldsFirst(f[n], xs, ids, n)
    BY <1>0, <1>4 DEF S
  <1> QED
    BY <1>1, <1>5

(* The ids of the file and of the project are known. *)
LEMMA OldIsKnown ==
  ASSUME NEW m \in Nat
  PROVE  OldId \subseteq KnownId(m) /\ \A n \in OldNode : n \in NodeUpTo(m)
  <1>1. MaxGestures \in Nat
    BY EditConstants
  <1>2. \A k \in m + 1 .. MaxGestures : k \in 1 .. MaxGestures
    BY <1>1
  <1>3. OldId \subseteq KnownId(m)
    BY <1>2 DEF OldId, KnownId
  <1> QED
    BY <1>3 DEF OldNode, NodeUpTo

(* So are the ids an import gives: the old one, or that with the position. *)
LEMMA GivenIsKnown ==
  ASSUME NEW m \in Nat, NEW i \in Nat, NEW xs, xs[i].id \in KnownId(m), NEW mode, NEW ids
  PROVE  GivenId(i, xs, mode, ids) \in KnownId(m)
  <1>1. Append(xs[i].id, i) \in KnownId(m)
    BY LongerIsKnown
  <1>2. \A there : ImportedId(i, xs[i].id, mode, there) \in KnownId(m)
    BY <1>1 DEF ImportedId
  <1> QED
    BY <1>2, Zenon DEF GivenId

(* Those of the nodes are. *)
LEMMA NodeIdKnown ==
  ASSUME NEW m \in Nat, NEW mode, NEW g, NEW id \in KnownId(m)
  PROVE  NodeIdFor(mode, g, id) \in KnownId(m)
  <1>2. DOMAIN File.nodes \subseteq Nat
    BY EditConstants
  <1>3. CASE \E i \in DOMAIN File.nodes : File.nodes[i].id = id
    <2> DEFINE i == CHOOSE i \in DOMAIN File.nodes : File.nodes[i].id = id
    <2>1. i \in Nat /\ File.nodes[i].id = id
      BY <1>2, <1>3
    <2> HIDE DEF i
    <2>2. GivenId(i, File.nodes, mode, NodeIds(g)) \in KnownId(m)
      BY <2>1, GivenIsKnown
    <2> QED
      BY <1>3, <2>2 DEF NodeIdFor, i
  <1>4. CASE ~ \E i \in DOMAIN File.nodes : File.nodes[i].id = id
    BY <1>4 DEF NodeIdFor
  <1> QED
    BY <1>3, <1>4

WantedIds(wanted) == {wanted.nodes[i].id : i \in DOMAIN wanted.nodes}

EndsOf(l) == {l.source, l.target}

(* What is wanted is a graph of known ids, with links between its nodes.      *)
LEMMA ImportedIs ==
  ASSUME NEW m \in Nat, NEW mode, NEW g
  PROVE  LET wanted == Imported(mode, g) IN
         /\ wanted.nodes \in Seq(NodeUpTo(m)) /\ wanted.links \in Seq(LinkUpTo(m))
         /\ \A i \in 1 .. Len(wanted.links) : EndsOf(wanted.links[i]) \subseteq WantedIds(wanted)
  <1> DEFINE idOf(id) == NodeIdFor(mode, g, id)
             ns == [i \in DOMAIN File.nodes |-> [File.nodes[i] EXCEPT !.id = idOf(@)]]
             ls == [i \in DOMAIN File.links |->
                      [id |-> GivenId(i, File.links, mode, LinkIds(g)),
                       source |-> idOf(File.links[i].source), target |-> idOf(File.links[i].target)]]
             wanted == Imported(mode, g)
  <1>1. wanted = [nodes |-> ns, links |-> ls]
    BY DEF Imported
  <1>2. wanted.nodes = ns /\ wanted.links = ls
    BY <1>1
  <1>3. File.nodes \in Seq(OldNode) /\ File.links \in Seq(OldLink)
    BY EditConstants
  <1>4. /\ \A i \in DOMAIN File.nodes : File.nodes[i].id \in OldId /\ File.nodes[i].label \in AnyLabel
                                          /\ File.nodes[i] = [id |-> File.nodes[i].id, label |-> File.nodes[i].label]
        /\ \A i \in DOMAIN File.links : /\ File.links[i].id \in OldId
                                        /\ File.links[i].source \in OldId /\ File.links[i].target \in OldId
    <2>1. ASSUME NEW n \in OldNode
          PROVE  n.id \in OldId /\ n.label \in AnyLabel /\ n = [id |-> n.id, label |-> n.label]
      BY DEF OldNode
    <2>2. ASSUME NEW l \in OldLink
          PROVE  l.id \in OldId /\ l.source \in OldId /\ l.target \in OldId
      BY DEF OldLink
    <2>3. /\ \A i \in DOMAIN File.nodes : File.nodes[i] \in OldNode
          /\ \A i \in DOMAIN File.links : File.links[i] \in OldLink
      BY <1>3
    <2> QED
      BY <2>1, <2>2, <2>3
  <1>5. OldId \subseteq KnownId(m)
    BY OldIsKnown
  <1>6. \A id \in OldId : idOf(id) \in KnownId(m)
    BY <1>5, NodeIdKnown
  <1>7. \A i \in DOMAIN File.nodes : ns[i] = [id |-> idOf(File.nodes[i].id), label |-> File.nodes[i].label]
    <2> TAKE i \in DOMAIN File.nodes
    <2>1. ns[i] = [File.nodes[i] EXCEPT !.id = idOf(File.nodes[i].id)]
      OBVIOUS
    <2>2. File.nodes[i] = [id |-> File.nodes[i].id, label |-> File.nodes[i].label]
      BY <1>4
    <2>3. ASSUME NEW a, NEW b, NEW c PROVE [[id |-> a, label |-> b] EXCEPT !.id = c] = [id |-> c, label |-> b]
      OBVIOUS
    <2> HIDE DEF ns, idOf
    <2>4. [[id |-> File.nodes[i].id, label |-> File.nodes[i].label] EXCEPT !.id = idOf(File.nodes[i].id)]
            = [id |-> idOf(File.nodes[i].id), label |-> File.nodes[i].label]
      BY <2>3
    <2> QED
      BY <2>1, <2>2, <2>4
  <1>8. \A i \in DOMAIN File.links : ls[i].source = idOf(File.links[i].source)
                                      /\ ls[i].target = idOf(File.links[i].target)
    OBVIOUS
  <1>9. \A i \in DOMAIN File.links : GivenId(i, File.links, mode, LinkIds(g)) \in KnownId(m)
    <2> TAKE i \in DOMAIN File.links
    <2>1. i \in Nat /\ File.links[i].id \in KnownId(m)
      BY <1>3, <1>4, <1>5
    <2> QED
      BY <2>1, GivenIsKnown
  <1>10. \A i \in DOMAIN File.nodes : ns[i] \in NodeUpTo(m)
    <2> TAKE i \in DOMAIN File.nodes
    <2>1. idOf(File.nodes[i].id) \in KnownId(m) /\ File.nodes[i].label \in AnyLabel
      BY <1>4, <1>6
    <2>2. ns[i] = [id |-> idOf(File.nodes[i].id), label |-> File.nodes[i].label]
      BY <1>7
    <2> HIDE DEF ns, idOf
    <2> QED
      BY <2>1, <2>2 DEF NodeUpTo
  <1>11. \A i \in DOMAIN File.links : ls[i] \in LinkUpTo(m)
    <2> TAKE i \in DOMAIN File.links
    <2> DEFINE id == GivenId(i, File.links, mode, LinkIds(g))
               source == idOf(File.links[i].source)
               target == idOf(File.links[i].target)
    <2>1. id \in KnownId(m) /\ source \in KnownId(m) /\ target \in KnownId(m)
      BY <1>4, <1>6, <1>9
    <2>2. ls[i] = [id |-> id, source |-> source, target |-> target]
      OBVIOUS
    <2> HIDE DEF ls, id, source, target
    <2> QED
      BY <2>1, <2>2 DEF LinkUpTo
  <1>12. /\ DOMAIN ns = DOMAIN File.nodes /\ DOMAIN ls = DOMAIN File.links
         /\ ns = [i \in DOMAIN File.nodes |-> ns[i]] /\ ls = [i \in DOMAIN File.links |-> ls[i]]
    OBVIOUS
  <1>13. \A i \in DOMAIN File.nodes : ns[i].id = idOf(File.nodes[i].id)
    BY <1>7
  <1> HIDE DEF ns, ls, wanted, idOf
  <1>14. ns \in Seq(NodeUpTo(m)) /\ ls \in Seq(LinkUpTo(m))
    <2>1. Len(File.nodes) \in Nat /\ DOMAIN File.nodes = 1 .. Len(File.nodes)
          /\ Len(File.links) \in Nat /\ DOMAIN File.links = 1 .. Len(File.links)
      BY <1>3
    <2>2. ns \in [1 .. Len(File.nodes) -> NodeUpTo(m)] /\ ls \in [1 .. Len(File.links) -> LinkUpTo(m)]
      BY <1>10, <1>11, <1>12, <2>1
    <2> QED
      BY <2>1, <2>2, FunctionIsSeq
  <1>15. ASSUME NEW id, id \in {File.nodes[j].id : j \in DOMAIN File.nodes}
         PROVE  idOf(id) \in WantedIds(wanted)
    <2>1. PICK j \in DOMAIN File.nodes : File.nodes[j].id = id
      BY <1>15
    <2>2. j \in DOMAIN wanted.nodes /\ wanted.nodes[j].id = idOf(id)
      BY <1>2, <1>12, <1>13, <2>1
    <2> QED
      BY <2>2 DEF WantedIds
  <1>16. ASSUME NEW i \in DOMAIN File.links
         PROVE  EndsOf(wanted.links[i]) \subseteq WantedIds(wanted)
    <2>1. {File.links[i].source, File.links[i].target} \subseteq {File.nodes[j].id : j \in DOMAIN File.nodes}
      BY EditConstants DEF Parses
    <2>2. idOf(File.links[i].source) \in WantedIds(wanted) /\ idOf(File.links[i].target) \in WantedIds(wanted)
      BY <1>15, <2>1
    <2> QED
      BY <1>2, <1>8, <2>2 DEF EndsOf
  <1>17. \A i \in 1 .. Len(wanted.links) : i \in DOMAIN File.links
    BY <1>2, <1>12, <1>14
  <1> QED
    BY <1>2, <1>14, <1>16, <1>17 DEF wanted

(* An import sends commands about what is known. *)
LEMMA ImportTyped ==
  ASSUME NEW m \in Nat, NEW mode, NEW g
  PROVE  ImportEvents(mode, g) \in Seq(EventUpTo(m))
  <1> DEFINE wanted == Imported(mode, g)
             nIds == IF mode = "merge" THEN NodeIds(g) ELSE {}
             lIds == IF mode = "merge" THEN LinkIds(g) ELSE {}
             ns == Missing(wanted.nodes, nIds)
             ls == Missing(wanted.links, lIds)
  <1>1. ImportEvents(mode, g) = NodesCreated(ns) \o LinksCreated(ls)
    BY DEF ImportEvents
  <1>2. wanted.nodes \in Seq(NodeUpTo(m)) /\ wanted.links \in Seq(LinkUpTo(m))
    BY ImportedIs
  <1> HIDE DEF wanted, nIds, lIds
  <1>3. ns \in Seq(NodeUpTo(m)) /\ ls \in Seq(LinkUpTo(m))
    BY <1>2, MissingHolds
  <1> HIDE DEF ns, ls
  <1>4. NodesCreated(ns) \in Seq(EventUpTo(m)) /\ LinksCreated(ls) \in Seq(EventUpTo(m))
    BY <1>3, EventsTyped
  <1> QED
    BY <1>1, <1>4

-----------------------------------------------------------------------------
(* An import on its way                                                       *)

IsNodeOf(e, id) == e.type = "node.created" /\ e.id = id

IsLinkOf(e, id) == e.type = "link.created" /\ e.link.id = id

(* The graph has the link, and it will be shown when the import is done.      *)
HasLink(wanted, graph, id) ==
  \E l \in graph.links : l.id = id /\ EndsOf(l) \subseteq NodeIds(graph) \cup WantedIds(wanted)

(* What is wanted is there, or still to come, and nothing else comes.         *)
Importing(wanted, todo, graph) ==
  /\ \A i \in DOMAIN wanted.nodes :
       wanted.nodes[i].id \in NodeIds(graph) \/ \E k \in 1 .. Len(todo) : IsNodeOf(todo[k], wanted.nodes[i].id)
  /\ \A i \in DOMAIN wanted.links :
       HasLink(wanted, graph, wanted.links[i].id) \/ \E k \in 1 .. Len(todo) : IsLinkOf(todo[k], wanted.links[i].id)
  /\ \A k \in 1 .. Len(todo) :
       todo[k].type = "node.created" \/ (todo[k].type = "link.created" /\ EndsOf(todo[k].link) \subseteq WantedIds(wanted))

(* An import that begins has, or will send, all that is wanted: with merge, if what is
   drawn is what there is. *)
LEMMA ImportBegins ==
  ASSUME NEW m \in Nat, NEW mode, NEW g \in GraphUpTo(m), NEW graph, mode = "merge" => graph = g /\ g = Shown(g)
  PROVE  Importing(Imported(mode, g), ImportEvents(mode, g), graph)
  <1> DEFINE wanted == Imported(mode, g)
             nIds == IF mode = "merge" THEN NodeIds(g) ELSE {}
             lIds == IF mode = "merge" THEN LinkIds(g) ELSE {}
             ns == Missing(wanted.nodes, nIds)
             ls == Missing(wanted.links, lIds)
             first == NodesCreated(ns)
             second == LinksCreated(ls)
             todo == ImportEvents(mode, g)
  <1>1. todo = first \o second
    BY DEF ImportEvents
  <1>2. /\ wanted.nodes \in Seq(NodeUpTo(m)) /\ wanted.links \in Seq(LinkUpTo(m))
        /\ \A i \in 1 .. Len(wanted.links) : EndsOf(wanted.links[i]) \subseteq WantedIds(wanted)
    BY ImportedIs
  <1>3. nIds \subseteq NodeIds(graph)
    OBVIOUS
  <1>4. ASSUME NEW id \in lIds PROVE HasLink(wanted, graph, id)
    <2>1. mode = "merge" /\ id \in LinkIds(g) /\ graph = g /\ g = Shown(g)
      BY <1>4
    <2>2. g.links = {l \in g.links : {l.source, l.target} \subseteq NodeIds(g)}
      <3> DEFINE K == {l \in g.links : {l.source, l.target} \subseteq NodeIds(g)}
      <3>1. g = [g EXCEPT !.links = K]
        BY <2>1 DEF Shown
      <3>2. g = [nodes |-> g.nodes, links |-> g.links]
        BY GraphIs
      <3> HIDE DEF K
      <3>3. [g EXCEPT !.links = K].links = K
        BY <3>2
      <3>4. g.links = K
        BY <3>1, <3>3, Zenon
      <3> QED
        BY <3>4 DEF K
    <2>3. PICK l \in g.links : l.id = id
      BY <2>1 DEF LinkIds
    <2>4. EndsOf(l) \subseteq NodeIds(g)
      BY <2>2, <2>3 DEF EndsOf
    <2> QED
      BY <2>1, <2>3, <2>4 DEF HasLink
  <1> HIDE DEF wanted, nIds, lIds
  <1>5. /\ ns \in Seq(NodeUpTo(m)) /\ HoldsFirst(ns, wanted.nodes, nIds, Len(wanted.nodes))
        /\ ls \in Seq(LinkUpTo(m)) /\ HoldsFirst(ls, wanted.links, lIds, Len(wanted.links))
    BY <1>2, MissingHolds
  <1> HIDE DEF ns, ls
  <1>6. first \in Seq(EventUpTo(m)) /\ second \in Seq(EventUpTo(m))
    BY <1>5, EventsTyped
  <1>7. /\ DOMAIN ns = 1 .. Len(ns) /\ DOMAIN ls = 1 .. Len(ls)
        /\ Len(ns) \in Nat /\ Len(ls) \in Nat
    BY <1>5
  <1>8. Len(first) = Len(ns) /\ \A i \in 1 .. Len(ns) : first[i].type = "node.created" /\ first[i].id = ns[i].id
    BY <1>7 DEF NodesCreated, NodeCreated
  <1>9. Len(second) = Len(ls) /\ \A i \in 1 .. Len(ls) : second[i].type = "link.created" /\ second[i].link = ls[i]
    BY <1>7 DEF LinksCreated, LinkCreated
  <1>10. Joins(first \o second, first, second)
    BY <1>6, TwoLists
  <1> HIDE DEF first, second, todo
  <1>11. /\ \A j \in 1 .. Len(todo) : (\E i \in 1 .. Len(first) : todo[j] = first[i]) \/ (\E i \in 1 .. Len(second) : todo[j] = second[i])
         /\ \A i \in 1 .. Len(first) : \E j \in 1 .. Len(todo) : todo[j] = first[i]
         /\ \A i \in 1 .. Len(second) : \E j \in 1 .. Len(todo) : todo[j] = second[i]
    BY <1>1, <1>10 DEF Joins
  <1>12. ASSUME NEW i \in DOMAIN wanted.nodes
         PROVE  wanted.nodes[i].id \in NodeIds(graph) \/ \E k \in 1 .. Len(todo) : IsNodeOf(todo[k], wanted.nodes[i].id)
    <2>1. i \in 1 .. Len(wanted.nodes)
      BY <1>2
    <2>2. wanted.nodes[i].id \in nIds \/ \E k \in 1 .. Len(ns) : ns[k] = wanted.nodes[i]
      BY <1>5, <2>1 DEF HoldsFirst
    <2>3. CASE \E k \in 1 .. Len(ns) : ns[k] = wanted.nodes[i]
      <3>1. PICK k \in 1 .. Len(ns) : ns[k] = wanted.nodes[i]
        BY <2>3
      <3>2. IsNodeOf(first[k], wanted.nodes[i].id) /\ k \in 1 .. Len(first)
        BY <1>8, <3>1 DEF IsNodeOf
      <3>3. PICK j \in 1 .. Len(todo) : todo[j] = first[k]
        BY <1>11, <3>2
      <3> QED
        BY <3>2, <3>3
    <2> QED
      BY <1>3, <2>2, <2>3
  <1>13. ASSUME NEW i \in DOMAIN wanted.links
         PROVE  HasLink(wanted, graph, wanted.links[i].id)
                  \/ \E k \in 1 .. Len(todo) : IsLinkOf(todo[k], wanted.links[i].id)
    <2>1. i \in 1 .. Len(wanted.links)
      BY <1>2
    <2>2. wanted.links[i].id \in lIds \/ \E k \in 1 .. Len(ls) : ls[k] = wanted.links[i]
      BY <1>5, <2>1 DEF HoldsFirst
    <2>3. CASE \E k \in 1 .. Len(ls) : ls[k] = wanted.links[i]
      <3>1. PICK k \in 1 .. Len(ls) : ls[k] = wanted.links[i]
        BY <2>3
      <3>2. IsLinkOf(second[k], wanted.links[i].id) /\ k \in 1 .. Len(second)
        BY <1>9, <3>1 DEF IsLinkOf
      <3>3. PICK j \in 1 .. Len(todo) : todo[j] = second[k]
        BY <1>11, <3>2
      <3> QED
        BY <3>2, <3>3
    <2> QED
      BY <1>4, <2>2, <2>3
  <1>14. ASSUME NEW k \in 1 .. Len(todo)
         PROVE  todo[k].type = "node.created"
                  \/ (todo[k].type = "link.created" /\ EndsOf(todo[k].link) \subseteq WantedIds(wanted))
    <2>1. CASE \E i \in 1 .. Len(first) : todo[k] = first[i]
      BY <1>8, <2>1
    <2>2. CASE \E i \in 1 .. Len(second) : todo[k] = second[i]
      <3>1. PICK i \in 1 .. Len(ls) : todo[k] = second[i]
        BY <1>9, <2>2
      <3>2. PICK j \in 1 .. Len(wanted.links) : ls[i] = wanted.links[j]
        BY <1>5, <3>1 DEF HoldsFirst
      <3> QED
        BY <1>2, <1>9, <3>1, <3>2
    <2> QED
      BY <1>11, <2>1, <2>2
  <1>15. Importing(wanted, todo, graph)
    BY <1>12, <1>13, <1>14 DEF Importing
  <1> QED
    BY <1>15 DEF wanted, todo

(* One more of it is there. *)
LEMMA ImportingNext ==
  ASSUME NEW m, NEW graph \in GraphUpTo(m), NEW E, NEW todo \in Seq(E), todo # <<>>,
         NEW wanted, Importing(wanted, todo, graph)
  PROVE  Importing(wanted, Tail(todo), ApplyGraphEvent(graph, Head(todo)))
  <1> DEFINE e == Head(todo)
             h == ApplyGraphEvent(graph, e)
             n == Len(todo)
             t == Tail(todo)
  <1>1. graph = [nodes |-> graph.nodes, links |-> graph.links]
    BY GraphIs
  <1>2. /\ n \in Nat /\ n > 0 /\ e = todo[1] /\ Len(t) = n - 1
        /\ \A k \in 1 .. n - 1 : t[k] = todo[k + 1]
    OBVIOUS
  <1>3. e.type = "node.created" \/ (e.type = "link.created" /\ EndsOf(e.link) \subseteq WantedIds(wanted))
    <2>1. 1 \in 1 .. n
      BY <1>2
    <2> QED
      BY <1>2, <2>1 DEF Importing
  <1>a. \A k \in 1 .. n : k = 1 \/ k - 1 \in 1 .. n - 1
    BY <1>2
  <1>4. \A k \in 1 .. n : k = 1 \/ (k - 1 \in 1 .. Len(t) /\ t[k - 1] = todo[k])
    <2> TAKE k \in 1 .. n
    <2>1. CASE k # 1
      <3>1. k - 1 \in 1 .. n - 1 /\ (k - 1) + 1 = k
        BY <1>2, <2>1
      <3> QED
        BY <1>2, <3>1
    <2> QED
      BY <2>1
  <1>5. \A k \in 1 .. Len(t) : k + 1 \in 1 .. n /\ t[k] = todo[k + 1]
    BY <1>2
  <1> HIDE DEF e, t, n
  <1>6. e.type = "node.created" =>
          h = [nodes |-> Without(graph.nodes, e.id) \cup {[id |-> e.id, label |-> e.label]}, links |-> graph.links]
    BY <1>1, EventEffects
  <1>7. e.type = "link.created" =>
          h = [nodes |-> graph.nodes, links |-> Without(graph.links, e.link.id) \cup {e.link}]
    BY <1>1, EventEffects
  <1> HIDE DEF h
  <1>8. NodeIds(graph) \subseteq NodeIds(h) /\ \A id : IsNodeOf(e, id) => id \in NodeIds(h)
    <2>1. CASE e.type = "node.created"
      <3> DEFINE x == [id |-> e.id, label |-> e.label]
      <3>1. h.nodes = Without(graph.nodes, e.id) \cup {x} /\ x.id = e.id
        BY <1>6, <2>1
      <3> HIDE DEF x
      <3>2. NodeIds(graph) \subseteq NodeIds(h)
        BY <3>1 DEF NodeIds, Without
      <3>3. e.id \in NodeIds(h)
        BY <3>1 DEF NodeIds
      <3> QED
        BY <3>2, <3>3 DEF IsNodeOf
    <2>2. CASE e.type = "link.created"
      BY <1>7, <2>2 DEF NodeIds, IsNodeOf
    <2> QED
      BY <1>3, <2>1, <2>2
  <1>9. \A id : HasLink(wanted, graph, id) \/ IsLinkOf(e, id) => HasLink(wanted, h, id)
    <2> TAKE id
    <2>1. CASE e.type = "node.created"
      <3>1. h.links = graph.links /\ ~IsLinkOf(e, id)
        BY <1>6, <2>1 DEF IsLinkOf
      <3> QED
        BY <1>8, <3>1 DEF HasLink
    <2>2. CASE e.type = "link.created"
      <3>1. h.links = Without(graph.links, e.link.id) \cup {e.link} /\ EndsOf(e.link) \subseteq WantedIds(wanted)
        BY <1>3, <1>7, <2>2
      <3>2. CASE id = e.link.id
        BY <3>1, <3>2 DEF HasLink
      <3>3. CASE id # e.link.id /\ HasLink(wanted, graph, id)
        <4>1. PICK l \in graph.links : l.id = id /\ EndsOf(l) \subseteq NodeIds(graph) \cup WantedIds(wanted)
          BY <3>3 DEF HasLink
        <4>2. l \in h.links
          BY <3>1, <3>3, <4>1 DEF Without
        <4> QED
          BY <1>8, <4>1, <4>2 DEF HasLink
      <3> QED
        BY <3>2, <3>3 DEF IsLinkOf
    <2> QED
      BY <1>3, <2>1, <2>2
  <1>10. ASSUME NEW i \in DOMAIN wanted.nodes
         PROVE  wanted.nodes[i].id \in NodeIds(h) \/ \E k \in 1 .. Len(t) : IsNodeOf(t[k], wanted.nodes[i].id)
    <2>1. CASE wanted.nodes[i].id \in NodeIds(graph)
      BY <1>8, <2>1
    <2>2. CASE \E k \in 1 .. n : IsNodeOf(todo[k], wanted.nodes[i].id)
      <3>1. PICK k \in 1 .. n : IsNodeOf(todo[k], wanted.nodes[i].id)
        BY <2>2
      <3>2. CASE k = 1
        BY <1>2, <1>8, <3>1, <3>2
      <3>3. CASE k # 1
        BY <1>4, <3>1, <3>3
      <3> QED
        BY <3>2, <3>3
    <2> QED
      BY <2>1, <2>2 DEF Importing, n
  <1>11. ASSUME NEW i \in DOMAIN wanted.links
         PROVE  HasLink(wanted, h, wanted.links[i].id) \/ \E k \in 1 .. Len(t) : IsLinkOf(t[k], wanted.links[i].id)
    <2>1. CASE HasLink(wanted, graph, wanted.links[i].id)
      BY <1>9, <2>1
    <2>2. CASE \E k \in 1 .. n : IsLinkOf(todo[k], wanted.links[i].id)
      <3>1. PICK k \in 1 .. n : IsLinkOf(todo[k], wanted.links[i].id)
        BY <2>2
      <3>2. CASE k = 1
        BY <1>2, <1>9, <3>1, <3>2
      <3>3. CASE k # 1
        BY <1>4, <3>1, <3>3
      <3> QED
        BY <3>2, <3>3
    <2> QED
      BY <2>1, <2>2 DEF Importing, n
  <1>12. \A k \in 1 .. Len(t) : t[k].type = "node.created"
                                 \/ (t[k].type = "link.created" /\ EndsOf(t[k].link) \subseteq WantedIds(wanted))
    BY <1>5 DEF Importing, n
  <1>13. Importing(wanted, t, h)
    BY <1>10, <1>11, <1>12 DEF Importing
  <1> QED
    BY <1>13 DEF t, h, e

(* When nothing is left to send, all that is wanted is there, and is shown. *)
LEMMA ImportingEnds ==
  ASSUME NEW m, NEW graph \in GraphUpTo(m), NEW wanted, NEW todo, Len(todo) = 0, Importing(wanted, todo, graph)
  PROVE  /\ \A i \in DOMAIN wanted.nodes : wanted.nodes[i].id \in NodeIds(graph)
         /\ \A i \in DOMAIN wanted.links : wanted.links[i].id \in {l.id : l \in Shown(graph).links}
  <1>1. \A k \in 1 .. Len(todo) : FALSE
    OBVIOUS
  <1>2. \A i \in DOMAIN wanted.nodes : wanted.nodes[i].id \in NodeIds(graph)
    BY <1>1 DEF Importing
  <1>3. WantedIds(wanted) \subseteq NodeIds(graph)
    BY <1>2 DEF WantedIds
  <1>4. Shown(graph).links = {l \in graph.links : {l.source, l.target} \subseteq NodeIds(graph)}
    BY GraphIs DEF Shown
  <1>5. ASSUME NEW i \in DOMAIN wanted.links
        PROVE  wanted.links[i].id \in {l.id : l \in Shown(graph).links}
    <2>1. HasLink(wanted, graph, wanted.links[i].id)
      BY <1>1 DEF Importing
    <2>2. PICK l \in graph.links : l.id = wanted.links[i].id /\ EndsOf(l) \subseteq NodeIds(graph) \cup WantedIds(wanted)
      BY <2>1 DEF HasLink
    <2>3. l \in Shown(graph).links
      BY <1>3, <1>4, <2>2 DEF EndsOf
    <2> QED
      BY <2>2, <2>3
  <1> QED
    BY <1>2, <1>5

-----------------------------------------------------------------------------
(* What holds between the gestures and during them                            *)

IsEdit(e) ==
  e = [graph |-> e.graph, shown |-> e.shown, undo |-> e.undo, redo |-> e.redo, doing |-> e.doing,
       made |-> e.made, hurt |-> e.hurt, base |-> e.base]

Gestures == {"record", "undo", "redo", "import", "replace", "clear", "refill"}

IsDoing(d, m) ==
  \/ d = Resting
  \/ /\ d = [does |-> d.does, todo |-> d.todo, rest |-> d.rest, isCurrent |-> d.isCurrent]
     /\ d.does \in Gestures
     /\ d.todo \in Seq(EventUpTo(m))
     /\ d.does = "record" => d.rest \in ItemUpTo(m)

EditTyped(e) ==
  /\ IsEdit(e)
  /\ e.made \in 0 .. MaxGestures
  /\ e.graph \in GraphUpTo(e.made) /\ e.shown \in GraphUpTo(e.made)
  /\ e.undo \in Seq(ItemUpTo(e.made)) /\ e.redo \in Seq(ItemUpTo(e.made))
  /\ IsDoing(e.doing, e.made)

(* What was left half done is what is done again, or given up.                *)
HurtFits(e) ==
  /\ e.hurt \in {"nothing", "undo", "redo", "for good"}
  /\ e.doing.does \in {"record", "import", "replace"} => e.hurt \in {"nothing", "for good"}
  /\ e.doing.does = "undo" => e.hurt # "redo"
  /\ e.doing.does = "redo" => e.hurt # "undo"

(* The stacks lead from base to graph and on.                                 *)
StacksLead(e) == UndoChain(e.base, e.undo, e.graph) /\ RedoChain(e.graph, e.redo)

(* They do but for the top of one, which is half done: between g and h.       *)
HalfUndone(e, M, g, h) ==
  /\ e.undo # <<>> /\ Between(M, g, Top(e.undo), h)
  /\ UndoChain(e.base, Popped(e.undo), g) /\ RedoChain(h, e.redo)

HalfRedone(e, M, g, h) ==
  /\ e.redo # <<>> /\ Between(M, g, Top(e.redo), h)
  /\ UndoChain(e.base, e.undo, g) /\ RedoChain(h, Popped(e.redo))

IsResting(e) ==
  /\ e.hurt = "nothing" => StacksLead(e)
  /\ e.hurt = "undo" => \E M, g, h : HalfUndone(e, M, g, h) /\ e.graph \in M
  /\ e.hurt = "redo" => \E M, g, h : HalfRedone(e, M, g, h) /\ e.graph \in M

IsDoingNew(e) ==
  \E M, g, h : /\ Between(M, g, e.doing.rest, h) /\ UndoChain(e.base, e.undo, g)
               /\ Goes(M, e.doing.todo, e.graph, h)

IsUndoing(e) == \E M, g, h : HalfUndone(e, M, g, h) /\ Goes(M, e.doing.todo, e.graph, g)

IsRedoing(e) == \E M, g, h : HalfRedone(e, M, g, h) /\ Goes(M, e.doing.todo, e.graph, h)

StacksSound(e) ==
  /\ e.doing.does \in {"clear", "refill"} => e.undo = <<>> /\ e.redo = <<>>
  /\ e.doing.does = "undo" => e.undo # <<>>
  /\ e.doing.does = "redo" => e.redo # <<>>
  /\ e.hurt # "for good" => /\ e.doing.does = "nothing" => IsResting(e)
                            /\ e.doing.does = "record" => IsDoingNew(e)
                            /\ e.doing.does = "undo" => IsUndoing(e)
                            /\ e.doing.does = "redo" => IsRedoing(e)

ImportSound(e) ==
  e.doing.does \in {"import", "refill"} /\ e.doing.isCurrent => Importing(e.doing.rest, e.doing.todo, e.graph)

EditSound(e) == EditTyped(e) /\ HurtFits(e) /\ StacksSound(e) /\ ImportSound(e)

(* Resting is no gesture. *)
LEMMA RestingIs ==
  /\ Resting.does = "nothing" /\ Resting.does \notin Gestures
  /\ \A d, m : IsDoing(d, m) => (d = Resting <=> d.does = "nothing")
  <1>1. Resting.does = "nothing" /\ Resting.does \notin Gestures
    BY DEF Resting, Gestures
  <1>2. ASSUME NEW d, NEW m, IsDoing(d, m) PROVE d = Resting <=> d.does = "nothing"
    BY <1>1, <1>2 DEF IsDoing, Gestures
  <1> QED
    BY <1>1, <1>2

-----------------------------------------------------------------------------
(* The invariant says what the checks say *)

(* UndoRestores is part of the invariant, at rest. *)
LEMMA RestoresFollows ==
  ASSUME EditSound(edit)
  PROVE  UndoRestores
  <1> SUFFICES ASSUME edit.doing = Resting, edit.hurt = "nothing"
               PROVE  /\ Undone(edit.graph, edit.undo) = edit.base
                      /\ Undone(Redone(edit.graph, edit.redo), Turned(edit.redo)) = edit.graph
    BY DEF UndoRestores
  <1>1. edit.doing.does = "nothing"
    BY RestingIs
  <1>2. UndoChain(edit.base, edit.undo, edit.graph) /\ RedoChain(edit.graph, edit.redo)
    BY <1>1 DEF EditSound, StacksSound, IsResting, StacksLead
  <1>3. Len(edit.undo) \in Nat /\ Len(edit.redo) \in Nat
    BY DEF EditSound, EditTyped
  <1> QED
    BY <1>2, <1>3, UndoneIs, ThereAndBack

(* ImportWhole is what an import comes to. *)
LEMMA WholeFollows ==
  ASSUME EditSound(edit)
  PROVE  ImportWhole
  <1> DEFINE wanted == edit.doing.rest
             graph == edit.graph
  <1> SUFFICES ASSUME edit.doing.does \in {"import", "refill"}, edit.doing.todo = <<>>, edit.doing.isCurrent
               PROVE  /\ \A i \in DOMAIN wanted.nodes : wanted.nodes[i].id \in NodeIds(graph)
                      /\ \A i \in DOMAIN wanted.links : wanted.links[i].id \in {l.id : l \in Shown(graph).links}
    BY DEF ImportWhole
  <1>1. Importing(wanted, edit.doing.todo, graph)
    BY DEF EditSound, ImportSound
  <1>2. Len(edit.doing.todo) = 0
    OBVIOUS
  <1>3. graph \in GraphUpTo(edit.made)
    BY DEF EditSound, EditTyped
  <1> QED
    BY <1>1, <1>2, <1>3, ImportingEnds

-----------------------------------------------------------------------------
(* The steps                                                                  *)

(* What is half done still when a gesture begins. *)
HurtBy(does) ==
  IF edit.hurt \in {"nothing", does} /\ (does = "record" => edit.shown = edit.graph)
    THEN edit.hurt ELSE "for good"

(* What a gesture that begins changes. *)
LEMMA BeginsIs ==
  ASSUME EditTyped(edit), NEW does, NEW todo, NEW rest, Begins(does, todo, rest)
  PROVE  /\ IsEdit(edit')
         /\ edit.doing = Resting /\ edit.made < MaxGestures /\ edit.made \in Nat /\ edit'.made = edit.made + 1
         /\ edit'.graph = edit.graph /\ edit'.shown = edit.shown
         /\ edit'.undo = edit.undo /\ edit'.redo = edit.redo /\ edit'.base = edit.base
         /\ edit'.doing = [does |-> does, todo |-> todo, rest |-> rest, isCurrent |-> IsUpToDate]
         /\ edit'.hurt = HurtBy(does)
  <1>1. /\ IsEdit(edit) /\ edit.made \in 0 .. MaxGestures
    BY DEF EditTyped
  <1>2. edit.made \in Nat
    BY <1>1, EditConstants
  <1> DEFINE d == [does |-> does, todo |-> todo, rest |-> rest, isCurrent |-> IsUpToDate]
             hurt == HurtBy(does)
  <1>3. /\ edit.doing = Resting /\ edit.made < MaxGestures
        /\ edit' = [edit EXCEPT !.doing = d, !.made = edit.made + 1, !.hurt = hurt]
    BY DEF Begins, HurtBy
  <1> HIDE DEF d, hurt
  <1>4. edit' = [graph |-> edit.graph, shown |-> edit.shown, undo |-> edit.undo, redo |-> edit.redo, doing |-> d,
                 made |-> edit.made + 1, hurt |-> hurt, base |-> edit.base]
    BY <1>1, <1>3 DEF IsEdit
  <1> QED
    BY <1>2, <1>3, <1>4 DEF IsEdit, d, hurt

(* And that it keeps the types. *)
LEMMA BeginsTyped ==
  ASSUME EditTyped(edit), NEW does \in Gestures, NEW todo, NEW rest, Begins(does, todo, rest),
         todo \in Seq(EventUpTo(edit.made + 1)), does = "record" => rest \in ItemUpTo(edit.made + 1)
  PROVE  EditTyped(edit')
  <1> DEFINE m == edit.made
  <1>1. /\ edit.graph \in GraphUpTo(m) /\ edit.shown \in GraphUpTo(m)
        /\ edit.undo \in Seq(ItemUpTo(m)) /\ edit.redo \in Seq(ItemUpTo(m))
    BY DEF EditTyped
  <1>2. /\ IsEdit(edit')
        /\ m < MaxGestures /\ m \in Nat /\ edit'.made = m + 1
        /\ edit'.graph = edit.graph /\ edit'.shown = edit.shown
        /\ edit'.undo = edit.undo /\ edit'.redo = edit.redo
    BY BeginsIs
  <1>3. edit'.doing = [does |-> does, todo |-> todo, rest |-> rest, isCurrent |-> IsUpToDate]
    BY BeginsIs
  <1>4. IsDoing(edit'.doing, m + 1)
    BY <1>3 DEF IsDoing
  <1> HIDE DEF m
  <1>5. GraphUpTo(m) \subseteq GraphUpTo(m + 1) /\ ItemUpTo(m) \subseteq ItemUpTo(m + 1)
    BY <1>2, KnownGrows
  <1>6. m + 1 \in 0 .. MaxGestures
    BY <1>2, EditConstants
  <1>7. edit'.graph \in GraphUpTo(m + 1) /\ edit'.shown \in GraphUpTo(m + 1)
    BY <1>1, <1>2, <1>5
  <1>8. edit'.undo \in Seq(ItemUpTo(m + 1)) /\ edit'.redo \in Seq(ItemUpTo(m + 1))
    BY <1>1, <1>2, <1>5
  <1> QED
    BY <1>2, <1>4, <1>6, <1>7, <1>8 DEF EditTyped

(* A gesture that is recorded. *)
LEMMA RecordsKeeps ==
  ASSUME EditSound(edit), NEW item, Records(item), Recordable(edit.made, edit.shown, item)
  PROVE  EditSound(edit')
  <1>1. EditTyped(edit) /\ HurtFits(edit) /\ StacksSound(edit)
    BY DEF EditSound
  <1>2. Begins("record", item.redo, item)
    BY DEF Records
  <1>3. item \in ItemUpTo(edit.made + 1) /\ item.redo \in Seq(EventUpTo(edit.made + 1))
    BY DEF Recordable, ItemUpTo
  <1>4. EditTyped(edit')
    BY <1>1, <1>2, <1>3, BeginsTyped DEF Gestures
  <1>5. /\ edit.doing = Resting
        /\ edit'.graph = edit.graph /\ edit'.undo = edit.undo /\ edit'.base = edit.base
        /\ edit'.hurt = HurtBy("record")
    BY <1>1, <1>2, BeginsIs
  <1>6. edit'.doing = [does |-> "record", todo |-> item.redo, rest |-> item, isCurrent |-> IsUpToDate]
    BY <1>1, <1>2, BeginsIs
  <1>7. edit'.doing.does = "record" /\ edit'.doing.todo = item.redo /\ edit'.doing.rest = item
    BY <1>6
  <1>8. edit.doing.does = "nothing"
    BY <1>5, RestingIs
  <1>9. edit'.hurt # "for good" => edit'.hurt = "nothing" /\ edit.hurt = "nothing" /\ edit.shown = edit.graph
    BY <1>1, <1>5 DEF HurtFits, HurtBy
  <1>10. HurtFits(edit')
    BY <1>7, <1>9 DEF HurtFits
  <1>11. ASSUME edit'.hurt # "for good" PROVE IsDoingNew(edit')
    <2>1. UndoChain(edit.base, edit.undo, edit.graph)
      BY <1>1, <1>8, <1>9, <1>11 DEF StacksSound, IsResting, StacksLead
    <2>2. PICK M, h : Between(M, edit.graph, item, h)
      BY <1>9, <1>11 DEF Recordable
    <2>3. edit.graph \in M /\ Leads(M, item.redo, h)
      BY <2>2 DEF Between
    <2>4. Goes(M, item.redo, edit.graph, h)
      BY <2>3, GoesBegins
    <2> QED
      BY <1>5, <1>7, <2>1, <2>2, <2>4 DEF IsDoingNew
  <1>12. StacksSound(edit')
    BY <1>7, <1>11 DEF StacksSound
  <1>13. ImportSound(edit')
    BY <1>7 DEF ImportSound
  <1> QED
    BY <1>4, <1>10, <1>12, <1>13 DEF EditSound

(* An undo that begins, or begins again. *)
LEMMA UndoesKeeps ==
  ASSUME EditSound(edit), Undoes
  PROVE  EditSound(edit')
  <1> DEFINE item == Top(edit.undo)
             m == edit.made
  <1>1. EditTyped(edit) /\ HurtFits(edit) /\ StacksSound(edit)
    BY DEF EditSound
  <1>2. edit.undo # <<>> /\ Begins("undo", item.undo, <<>>)
    BY DEF Undoes
  <1>3. edit.undo \in Seq(ItemUpTo(m)) /\ m \in Nat
    BY <1>1, <1>2, BeginsIs DEF EditTyped
  <1>4. item \in ItemUpTo(m + 1)
    BY <1>2, <1>3, PoppedStack, KnownGrows
  <1>5. item.undo \in Seq(EventUpTo(m + 1))
    BY <1>4 DEF ItemUpTo
  <1> HIDE DEF item
  <1>6. EditTyped(edit')
    BY <1>1, <1>2, <1>5, BeginsTyped DEF Gestures
  <1>7. /\ edit.doing = Resting
        /\ edit'.graph = edit.graph /\ edit'.undo = edit.undo /\ edit'.redo = edit.redo /\ edit'.base = edit.base
        /\ edit'.hurt = HurtBy("undo")
    BY <1>1, <1>2, BeginsIs
  <1>8. edit'.doing = [does |-> "undo", todo |-> item.undo, rest |-> <<>>, isCurrent |-> IsUpToDate]
    BY <1>1, <1>2, BeginsIs
  <1>9. edit'.doing.does = "undo" /\ edit'.doing.todo = item.undo
    BY <1>8
  <1>10. edit.doing.does = "nothing"
    BY <1>7, RestingIs
  <1>11. edit'.hurt # "for good" => edit'.hurt \in {"nothing", "undo"} /\ edit.hurt = edit'.hurt
    BY <1>7 DEF HurtBy
  <1>12. HurtFits(edit')
    BY <1>9, <1>11 DEF HurtFits
  <1>13. ASSUME edit'.hurt # "for good" PROVE IsUndoing(edit')
    <2>1. IsResting(edit)
      BY <1>10, <1>11, <1>13 DEF StacksSound, EditSound
    <2>2. PICK M, g, h : HalfUndone(edit, M, g, h) /\ edit.graph \in M
      <3>1. CASE edit.hurt = "nothing"
        <4>1. UndoChain(edit.base, edit.undo, edit.graph) /\ RedoChain(edit.graph, edit.redo)
          BY <2>1, <3>1 DEF IsResting, StacksLead
        <4>2. PICK M, g : Between(M, g, Top(edit.undo), edit.graph) /\ UndoChain(edit.base, Popped(edit.undo), g)
          BY <1>2, <1>3, <4>1, UndoPop
        <4>3. HalfUndone(edit, M, g, edit.graph) /\ edit.graph \in M
          BY <1>2, <4>1, <4>2 DEF HalfUndone, Between
        <4> QED
          BY <4>3
      <3>2. CASE edit.hurt = "undo"
        BY <2>1, <3>2 DEF IsResting
      <3> QED
        BY <1>11, <1>13, <3>1, <3>2
    <2>3. Leads(M, item.undo, g)
      BY <2>2 DEF HalfUndone, Between, item
    <2>4. Goes(M, item.undo, edit.graph, g)
      BY <2>2, <2>3, GoesBegins
    <2>5. HalfUndone(edit', M, g, h)
      BY <1>7, <2>2 DEF HalfUndone
    <2> QED
      BY <1>7, <1>9, <2>4, <2>5 DEF IsUndoing
  <1>14. StacksSound(edit')
    BY <1>2, <1>7, <1>9, <1>13 DEF StacksSound
  <1>15. ImportSound(edit')
    BY <1>9 DEF ImportSound
  <1> QED
    BY <1>6, <1>12, <1>14, <1>15 DEF EditSound

(* A redo that begins, or begins again. *)
LEMMA RedoesKeeps ==
  ASSUME EditSound(edit), Redoes
  PROVE  EditSound(edit')
  <1> DEFINE item == Top(edit.redo)
             m == edit.made
  <1>1. EditTyped(edit) /\ HurtFits(edit) /\ StacksSound(edit)
    BY DEF EditSound
  <1>2. edit.redo # <<>> /\ Begins("redo", item.redo, <<>>)
    BY DEF Redoes
  <1>3. edit.redo \in Seq(ItemUpTo(m)) /\ m \in Nat
    BY <1>1, <1>2, BeginsIs DEF EditTyped
  <1>4. item \in ItemUpTo(m + 1)
    BY <1>2, <1>3, PoppedStack, KnownGrows
  <1>5. item.redo \in Seq(EventUpTo(m + 1))
    BY <1>4 DEF ItemUpTo
  <1> HIDE DEF item
  <1>6. EditTyped(edit')
    BY <1>1, <1>2, <1>5, BeginsTyped DEF Gestures
  <1>7. /\ edit.doing = Resting
        /\ edit'.graph = edit.graph /\ edit'.undo = edit.undo /\ edit'.redo = edit.redo /\ edit'.base = edit.base
        /\ edit'.hurt = HurtBy("redo")
    BY <1>1, <1>2, BeginsIs
  <1>8. edit'.doing = [does |-> "redo", todo |-> item.redo, rest |-> <<>>, isCurrent |-> IsUpToDate]
    BY <1>1, <1>2, BeginsIs
  <1>9. edit'.doing.does = "redo" /\ edit'.doing.todo = item.redo
    BY <1>8
  <1>10. edit.doing.does = "nothing"
    BY <1>7, RestingIs
  <1>11. edit'.hurt # "for good" => edit'.hurt \in {"nothing", "redo"} /\ edit.hurt = edit'.hurt
    BY <1>7 DEF HurtBy
  <1>12. HurtFits(edit')
    BY <1>9, <1>11 DEF HurtFits
  <1>13. ASSUME edit'.hurt # "for good" PROVE IsRedoing(edit')
    <2>1. IsResting(edit)
      BY <1>10, <1>11, <1>13 DEF StacksSound, EditSound
    <2>2. PICK M, g, h : HalfRedone(edit, M, g, h) /\ edit.graph \in M
      <3>1. CASE edit.hurt = "nothing"
        <4>1. UndoChain(edit.base, edit.undo, edit.graph) /\ RedoChain(edit.graph, edit.redo)
          BY <2>1, <3>1 DEF IsResting, StacksLead
        <4>2. PICK M, h : Between(M, edit.graph, Top(edit.redo), h) /\ RedoChain(h, Popped(edit.redo))
          BY <1>2, <1>3, <4>1, RedoPop
        <4>3. HalfRedone(edit, M, edit.graph, h) /\ edit.graph \in M
          BY <1>2, <4>1, <4>2 DEF HalfRedone, Between
        <4> QED
          BY <4>3
      <3>2. CASE edit.hurt = "redo"
        BY <2>1, <3>2 DEF IsResting
      <3> QED
        BY <1>11, <1>13, <3>1, <3>2
    <2>3. Leads(M, item.redo, h)
      BY <2>2 DEF HalfRedone, Between, item
    <2>4. Goes(M, item.redo, edit.graph, h)
      BY <2>2, <2>3, GoesBegins
    <2>5. HalfRedone(edit', M, g, h)
      BY <1>7, <2>2 DEF HalfRedone
    <2> QED
      BY <1>7, <1>9, <2>4, <2>5 DEF IsRedoing
  <1>14. StacksSound(edit')
    BY <1>2, <1>7, <1>9, <1>13 DEF StacksSound
  <1>15. ImportSound(edit')
    BY <1>9 DEF ImportSound
  <1> QED
    BY <1>6, <1>12, <1>14, <1>15 DEF EditSound

(* An import that begins. *)
LEMMA ImportsKeeps ==
  ASSUME EditSound(edit), NEW mode, Imports(mode)
  PROVE  EditSound(edit')
  <1> DEFINE m == edit.made
             todo == ImportEvents(mode, edit.shown)
             wanted == Imported(mode, edit.shown)
  <1>1. EditTyped(edit) /\ HurtFits(edit) /\ StacksSound(edit)
    BY DEF EditSound
  <1>2. Begins("import", todo, wanted)
    BY DEF Imports
  <1>3. m \in Nat /\ edit.shown \in GraphUpTo(m)
    BY <1>1, <1>2, BeginsIs DEF EditTyped
  <1>4. todo \in Seq(EventUpTo(m + 1))
    BY <1>3, ImportTyped
  <1>5. IsUpToDate => Importing(wanted, todo, edit.graph)
    BY <1>3, ImportBegins DEF IsUpToDate
  <1> HIDE DEF todo, wanted
  <1>6. EditTyped(edit')
    BY <1>1, <1>2, <1>4, BeginsTyped DEF Gestures
  <1>7. edit.doing = Resting /\ edit'.graph = edit.graph /\ edit'.hurt = HurtBy("import")
    BY <1>1, <1>2, BeginsIs
  <1>8. edit'.doing = [does |-> "import", todo |-> todo, rest |-> wanted, isCurrent |-> IsUpToDate]
    BY <1>1, <1>2, BeginsIs
  <1>9. /\ edit'.doing.does = "import" /\ edit'.doing.todo = todo /\ edit'.doing.rest = wanted
        /\ edit'.doing.isCurrent = IsUpToDate
    BY <1>8
  <1>10. HurtFits(edit')
    BY <1>1, <1>7, <1>9 DEF HurtFits, HurtBy
  <1>11. StacksSound(edit')
    BY <1>9 DEF StacksSound
  <1>12. ImportSound(edit')
    BY <1>5, <1>7, <1>9 DEF ImportSound
  <1> QED
    BY <1>6, <1>10, <1>11, <1>12 DEF EditSound

(* A clear sends commands about what is known. *)
LEMMA ClearTyped ==
  ASSUME NEW m \in Nat, edit.shown \in GraphUpTo(m)
  PROVE  ClearEvents \in Seq(EventUpTo(m + 1))
  <1> DEFINE nodes == edit.shown.nodes
             ns == InOrder(nodes)
  <1>1. nodes \in SUBSET NodeUpTo(m) /\ IsFiniteSet(nodes)
    BY GraphIs DEF IsKeyed
  <1>2. NodeUpTo(m) \subseteq NodeUpTo(m + 1)
    BY KnownGrows
  <1> HIDE DEF nodes
  <1>3. ns \in Seq(nodes)
    BY <1>1, InOrderCovers
  <1> HIDE DEF ns
  <1>4. nodes \subseteq NodeUpTo(m + 1)
    BY <1>1, <1>2
  <1>5. ns \in Seq(NodeUpTo(m + 1))
    BY <1>3, <1>4
  <1>6. NodesDeleted(ns) \in Seq(EventUpTo(m + 1))
    BY <1>5, EventsTyped
  <1> QED
    BY <1>6 DEF ClearEvents, ns, nodes

(* An import that clears the graph first. *)
LEMMA ReplacesKeeps ==
  ASSUME EditSound(edit), Replaces
  PROVE  EditSound(edit')
  <1> DEFINE m == edit.made
             todo == ClearEvents
  <1>1. EditTyped(edit) /\ HurtFits(edit) /\ StacksSound(edit)
    BY DEF EditSound
  <1>2. Begins("replace", todo, <<>>)
    BY DEF Replaces
  <1>3. m \in Nat /\ edit.shown \in GraphUpTo(m)
    BY <1>1, <1>2, BeginsIs DEF EditTyped
  <1>4. todo \in Seq(EventUpTo(m + 1))
    BY <1>3, ClearTyped
  <1> HIDE DEF todo
  <1>6. EditTyped(edit')
    BY <1>1, <1>2, <1>4, BeginsTyped DEF Gestures
  <1>7. edit.doing = Resting /\ edit'.hurt = HurtBy("replace")
    BY <1>1, <1>2, BeginsIs
  <1>8. edit'.doing = [does |-> "replace", todo |-> todo, rest |-> <<>>, isCurrent |-> IsUpToDate]
    BY <1>1, <1>2, BeginsIs
  <1>9. edit'.doing.does = "replace"
    BY <1>8
  <1>10. HurtFits(edit')
    BY <1>1, <1>7, <1>9 DEF HurtFits, HurtBy
  <1>11. StacksSound(edit') /\ ImportSound(edit')
    BY <1>9 DEF StacksSound, ImportSound
  <1> QED
    BY <1>6, <1>10, <1>11 DEF EditSound

(* A clear. *)
LEMMA ClearsKeeps ==
  ASSUME EditSound(edit), Clears
  PROVE  EditSound(edit')
  <1> DEFINE m == edit.made
             todo == ClearEvents
             d == [does |-> "clear", todo |-> todo, rest |-> <<>>, isCurrent |-> TRUE]
  <1>1. EditTyped(edit) /\ HurtFits(edit)
    BY DEF EditSound
  <1>2. /\ IsEdit(edit) /\ m \in 0 .. MaxGestures
        /\ edit.graph \in GraphUpTo(m) /\ edit.shown \in GraphUpTo(m)
    BY <1>1 DEF EditTyped
  <1>3. m \in Nat /\ m < MaxGestures /\ m + 1 \in 0 .. MaxGestures
    BY <1>2, EditConstants DEF Clears
  <1>4. todo \in Seq(EventUpTo(m + 1))
    BY <1>2, <1>3, ClearTyped
  <1>5. edit' = [edit EXCEPT !.undo = <<>>, !.redo = <<>>, !.made = m + 1, !.doing = d]
    BY DEF Clears
  <1> HIDE DEF todo
  <1>6. d.does = "clear" /\ IsDoing(d, m + 1)
    BY <1>4 DEF IsDoing, Gestures
  <1> HIDE DEF d
  <1>7. edit' = [graph |-> edit.graph, shown |-> edit.shown, undo |-> <<>>, redo |-> <<>>, doing |-> d,
                 made |-> m + 1, hurt |-> edit.hurt, base |-> edit.base]
    BY <1>2, <1>5 DEF IsEdit
  <1>8. /\ IsEdit(edit') /\ edit'.made = m + 1 /\ edit'.graph = edit.graph /\ edit'.shown = edit.shown
        /\ edit'.undo = <<>> /\ edit'.redo = <<>> /\ edit'.doing = d /\ edit'.hurt = edit.hurt
    BY <1>7 DEF IsEdit
  <1>9. GraphUpTo(m) \subseteq GraphUpTo(m + 1)
    BY <1>3, KnownGrows
  <1>10. edit'.undo \in Seq(ItemUpTo(m + 1)) /\ edit'.redo \in Seq(ItemUpTo(m + 1))
    BY <1>8
  <1>11. EditTyped(edit')
    BY <1>2, <1>3, <1>6, <1>8, <1>9, <1>10 DEF EditTyped
  <1>12. HurtFits(edit')
    BY <1>1, <1>6, <1>8 DEF HurtFits
  <1>13. StacksSound(edit') /\ ImportSound(edit')
    BY <1>6, <1>8 DEF StacksSound, ImportSound
  <1> QED
    BY <1>11, <1>12, <1>13 DEF EditSound

(* A gesture that is being carried out. *)
LEMMA DoingIs ==
  ASSUME EditTyped(edit), edit.doing.does # "nothing"
  PROVE  LET d == edit.doing IN
         /\ d = [does |-> d.does, todo |-> d.todo, rest |-> d.rest, isCurrent |-> d.isCurrent]
         /\ d.does \in Gestures /\ d.todo \in Seq(EventUpTo(edit.made))
         /\ d.does = "record" => d.rest \in ItemUpTo(edit.made)
  BY RestingIs DEF EditTyped, IsDoing

(* What changes when a command is sent. *)
LEMMA TodoChanged ==
  ASSUME NEW d, d = [does |-> d.does, todo |-> d.todo, rest |-> d.rest, isCurrent |-> d.isCurrent], NEW t
  PROVE  [d EXCEPT !.todo = t] = [does |-> d.does, todo |-> t, rest |-> d.rest, isCurrent |-> d.isCurrent]
  <1> DEFINE f == [d EXCEPT !.todo = t]
  <1>1. DOMAIN d = {"does", "todo", "rest", "isCurrent"}
    OBVIOUS
  <1>2. /\ f = [x \in {"does", "todo", "rest", "isCurrent"} |-> f[x]]
        /\ f.does = d.does /\ f.todo = t /\ f.rest = d.rest /\ f.isCurrent = d.isCurrent
    BY <1>1
  <1> HIDE DEF f
  <1> QED
    BY <1>2 DEF f

(* The parts of a list. *)
LEMMA FirstAndRest ==
  ASSUME NEW E, NEW s \in Seq(E), s # <<>>
  PROVE  Head(s) \in E /\ Tail(s) \in Seq(E)
  OBVIOUS

(* A command is sent and carried out. *)
LEMMA SendsKeeps ==
  ASSUME EditSound(edit), Sends
  PROVE  EditSound(edit')
  <1> DEFINE m == edit.made
             d == edit.doing
             todo == d.todo
             h == ApplyGraphEvent(edit.graph, Head(todo))
             c == [does |-> d.does, todo |-> Tail(todo), rest |-> d.rest, isCurrent |-> d.isCurrent]
  <1>1. EditTyped(edit) /\ HurtFits(edit) /\ StacksSound(edit) /\ ImportSound(edit)
    BY DEF EditSound
  <1>2. /\ IsEdit(edit) /\ m \in 0 .. MaxGestures
        /\ edit.graph \in GraphUpTo(m) /\ edit.shown \in GraphUpTo(m)
        /\ edit.undo \in Seq(ItemUpTo(m)) /\ edit.redo \in Seq(ItemUpTo(m))
        /\ IsDoing(d, m)
    BY <1>1 DEF EditTyped
  <1>3. d.does # "nothing" /\ todo # <<>>
    BY <1>2, RestingIs DEF Sends
  <1>4. /\ d = [does |-> d.does, todo |-> todo, rest |-> d.rest, isCurrent |-> d.isCurrent]
        /\ d.does \in Gestures /\ todo \in Seq(EventUpTo(m))
        /\ d.does = "record" => d.rest \in ItemUpTo(m)
    BY <1>1, <1>3, DoingIs
  <1>5. edit' = [edit EXCEPT !.graph = h, !.doing = c]
    <2>1. edit' = [edit EXCEPT !.graph = h, !.doing = [d EXCEPT !.todo = Tail(todo)]]
      BY <1>2 DEF Sends, IsEdit
    <2>3. [d EXCEPT !.todo = Tail(todo)] = c
      <3>1. [d EXCEPT !.todo = Tail(d.todo)] =
              [does |-> d.does, todo |-> Tail(d.todo), rest |-> d.rest, isCurrent |-> d.isCurrent]
        BY <1>4, TodoChanged
      <3> QED
        BY <3>1
    <2> QED
      BY <2>1, <2>3
  <1>6. Head(todo) \in EventUpTo(m) /\ Tail(todo) \in Seq(EventUpTo(m))
    BY <1>3, <1>4, FirstAndRest
  <1>7. h \in GraphUpTo(m)
    BY <1>2, <1>6, GraphNext
  <1>8. /\ c.does = d.does /\ c.todo = Tail(todo) /\ c.rest = d.rest /\ c.isCurrent = d.isCurrent
        /\ c = [does |-> c.does, todo |-> c.todo, rest |-> c.rest, isCurrent |-> c.isCurrent]
    OBVIOUS
  <1> HIDE DEF c, h
  <1>9. IsDoing(c, m)
    BY <1>4, <1>6, <1>8 DEF IsDoing
  <1>10. edit' = [graph |-> h, shown |-> edit.shown, undo |-> edit.undo, redo |-> edit.redo, doing |-> c,
                 made |-> m, hurt |-> edit.hurt, base |-> edit.base]
    BY <1>2, <1>5 DEF IsEdit
  <1>11. /\ IsEdit(edit') /\ edit'.made = m /\ edit'.graph = h /\ edit'.shown = edit.shown
        /\ edit'.undo = edit.undo /\ edit'.redo = edit.redo /\ edit'.doing = c /\ edit'.hurt = edit.hurt
        /\ edit'.base = edit.base
    BY <1>10 DEF IsEdit
  <1>12. EditTyped(edit')
    BY <1>2, <1>7, <1>9, <1>11 DEF EditTyped
  <1>13. HurtFits(edit')
    BY <1>1, <1>8, <1>11 DEF HurtFits
  <1>14. \A M, H : Goes(M, todo, edit.graph, H) => Goes(M, Tail(todo), h, H)
    BY <1>3, <1>4, GoesFurther DEF h
  <1>15. IsDoingNew(edit) => IsDoingNew(edit')
    BY <1>8, <1>11, <1>14 DEF IsDoingNew
  <1>16. IsUndoing(edit) => IsUndoing(edit')
    BY <1>8, <1>11, <1>14 DEF IsUndoing, HalfUndone
  <1>17. IsRedoing(edit) => IsRedoing(edit')
    BY <1>8, <1>11, <1>14 DEF IsRedoing, HalfRedone
  <1>18. StacksSound(edit')
    BY <1>1, <1>3, <1>8, <1>11, <1>15, <1>16, <1>17 DEF StacksSound
  <1>19. Importing(d.rest, todo, edit.graph) => Importing(d.rest, Tail(todo), h)
    BY <1>2, <1>3, <1>4, ImportingNext DEF h
  <1>20. ImportSound(edit')
    BY <1>1, <1>8, <1>11, <1>19 DEF ImportSound
  <1> QED
    BY <1>12, <1>13, <1>18, <1>20 DEF EditSound

(* A command fails, carried out or not. *)
LEMMA FailsKeeps ==
  ASSUME EditSound(edit), CommandFails
  PROVE  EditSound(edit')
  <1> DEFINE m == edit.made
             d == edit.doing
             todo == d.todo
             forgets == d.does \in {"clear", "refill"}
             hurt == IF forgets THEN "nothing"
                     ELSE IF d.does \in {"undo", "redo"} /\ edit.hurt \in {"nothing", d.does} THEN d.does
                     ELSE "for good"
  <1>1. EditTyped(edit) /\ HurtFits(edit) /\ StacksSound(edit)
    BY DEF EditSound
  <1>2. /\ IsEdit(edit) /\ m \in 0 .. MaxGestures
        /\ edit.graph \in GraphUpTo(m) /\ edit.shown \in GraphUpTo(m)
        /\ edit.undo \in Seq(ItemUpTo(m)) /\ edit.redo \in Seq(ItemUpTo(m))
        /\ IsDoing(d, m)
    BY <1>1 DEF EditTyped
  <1>3. d.does # "nothing" /\ todo # <<>>
    BY <1>2, RestingIs DEF CommandFails
  <1>4. d.does \in Gestures /\ todo \in Seq(EventUpTo(m))
    BY <1>1, <1>3, DoingIs
  <1>5. PICK h \in {edit.graph, ApplyGraphEvent(edit.graph, Head(todo))} :
          edit' = [edit EXCEPT !.graph = h, !.doing = Resting,
                     !.base = IF forgets THEN h ELSE edit.base, !.hurt = hurt]
    BY DEF CommandFails
  <1> DEFINE base == IF forgets THEN h ELSE edit.base
  <1>6. Head(todo) \in EventUpTo(m)
    BY <1>3, <1>4
  <1>7. h \in GraphUpTo(m)
    BY <1>2, <1>5, <1>6, GraphNext
  <1> HIDE DEF hurt, base
  <1>8. edit' = [edit EXCEPT !.graph = h, !.doing = Resting, !.base = base, !.hurt = hurt]
    BY <1>5 DEF base
  <1>10. edit' = [graph |-> h, shown |-> edit.shown, undo |-> edit.undo, redo |-> edit.redo, doing |-> Resting,
                 made |-> m, hurt |-> hurt, base |-> base]
    BY <1>2, <1>8 DEF IsEdit
  <1>11. /\ IsEdit(edit') /\ edit'.made = m /\ edit'.graph = h /\ edit'.shown = edit.shown
        /\ edit'.undo = edit.undo /\ edit'.redo = edit.redo /\ edit'.doing = Resting /\ edit'.hurt = hurt
        /\ edit'.base = base
    BY <1>10 DEF IsEdit
  <1>12. EditTyped(edit')
    BY <1>2, <1>7, <1>11 DEF EditTyped, IsDoing
  <1>a. edit'.doing.does = "nothing"
    BY <1>11, RestingIs
  <1>13. HurtFits(edit')
    <2>1. hurt \in {"nothing", "undo", "redo", "for good"}
      BY DEF hurt
    <2> QED
      BY <1>11, <1>a, <2>1 DEF HurtFits
  <1>14. \A M, H : Goes(M, todo, edit.graph, H) => h \in M
    BY <1>3, <1>4, <1>5, GoesFurther
  <1>15. IsResting(edit')
    <2>1. CASE forgets
      <3>1. hurt = "nothing" /\ base = h /\ edit.undo = <<>> /\ edit.redo = <<>>
        BY <1>1, <2>1 DEF hurt, base, StacksSound
      <3>2. StacksLead(edit')
        BY <1>11, <3>1, EmptyChains DEF StacksLead
      <3> QED
        BY <1>11, <3>1, <3>2 DEF IsResting
    <2>2. CASE ~forgets /\ d.does = "undo" /\ edit.hurt \in {"nothing", "undo"}
      <3>1. hurt = "undo" /\ base = edit.base
        BY <2>2 DEF hurt, base
      <3>2. IsUndoing(edit)
        BY <1>1, <2>2 DEF StacksSound
      <3>3. PICK M, g, k : HalfUndone(edit, M, g, k) /\ h \in M
        BY <1>14, <3>2 DEF IsUndoing
      <3>4. HalfUndone(edit', M, g, k)
        BY <1>11, <3>1, <3>3 DEF HalfUndone
      <3> QED
        BY <1>11, <3>1, <3>3, <3>4 DEF IsResting
    <2>3. CASE ~forgets /\ d.does = "redo" /\ edit.hurt \in {"nothing", "redo"}
      <3>1. hurt = "redo" /\ base = edit.base
        BY <2>3 DEF hurt, base
      <3>2. IsRedoing(edit)
        BY <1>1, <2>3 DEF StacksSound
      <3>3. PICK M, g, k : HalfRedone(edit, M, g, k) /\ h \in M
        BY <1>14, <3>2 DEF IsRedoing
      <3>4. HalfRedone(edit', M, g, k)
        BY <1>11, <3>1, <3>3 DEF HalfRedone
      <3> QED
        BY <1>11, <3>1, <3>3, <3>4 DEF IsResting
    <2>4. CASE ~forgets /\ ~(d.does \in {"undo", "redo"} /\ edit.hurt \in {"nothing", d.does})
      <3>1. hurt = "for good"
        BY <2>4 DEF hurt
      <3> QED
        BY <1>11, <3>1 DEF IsResting
    <2> QED
      BY <2>1, <2>2, <2>3, <2>4
  <1>16. StacksSound(edit') /\ ImportSound(edit')
    BY <1>15, <1>a DEF StacksSound, ImportSound
  <1> QED
    BY <1>12, <1>13, <1>16 DEF EditSound

(* What an end leaves. *)
BaseAfter(does) == IF does \in {"clear", "refill"} THEN edit.graph ELSE edit.base

HurtAfter(does) ==
  IF does \in {"clear", "refill"} \/ edit.hurt = does THEN "nothing"
  ELSE IF does = "import" THEN "for good" ELSE edit.hurt

(* What a gesture that ends changes. *)
LEMMA EndsIs ==
  ASSUME EditTyped(edit), NEW does \in Gestures, NEW undo, NEW redo, Ends(does, undo, redo)
  PROVE  /\ IsEdit(edit') /\ edit.doing.does = does /\ edit.doing.todo = <<>>
         /\ edit'.made = edit.made /\ edit'.graph = edit.graph /\ edit'.shown = edit.shown
         /\ edit'.undo = undo /\ edit'.redo = redo /\ edit'.doing = Resting /\ edit'.doing.does = "nothing"
         /\ edit'.base = BaseAfter(does) /\ edit'.hurt = HurtAfter(does)
  <1> DEFINE base == BaseAfter(does)
             hurt == HurtAfter(does)
  <1>1. IsEdit(edit)
    BY DEF EditTyped
  <1>2. /\ edit.doing.does = does /\ edit.doing.todo = <<>>
        /\ edit' = [edit EXCEPT !.doing = Resting, !.undo = undo, !.redo = redo, !.base = base, !.hurt = hurt]
    BY DEF Ends, BaseAfter, HurtAfter
  <1> HIDE DEF base, hurt
  <1>3. edit' = [graph |-> edit.graph, shown |-> edit.shown, undo |-> undo, redo |-> redo, doing |-> Resting,
                 made |-> edit.made, hurt |-> hurt, base |-> base]
    BY <1>1, <1>2 DEF IsEdit
  <1> QED
    BY <1>2, <1>3, RestingIs DEF IsEdit, base, hurt

(* And that it keeps the types. *)
LEMMA EndsTyped ==
  ASSUME EditTyped(edit), NEW does \in Gestures, NEW undo, NEW redo, Ends(does, undo, redo),
         undo \in Seq(ItemUpTo(edit.made)), redo \in Seq(ItemUpTo(edit.made))
  PROVE  EditTyped(edit')
  <1>1. /\ IsEdit(edit')
        /\ edit'.made = edit.made /\ edit'.graph = edit.graph /\ edit'.shown = edit.shown
        /\ edit'.undo = undo /\ edit'.redo = redo /\ edit'.doing = Resting
    BY EndsIs
  <1> QED
    BY <1>1 DEF EditTyped, IsDoing

(* A gesture that was recorded. *)
LEMMA EndsRecordKeeps ==
  ASSUME EditSound(edit), EndsRecord
  PROVE  EditSound(edit')
  <1> DEFINE m == edit.made
             item == edit.doing.rest
             more == Append(edit.undo, item)
  <1>1. EditTyped(edit) /\ HurtFits(edit) /\ StacksSound(edit)
    BY DEF EditSound
  <1>2. Ends("record", more, <<>>) /\ "record" \in Gestures
    BY DEF EndsRecord, Gestures
  <1>3. edit.doing.does = "record" /\ edit.doing.todo = <<>>
    BY <1>2 DEF Ends
  <1>4. item \in ItemUpTo(m) /\ edit.undo \in Seq(ItemUpTo(m))
    BY <1>1, <1>3, DoingIs DEF EditTyped
  <1>5. more \in Seq(ItemUpTo(m)) /\ <<>> \in Seq(ItemUpTo(m))
    BY <1>4
  <1> HIDE DEF more
  <1>6. EditTyped(edit')
    BY <1>1, <1>2, <1>5, EndsTyped
  <1>7. /\ edit'.graph = edit.graph /\ edit'.undo = more /\ edit'.redo = <<>> /\ edit'.doing.does = "nothing"
        /\ edit'.base = BaseAfter("record") /\ edit'.hurt = HurtAfter("record")
    BY <1>1, <1>2, EndsIs
  <1>8. edit'.base = edit.base /\ edit'.hurt = edit.hurt /\ edit.hurt \in {"nothing", "for good"}
    BY <1>1, <1>3, <1>7 DEF HurtFits, BaseAfter, HurtAfter
  <1>9. HurtFits(edit')
    BY <1>7, <1>8 DEF HurtFits
  <1>10. ASSUME edit.hurt = "nothing" PROVE StacksLead(edit')
    <2>1. IsDoingNew(edit)
      BY <1>1, <1>3, <1>10 DEF StacksSound
    <2>2. PICK M, g, h : /\ Between(M, g, item, h) /\ UndoChain(edit.base, edit.undo, g)
                         /\ Goes(M, edit.doing.todo, edit.graph, h)
      BY <2>1 DEF IsDoingNew
    <2>3. edit.graph = h
      <3>1. Len(edit.doing.todo) = 0
        BY <1>3
      <3> QED
        BY <2>2, <3>1, GoesEnds
    <2>4. UndoChain(edit.base, more, h)
      BY <1>4, <2>2, UndoPush DEF more
    <2> QED
      BY <1>7, <1>8, <2>3, <2>4, EmptyChains DEF StacksLead
  <1>11. IsResting(edit')
    BY <1>8, <1>10 DEF IsResting
  <1>12. StacksSound(edit') /\ ImportSound(edit')
    BY <1>7, <1>11 DEF StacksSound, ImportSound
  <1> QED
    BY <1>6, <1>9, <1>12 DEF EditSound

(* An undo that is done. *)
LEMMA EndsUndoKeeps ==
  ASSUME EditSound(edit), EndsUndo
  PROVE  EditSound(edit')
  <1> DEFINE m == edit.made
             item == Top(edit.undo)
             less == Popped(edit.undo)
             more == Append(edit.redo, item)
  <1>1. EditTyped(edit) /\ HurtFits(edit) /\ StacksSound(edit)
    BY DEF EditSound
  <1>2. Ends("undo", less, more) /\ "undo" \in Gestures
    BY DEF EndsUndo, Gestures
  <1>3. edit.doing.does = "undo" /\ edit.doing.todo = <<>>
    BY <1>2 DEF Ends
  <1>4. edit.undo \in Seq(ItemUpTo(m)) /\ edit.redo \in Seq(ItemUpTo(m))
    BY <1>1 DEF EditTyped
  <1>7. /\ edit'.graph = edit.graph /\ edit'.undo = less /\ edit'.redo = more /\ edit'.doing.does = "nothing"
        /\ IsEdit(edit') /\ edit'.made = m /\ edit'.shown = edit.shown /\ edit'.doing = Resting
        /\ edit'.base = BaseAfter("undo") /\ edit'.hurt = HurtAfter("undo")
    BY <1>1, <1>2, EndsIs
  <1>8. /\ edit'.base = edit.base /\ edit'.hurt \in {"nothing", "for good"}
        /\ edit'.hurt # "for good" => edit.hurt # "for good"
    BY <1>1, <1>3, <1>7 DEF HurtFits, BaseAfter, HurtAfter
  <1>9. HurtFits(edit')
    BY <1>7, <1>8 DEF HurtFits
  <1>10. ASSUME edit.hurt # "for good" PROVE StacksLead(edit')
    <2>1. IsUndoing(edit)
      BY <1>1, <1>3, <1>10 DEF StacksSound
    <2>2. PICK M, g, h : HalfUndone(edit, M, g, h) /\ Goes(M, edit.doing.todo, edit.graph, g)
      BY <2>1 DEF IsUndoing
    <2>3. edit.graph = g
      <3>1. Len(edit.doing.todo) = 0
        BY <1>3
      <3> QED
        BY <2>2, <3>1, GoesEnds
    <2>4. UndoChain(edit.base, less, g) /\ RedoChain(h, edit.redo) /\ Between(M, g, item, h)
      BY <2>2 DEF HalfUndone
    <2>5. RedoChain(g, more)
      BY <1>4, <2>4, RedoPush
    <2> QED
      BY <1>7, <1>8, <2>3, <2>4, <2>5 DEF StacksLead
  <1>11. IsResting(edit')
    BY <1>8, <1>10 DEF IsResting
  <1>12. StacksSound(edit') /\ ImportSound(edit')
    BY <1>7, <1>11 DEF StacksSound, ImportSound
  <1>13. EditTyped(edit')
    <2>1. edit.undo # <<>>
      BY <1>1, <1>3 DEF StacksSound
    <2>2. less \in Seq(ItemUpTo(m)) /\ item \in ItemUpTo(m)
      BY <1>4, <2>1, PoppedStack
    <2>3. more \in Seq(ItemUpTo(m))
      BY <1>4, <2>2
    <2> HIDE DEF less, more
    <2> QED
      BY <1>1, <1>2, <2>2, <2>3, EndsTyped
  <1> QED
    BY <1>9, <1>12, <1>13 DEF EditSound
(* A redo that is done. *)
LEMMA EndsRedoKeeps ==
  ASSUME EditSound(edit), EndsRedo
  PROVE  EditSound(edit')
  <1> DEFINE m == edit.made
             item == Top(edit.redo)
             less == Popped(edit.redo)
             more == Append(edit.undo, item)
  <1>1. EditTyped(edit) /\ HurtFits(edit) /\ StacksSound(edit)
    BY DEF EditSound
  <1>2. Ends("redo", more, less) /\ "redo" \in Gestures
    BY DEF EndsRedo, Gestures
  <1>3. edit.doing.does = "redo" /\ edit.doing.todo = <<>>
    BY <1>2 DEF Ends
  <1>4. edit.undo \in Seq(ItemUpTo(m)) /\ edit.redo \in Seq(ItemUpTo(m))
    BY <1>1 DEF EditTyped
  <1>7. /\ edit'.graph = edit.graph /\ edit'.undo = more /\ edit'.redo = less /\ edit'.doing.does = "nothing"
        /\ IsEdit(edit') /\ edit'.made = m /\ edit'.shown = edit.shown /\ edit'.doing = Resting
        /\ edit'.base = BaseAfter("redo") /\ edit'.hurt = HurtAfter("redo")
    BY <1>1, <1>2, EndsIs
  <1>8. /\ edit'.base = edit.base /\ edit'.hurt \in {"nothing", "for good"}
        /\ edit'.hurt # "for good" => edit.hurt # "for good"
    BY <1>1, <1>3, <1>7 DEF HurtFits, BaseAfter, HurtAfter
  <1>9. HurtFits(edit')
    BY <1>7, <1>8 DEF HurtFits
  <1>10. ASSUME edit.hurt # "for good" PROVE StacksLead(edit')
    <2>1. IsRedoing(edit)
      BY <1>1, <1>3, <1>10 DEF StacksSound
    <2>2. PICK M, g, h : HalfRedone(edit, M, g, h) /\ Goes(M, edit.doing.todo, edit.graph, h)
      BY <2>1 DEF IsRedoing
    <2>3. edit.graph = h
      <3>1. Len(edit.doing.todo) = 0
        BY <1>3
      <3> QED
        BY <2>2, <3>1, GoesEnds
    <2>4. UndoChain(edit.base, edit.undo, g) /\ RedoChain(h, less) /\ Between(M, g, item, h)
      BY <2>2 DEF HalfRedone
    <2>5. UndoChain(edit.base, more, h)
      BY <1>4, <2>4, UndoPush
    <2> QED
      BY <1>7, <1>8, <2>3, <2>4, <2>5 DEF StacksLead
  <1>11. IsResting(edit')
    BY <1>8, <1>10 DEF IsResting
  <1>12. StacksSound(edit') /\ ImportSound(edit')
    BY <1>7, <1>11 DEF StacksSound, ImportSound
  <1>13. EditTyped(edit')
    <2>1. edit.redo # <<>>
      BY <1>1, <1>3 DEF StacksSound
    <2>2. less \in Seq(ItemUpTo(m)) /\ item \in ItemUpTo(m)
      BY <1>4, <2>1, PoppedStack
    <2>3. more \in Seq(ItemUpTo(m))
      BY <1>4, <2>2
    <2> HIDE DEF less, more
    <2> QED
      BY <1>1, <1>2, <2>2, <2>3, EndsTyped
  <1> QED
    BY <1>9, <1>12, <1>13 DEF EditSound

(* An import, refill or clear that has ended. *)
LEMMA EndsImportKeeps ==
  ASSUME EditSound(edit), EndsImport
  PROVE  EditSound(edit')
  <1> DEFINE m == edit.made
  <1>1. EditTyped(edit) /\ HurtFits(edit) /\ StacksSound(edit)
    BY DEF EditSound
  <1>2. PICK does \in {"import", "refill", "clear"} : Ends(does, edit.undo, edit.redo)
    BY DEF EndsImport
  <1>3. does \in Gestures /\ edit.doing.does = does
    BY <1>2 DEF Gestures, Ends
  <1>4. edit.undo \in Seq(ItemUpTo(m)) /\ edit.redo \in Seq(ItemUpTo(m))
    BY <1>1 DEF EditTyped
  <1>5. EditTyped(edit')
    BY <1>1, <1>2, <1>3, <1>4, EndsTyped
  <1>6. /\ edit'.graph = edit.graph /\ edit'.undo = edit.undo /\ edit'.redo = edit.redo
        /\ edit'.doing.does = "nothing"
        /\ edit'.base = BaseAfter(does) /\ edit'.hurt = HurtAfter(does)
    BY <1>1, <1>2, <1>3, EndsIs
  <1>7. CASE does = "import"
    <2>1. edit'.hurt = "for good"
      BY <1>1, <1>6, <1>7 DEF HurtFits, HurtAfter
    <2> QED
      BY <1>5, <1>6, <2>1 DEF EditSound, HurtFits, StacksSound, ImportSound
  <1>8. CASE does \in {"clear", "refill"}
    <2>1. edit'.hurt = "nothing" /\ edit'.base = edit.graph /\ edit.undo = <<>> /\ edit.redo = <<>>
      BY <1>1, <1>3, <1>6, <1>8 DEF StacksSound, BaseAfter, HurtAfter
    <2>2. StacksLead(edit')
      BY <1>6, <2>1, EmptyChains DEF StacksLead
    <2>3. IsResting(edit')
      BY <2>1, <2>2 DEF IsResting
    <2> QED
      BY <1>5, <1>6, <2>1, <2>3 DEF EditSound, HurtFits, StacksSound, ImportSound
  <1> QED
    BY <1>7, <1>8

(* What was cleared is filled again. *)
LEMMA RefillsKeeps ==
  ASSUME EditSound(edit), Refills
  PROVE  EditSound(edit')
  <1> DEFINE m == edit.made
             todo == ImportEvents("import", edit.shown)
             wanted == Imported("import", edit.shown)
             d == [does |-> "refill", todo |-> todo, rest |-> wanted, isCurrent |-> TRUE]
  <1>1. EditTyped(edit) /\ HurtFits(edit)
    BY DEF EditSound
  <1>2. /\ IsEdit(edit) /\ m \in 0 .. MaxGestures
        /\ edit.graph \in GraphUpTo(m) /\ edit.shown \in GraphUpTo(m)
    BY <1>1 DEF EditTyped
  <1>3. m \in Nat
    BY <1>2, EditConstants
  <1>4. todo \in Seq(EventUpTo(m))
    BY <1>3, ImportTyped
  <1>5. Importing(wanted, todo, edit.graph)
    <2>1. "import" # "merge"
      OBVIOUS
    <2> QED
      BY <1>2, <1>3, <2>1, ImportBegins
  <1>6. edit' = [edit EXCEPT !.undo = <<>>, !.redo = <<>>, !.doing = d]
    BY DEF Refills
  <1> HIDE DEF todo, wanted
  <1>7. /\ d.does = "refill" /\ d.todo = todo /\ d.rest = wanted
        /\ IsDoing(d, m)
    BY <1>4 DEF IsDoing, Gestures
  <1> HIDE DEF d
  <1>8. edit' = [graph |-> edit.graph, shown |-> edit.shown, undo |-> <<>>, redo |-> <<>>, doing |-> d,
                 made |-> m, hurt |-> edit.hurt, base |-> edit.base]
    BY <1>2, <1>6 DEF IsEdit
  <1>9. /\ IsEdit(edit') /\ edit'.made = m /\ edit'.graph = edit.graph /\ edit'.shown = edit.shown
        /\ edit'.undo = <<>> /\ edit'.redo = <<>> /\ edit'.doing = d /\ edit'.hurt = edit.hurt
    BY <1>8 DEF IsEdit
  <1>10. EditTyped(edit')
    BY <1>2, <1>7, <1>9 DEF EditTyped
  <1>11. HurtFits(edit')
    BY <1>1, <1>7, <1>9 DEF HurtFits
  <1>12. StacksSound(edit')
    BY <1>7, <1>9 DEF StacksSound
  <1>13. ImportSound(edit')
    BY <1>5, <1>7, <1>9 DEF ImportSound
  <1> QED
    BY <1>10, <1>11, <1>12, <1>13 DEF EditSound

(* What the explorer draws is no part of it. *)
LEMMA SyncsKeeps ==
  ASSUME EditSound(edit), Syncs
  PROVE  EditSound(edit')
  <1>1. EditTyped(edit) /\ HurtFits(edit) /\ StacksSound(edit) /\ ImportSound(edit)
    BY DEF EditSound
  <1>2. IsEdit(edit)
    BY <1>1 DEF EditTyped
  <1>3. edit' = [graph |-> edit.graph, shown |-> edit.graph, undo |-> edit.undo, redo |-> edit.redo,
                 doing |-> edit.doing, made |-> edit.made, hurt |-> edit.hurt, base |-> edit.base]
    BY <1>2 DEF Syncs, IsEdit
  <1>4. /\ IsEdit(edit') /\ edit'.made = edit.made /\ edit'.graph = edit.graph /\ edit'.shown = edit.graph
        /\ edit'.undo = edit.undo /\ edit'.redo = edit.redo /\ edit'.doing = edit.doing
        /\ edit'.hurt = edit.hurt /\ edit'.base = edit.base
    BY <1>3 DEF IsEdit
  <1>5. EditTyped(edit')
    BY <1>1, <1>4 DEF EditTyped
  <1>6. HurtFits(edit') /\ ImportSound(edit')
    BY <1>1, <1>4 DEF HurtFits, ImportSound
  <1>7. StacksSound(edit')
    BY <1>1, <1>4 DEF StacksSound, IsResting, StacksLead, IsDoingNew, IsUndoing, IsRedoing, HalfUndone, HalfRedone
  <1> QED
    BY <1>5, <1>6, <1>7 DEF EditSound

(* The gestures that are recorded begin. *)
LEMMA GesturesKeep ==
  ASSUME EditSound(edit)
  PROVE  /\ \A label \in Label : AddsNode(label) => EditSound(edit')
         /\ \A label \in Label, n \in edit.shown.nodes : Renames(n, label) => EditSound(edit')
         /\ \A source, target \in NodeIds(edit.shown) : DrawsLink(source, target) => EditSound(edit')
         /\ \A nodes \in SUBSET edit.shown.nodes, links \in SUBSET edit.shown.links :
              Deletes(nodes, links) => EditSound(edit')
  <1> DEFINE m == edit.made
             g == edit.shown
  <1>1. EditTyped(edit)
    BY DEF EditSound
  <1>2. g \in GraphUpTo(m)
    BY <1>1 DEF EditTyped
  <1>3. \A item : Records(item) => m \in Nat /\ m < MaxGestures
    BY <1>1, BeginsIs DEF Records
  <1>4. \A label \in Label : label \in AnyLabel
    BY DEF AnyLabel
  <1>5. Fresh = <<m + 1>>
    BY DEF Fresh
  <1>6. ASSUME NEW label \in Label, AddsNode(label) PROVE EditSound(edit')
    <2> DEFINE n == [id |-> <<m + 1>>, label |-> label]
               item == Item(<<NodeCreated(n)>>, <<Deleted("node.deleted", n)>>)
    <2>1. Records(item)
      BY <1>5, <1>6 DEF AddsNode
    <2>2. Recordable(m, g, item)
      BY <1>2, <1>3, <1>4, <2>1, AddRecordable
    <2> HIDE DEF item
    <2> QED
      BY <2>1, <2>2, RecordsKeeps
  <1>7. ASSUME NEW label \in Label, NEW n \in g.nodes, Renames(n, label) PROVE EditSound(edit')
    <2> DEFINE item == Item(<<Relabelled(n, label)>>, <<Relabelled(n, n.label)>>)
    <2>1. Records(item)
      BY <1>7 DEF Renames
    <2>2. Recordable(m, g, item)
      BY <1>2, <1>3, <1>4, <2>1, RenameRecordable
    <2> HIDE DEF item
    <2> QED
      BY <2>1, <2>2, RecordsKeeps
  <1>8. ASSUME NEW source \in NodeIds(g), NEW target \in NodeIds(g), DrawsLink(source, target)
        PROVE  EditSound(edit')
    <2> DEFINE l == [id |-> <<m + 1>>, source |-> source, target |-> target]
               item == Item(<<LinkCreated(l)>>, <<Deleted("link.deleted", l)>>)
    <2>1. Records(item)
      BY <1>5, <1>8 DEF DrawsLink
    <2>2. NodeIds(g) \subseteq KnownId(m)
      BY <1>2, GraphIs DEF NodeIds, NodeUpTo
    <2>3. source \in KnownId(m) /\ target \in KnownId(m)
      BY <2>2
    <2>4. Recordable(m, g, item)
      BY <1>2, <1>3, <2>1, <2>3, LinkRecordable
    <2> HIDE DEF item
    <2> QED
      BY <2>1, <2>4, RecordsKeeps
  <1>9. ASSUME NEW nodes \in SUBSET g.nodes, NEW links \in SUBSET g.links, Deletes(nodes, links)
        PROVE  EditSound(edit')
    <2> DEFINE implicit == {l \in g.links : IsIncident(l, nodes)}
               explicit == ExplicitLinks(nodes, links)
               ns == InOrder(nodes)
               item == Item(NodesDeleted(ns) \o LinksDeleted(InOrder(explicit)),
                            NodesCreated(ns) \o LinksCreated(InOrder(implicit \cup explicit)))
    <2>1. Records(item)
      BY <1>9 DEF Deletes
    <2>2. Recordable(m, g, item)
      BY <1>2, <1>3, <2>1, DeleteRecordable
    <2> HIDE DEF item
    <2> QED
      BY <2>1, <2>2, RecordsKeeps
  <1> QED
    BY <1>6, <1>7, <1>8, <1>9

(* The initial state. *)
LEMMA EditInitSound ==
  ASSUME EditInit
  PROVE  EditSound(edit)
  <1>1. PICK g \in StartGraphs :
          edit = [graph |-> g, shown |-> g, undo |-> <<>>, redo |-> <<>>, doing |-> Resting,
                  made |-> 0, hurt |-> "nothing", base |-> g]
    BY DEF EditInit
  <1>2. /\ IsEdit(edit) /\ edit.graph = g /\ edit.shown = g /\ edit.undo = <<>> /\ edit.redo = <<>>
        /\ edit.doing = Resting /\ edit.made = 0 /\ edit.hurt = "nothing" /\ edit.base = g
    BY <1>1 DEF IsEdit
  <1>3. g \in GraphUpTo(0)
    <2>1. g \in [nodes : SUBSET OldNode, links : SUBSET OldLink] /\ IsKeyed(g.nodes) /\ IsKeyed(g.links)
      BY EditConstants
    <2>2. OldId \subseteq KnownId(0) /\ \A n \in OldNode : n \in NodeUpTo(0)
      BY OldIsKnown
    <2>3. \A l \in OldLink : l \in LinkUpTo(0)
      BY <2>2 DEF OldLink, LinkUpTo
    <2>4. g.nodes \in SUBSET NodeUpTo(0) /\ g.links \in SUBSET LinkUpTo(0)
          /\ g = [nodes |-> g.nodes, links |-> g.links]
      BY <2>1, <2>2, <2>3
    <2> QED
      BY <2>1, <2>4 DEF GraphUpTo
  <1>4. 0 \in 0 .. MaxGestures
    BY EditConstants
  <1>5. EditTyped(edit)
    BY <1>2, <1>3, <1>4 DEF EditTyped, IsDoing
  <1>6. edit.doing.does = "nothing"
    BY <1>2, RestingIs
  <1>7. HurtFits(edit)
    BY <1>2, <1>6 DEF HurtFits
  <1>8. StacksLead(edit)
    BY <1>2, EmptyChains DEF StacksLead
  <1>9. IsResting(edit)
    BY <1>2, <1>8 DEF IsResting
  <1>10. StacksSound(edit) /\ ImportSound(edit)
    BY <1>6, <1>9 DEF StacksSound, ImportSound
  <1> QED
    BY <1>5, <1>7, <1>10 DEF EditSound

EditIsSound == EditSound(edit)

(* What a step of the editor does keeps the graph between the states its      *)
(* items lead between: the inductive invariant of the gestures, the stacks    *)
(* and the imports.                                                           *)
THEOREM EditStaysSound == EditSpec => []EditIsSound
  <1>1. EditInit => EditIsSound
    BY EditInitSound DEF EditIsSound
  <1>2. EditIsSound /\ [EditStep]_edit => EditIsSound'
    <2> SUFFICES ASSUME EditSound(edit), [EditStep]_edit PROVE EditSound(edit')
      BY DEF EditIsSound
    <2>1. CASE UNCHANGED edit
      BY <2>1
    <2>2. CASE \E label \in Label : AddsNode(label) \/ \E n \in edit.shown.nodes : Renames(n, label)
      BY <2>2, GesturesKeep
    <2>3. CASE \E source, target \in NodeIds(edit.shown) : DrawsLink(source, target)
      BY <2>3, GesturesKeep
    <2>4. CASE \E nodes \in SUBSET edit.shown.nodes, links \in SUBSET edit.shown.links : Deletes(nodes, links)
      BY <2>4, GesturesKeep
    <2>5. CASE Undoes \/ Redoes
      BY <2>5, UndoesKeeps, RedoesKeeps
    <2>6. CASE (\E mode \in {"merge", "add"} : Imports(mode)) \/ Replaces \/ Clears
      BY <2>6, ImportsKeeps, ReplacesKeeps, ClearsKeeps
    <2>7. CASE Sends \/ CommandFails
      BY <2>7, SendsKeeps, FailsKeeps
    <2>8. CASE EndsRecord \/ EndsUndo \/ EndsRedo \/ EndsImport \/ Refills
      BY <2>8, EndsRecordKeeps, EndsUndoKeeps, EndsRedoKeeps, EndsImportKeeps, RefillsKeeps
    <2>9. CASE Syncs
      BY <2>9, SyncsKeeps
    <2> QED
      BY <2>1, <2>2, <2>3, <2>4, <2>5, <2>6, <2>7, <2>8, <2>9 DEF EditStep
  <1> QED
    BY <1>1, <1>2, PTL DEF EditSpec

(* Undoing everything leads back to where the stacks began, and redoing       *)
(* everything and undoing that leads back here: whatever was recorded, and    *)
(* after any number of failures that were tried again (recordMultiDelete,     *)
(* UndoRedoManager.undo and redo).                                            *)
THEOREM UndoLeadsBack == EditSpec => []UndoRestores
  <1>1. EditIsSound => UndoRestores
    BY RestoresFollows DEF EditIsSound
  <1> QED
    BY <1>1, EditStaysSound, PTL

(* An import that ends without an error has brought the whole file, with the  *)
(* links, whatever it merges with and whatever failed before it (importGraph).*)
THEOREM ImportBringsAll == EditSpec => []ImportWhole
  <1>1. EditIsSound => ImportWhole
    BY WholeFollows DEF EditIsSound
  <1> QED
    BY <1>1, EditStaysSound, PTL
==============================================================================
