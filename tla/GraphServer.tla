----------------------------- MODULE GraphServer -----------------------------
(***************************************************************************)
(* mesh-graph-server: projects, each a graph space with an event store, a  *)
(* gateway and a kernel of its own, and a catalog of what is known of them *)
(* (the policy, the least readable cursor, the snapshots, newest first),   *)
(* kept in one file.                                                       *)
(*                                                                         *)
(* A command commits one transaction with one graph event, so that the     *)
(* cursor is the number of events on the graph stream.  A transaction is   *)
(* its event, and its number in the history of its project.  Creating a    *)
(* snapshot, forking one and purging a history have awaits that others get *)
(* between; there are Workers that do so.  Everything is visible to        *)
(* everyone here, and a command that the kernel rejects changes nothing.   *)
(***************************************************************************)
EXTENDS Gateway, Graph
LOCAL INSTANCE SequencesExt

CONSTANTS Project, Main,  \* projects; the one the server is started with
          Worker,         \* requests with awaits that are served at once
          DefaultPolicy,  \* [everyN, keep, maxEvents]: of a new project
          MaxMishaps      \* after so many no purge begins, no catalog is lost

VARIABLES stores,   \* the event store of each project
          catalog,  \* its record, None if there is none
          jobs,     \* what each worker is doing
          mishaps   \* what has happened that no property survives, or not all

serverVars == <<stores, catalog, jobs, mishaps>>

(* Transactions are committed under keys of their own. *)
Request(tx) == [kind |-> "append", tx |-> tx, slot |-> tx, hash |-> tx,
                n |-> [s \in Streams |-> IF s = "graph" THEN 1 ELSE 0], base |-> None]

HeadOf(sp) == CursorHead(sp)["graph"]

(* All that was ever committed: the idempotency table forgets nothing. *)
Committed(sp) == Cardinality(sp.idem)

History(sp) ==
  [i \in 1 .. Committed(sp) |-> (CHOOSE o \in sp.idem : o.receipt.tx.n = i).receipt.tx.event]

Submit(sp, event) == AppendTx(sp, Request([n |-> Committed(sp) + 1, event |-> event]))

(* What syncPull and syncPoll answer here, where a transaction is one graph *)
(* event that everyone may see: those that come after a cursor (Gateway).   *)
Page(sp, cursor, limit) ==
  LET rest == [i \in 1 .. HeadOf(sp) - cursor |-> sp.ev["graph"][cursor + i].tx]
  IN  SubSeq(rest, 1, Least(limit, Len(rest)))

GraphAt(p, k) == ApplyGraphEvents(EmptyGraph, SubSeq(History(stores[p]), 1, k))

NewProject == [min |-> 0, snapshots |-> <<>>, policy |-> DefaultPolicy]

(* ensureProject, which every request goes through *)
Record(p) == IF catalog[p] = None THEN NewProject ELSE catalog[p]

Idle == [at |-> "idle"]

ServerInit ==
  /\ stores = [p \in Project |-> EmptySpace]
  /\ catalog = [p \in Project |-> IF p = Main THEN NewProject ELSE None]
  /\ jobs = [w \in Worker |-> Idle]
  /\ mishaps = {}

-----------------------------------------------------------------------------
(* createSnapshot: read the view page by page, then the head, then save.  *)
(* The request it is done for is answered at the end.                     *)

Starting(p, requester) ==
  [at |-> "view", project |-> p, cursor |-> 0, graph |-> EmptyGraph, for |-> requester]

Takes(w, job) == jobs[w] = Idle /\ jobs' = [jobs EXCEPT ![w] = job]

Occupy(w, p, requester) == Takes(w, Starting(p, requester))

(* readGraphView: until a page is empty. *)
ReadsView(w) ==
  /\ jobs[w].at = "view"
  /\ LET page == Page(stores[jobs[w].project], jobs[w].cursor, 64) IN
     jobs' = IF page = <<>> THEN [jobs EXCEPT ![w].at = "head"]
             ELSE [jobs EXCEPT ![w].cursor = @ + Len(page),
                               ![w].graph = ApplyGraphEvents(@, [i \in DOMAIN page |-> page[i].event])]
  /\ UNCHANGED <<stores, catalog, mishaps>>

(* Mutant: the cursor is the position of the last event, counted from zero. *)
Snapshot_LastPosition(w) ==
  [cursor |-> Greatest(0, HeadOf(stores[jobs[w].project]) - 1), graph |-> Shown(jobs[w].graph)]

Snapshot(w) == [cursor |-> HeadOf(stores[jobs[w].project]), graph |-> Shown(jobs[w].graph)]

WithSnapshot(r, snapshot) == [r EXCEPT !.snapshots = <<snapshot>> \o @]

IsTorn(w) == "purge" \notin mishaps /\ Snapshot(w).graph # Shown(GraphAt(jobs[w].project, Snapshot(w).cursor))

Seals(w) ==
  /\ jobs[w].at = "head"
  /\ LET p == jobs[w].project IN catalog' = [catalog EXCEPT ![p] = WithSnapshot(Record(p), Snapshot(w))]
  /\ jobs' = [jobs EXCEPT ![w] = Idle]
  /\ mishaps' = IF IsTorn(w) THEN mishaps \cup {"torn snapshot"} ELSE mishaps
  /\ UNCHANGED stores

-----------------------------------------------------------------------------
(* Requests *)

LatestSnapshotHead(r) == IF r.snapshots = <<>> THEN 0 ELSE Head(r.snapshots).cursor

(* graph:nodes, graph:links and the others: submit, then                  *)
(* maybeCreateAutoSnapshot, before the answer.                            *)
Commands(p, event) ==
  /\ stores' = [stores EXCEPT ![p] = Submit(@, event)]
  /\ catalog' = [catalog EXCEPT ![p] = Record(p)]
  /\ IF HeadOf(stores'[p]) - LatestSnapshotHead(Record(p)) >= Greatest(1, Record(p).policy.everyN)
       THEN \E w \in Worker : Occupy(w, p, None)
       ELSE jobs' = jobs
  /\ mishaps' = mishaps

(* snapshots:create *)
CreatesSnapshot(p) ==
  /\ \E w \in Worker : Occupy(w, p, None)
  /\ UNCHANGED <<stores, catalog, mishaps>>

(* PATCH retention *)
SetsPolicy(p, policy) ==
  /\ Record(p).policy # policy
  /\ catalog' = [catalog EXCEPT ![p] = [Record(p) EXCEPT !.policy = policy]]
  /\ UNCHANGED <<stores, jobs, mishaps>>

-----------------------------------------------------------------------------
(* snapshots/:id:fork: the new project is there from the beginning, gets the *)
(* nodes and links one by one, then the source's cursor as the least it can  *)
(* be read from, and a snapshot of its own.                                  *)
Copying(q, snapshot) ==
  [at |-> "copy", project |-> q, todo |-> EventsOf(snapshot.graph), min |-> snapshot.cursor, for |-> None]

ForkBegins(p, q, i) ==
  /\ i \in DOMAIN Record(p).snapshots
  /\ \E w \in Worker : Takes(w, Copying(q, Record(p).snapshots[i]))
  /\ catalog' = [catalog EXCEPT ![q] = Record(q)]
  /\ UNCHANGED <<stores, mishaps>>

ForkCopies(w) ==
  /\ jobs[w].at = "copy" /\ jobs[w].todo # <<>>
  /\ stores' = [stores EXCEPT ![jobs[w].project] = Submit(@, Head(jobs[w].todo))]
  /\ jobs' = [jobs EXCEPT ![w].todo = Tail(@)]
  /\ UNCHANGED <<catalog, mishaps>>

HasLost(sp) == HeadOf(sp) < Committed(sp)

(* It is a mishap if others have purged the project before, or follow it and *)
(* have not come as far (Explorer).                                          *)
ForkSets(w, isFollowed) ==
  /\ jobs[w].at = "copy" /\ jobs[w].todo = <<>>
  /\ LET q == jobs[w].project IN
     /\ catalog' = [catalog EXCEPT ![q] = [Record(q) EXCEPT !.min = jobs[w].min]]
     /\ jobs' = [jobs EXCEPT ![w] = Starting(q, None)]
     /\ mishaps' = IF isFollowed \/ HasLost(stores[q]) THEN mishaps \cup {"half-made fork"} ELSE mishaps
  /\ UNCHANGED stores

-----------------------------------------------------------------------------
(* purgeHistory, for a request or for runRetentionJob: the snapshots are     *)
(* those at its beginning.  Of those that need not be kept, the candidates   *)
(* are behind the head by maxEvents, or old enough: the clock decides which. *)
(* The cut is the one with the greatest cursor.                              *)
PurgeBegins(p) ==
  LET shots == Record(p).snapshots
      keep  == Greatest(1, Record(p).policy.keep)
  IN  /\ Cardinality(mishaps) < MaxMishaps
      /\ Len(shots) > keep
      /\ \E w \in Worker :
           Takes(w, [at |-> "purge", project |-> p, shots |-> shots, keep |-> keep, for |-> None])
      /\ UNCHANGED <<stores, catalog, mishaps>>

Candidates(job) ==
  LET p        == job.project
      eligible == (job.keep + 1) .. Len(job.shots)
      behind   == {i \in eligible : HeadOf(stores[p]) - job.shots[i].cursor >= Record(p).policy.maxEvents}
  IN  {behind \cup (k .. Len(job.shots)) : k \in eligible \cup {Len(job.shots) + 1}}

CutOf(shots, candidates) ==
  CHOOSE i \in candidates :
    \A j \in candidates : \/ shots[i].cursor > shots[j].cursor
                          \/ shots[i].cursor = shots[j].cursor /\ i <= j

Cutting(p, shots, i) ==
  [at |-> "cut", project |-> p, min |-> shots[i].cursor, kept |-> SubSeq(shots, 1, i), for |-> None]

ChoosesCut(w) ==
  LET job == jobs[w] IN
  /\ job.at = "purge"
  /\ \E candidates \in Candidates(job) :
       jobs' = [jobs EXCEPT ![w] = IF candidates = {} THEN Idle
                                   ELSE Cutting(job.project, job.shots, CutOf(job.shots, candidates))]
  /\ UNCHANGED <<stores, catalog, mishaps>>

(* Mutant: the log is cut at its head. *)
Purged_AtHead(sp, cursor) == Compact(sp, HeadOf(sp) + 1)

(* The cursor of the cut counts events; compactUpToCursor takes it for the *)
(* number of a transaction.                                                *)
Purged(sp, cursor) == Compact(sp, cursor)

IsRecording(w, p) == jobs[w].at = "record" /\ jobs[w].project = p

(* Of transactions that were numbered anew, or whose numbers another purge  *)
(* is about to make the least cursor.                                       *)
IsRepeated(w, p) == HasLost(stores[p]) \/ \E v \in Worker \ {w} : IsRecording(v, p)

Compacts(w) ==
  /\ jobs[w].at = "cut"
  /\ LET p == jobs[w].project IN
     /\ stores' = [stores EXCEPT ![p] = Purged(@, jobs[w].min)]
     /\ mishaps' = mishaps \cup IF IsRepeated(w, p) THEN {"purge", "repeated purge"} ELSE {"purge"}
  /\ jobs' = [jobs EXCEPT ![w].at = "record"]
  /\ UNCHANGED catalog

(* The snapshots that were created since the beginning are gone. *)
RecordsPurge(w) ==
  LET job == jobs[w]
      p   == job.project
  IN  /\ job.at = "record"
      /\ catalog' = [catalog EXCEPT ![p] = [Record(p) EXCEPT !.min = job.min, !.snapshots = job.kept]]
      /\ jobs' = [jobs EXCEPT ![w] = Idle]
      /\ UNCHANGED <<stores, mishaps>>

(* The server stops and is started again.  A catalog that was being saved, *)
(* which every command and snapshot does, is not there any more.           *)
RestartsServer ==
  /\ \/ /\ catalog' = catalog
        /\ mishaps' = IF \E w \in Worker : jobs[w].at = "record" THEN mishaps \cup {"purge cut short"}
                      ELSE mishaps
     \/ /\ Cardinality(mishaps) < MaxMishaps
        /\ catalog' = [p \in Project |-> IF p = Main THEN NewProject ELSE None]
        /\ mishaps' = mishaps \cup {"catalog lost"}
  /\ jobs' = [w \in Worker |-> Idle]
  /\ UNCHANGED stores

-----------------------------------------------------------------------------
(* The numbers of the transactions that can still be read. *)
TailOf(sp) == [i \in DOMAIN sp.ev["graph"] |-> sp.ev["graph"][i].tx.n]

(* A purge takes the transactions before its cut and no other: what is left *)
(* is the end of the history, in order and without a hole, and what is gone *)
(* is not after the least readable cursor once that is recorded.  It is so  *)
(* until a project of which something is gone is purged again: purgeHistory *)
(* gives the cursor of a snapshot, a number of events, to compactUpToCursor *)
(* as the number of a transaction, and new transactions have low numbers.   *)
PurgeKeepsTail ==
  "repeated purge" \notin mishaps =>
    \A p \in Project :
      LET tail == TailOf(stores[p])
          lost == Committed(stores[p]) - Len(tail)
      IN  /\ \A i \in DOMAIN tail : tail[i] = lost + i
          /\ \/ lost <= Record(p).min
             \/ \E w \in Worker : IsRecording(w, p)
             \/ {"catalog lost", "purge cut short", "half-made fork"} \cap mishaps # {}

(* No snapshot contains an event after its cursor, which would be applied   *)
(* again by those who start from it: a snapshot that was read while         *)
(* commands came in only lacks the last of them (createSnapshot: the view   *)
(* is read before the head).                                                *)
SnapshotsNotAhead ==
  "purge" \notin mishaps =>
    \A p \in Project : \A i \in DOMAIN Record(p).snapshots :
      LET s == Record(p).snapshots[i] IN
      \E k \in 0 .. s.cursor : s.graph = Shown(GraphAt(p, k))

(* A snapshot is the full graph projection (PROJECT_SNAPSHOT_RETENTION.md):  *)
(* a node that was in a snapshot and was never deleted is in the later ones. *)
SnapshotsFull ==
  \A p \in Project :
    LET shots == Record(p).snapshots
        kept  == {n \in NodeIds(GraphAt(p, Committed(stores[p]))) :
                    \A k \in 1 .. Committed(stores[p]) : n \in NodeIds(GraphAt(p, k))}
    IN  \A i, j \in DOMAIN shots :
          i < j => kept \cap NodeIds(shots[j].graph) \subseteq NodeIds(shots[i].graph)
=============================================================================
