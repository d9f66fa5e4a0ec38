------------------------------ MODULE Explorer ------------------------------
(***************************************************************************)
(* Mesh Explorer, in one browser tab: a store that draws the graph of one  *)
(* project, kept up to date with a graph server.  A session takes a        *)
(* snapshot, or the cached projection if it is of the same cursor, polls   *)
(* what came after, and then subscribes, going back to polling when the    *)
(* bundles it gets are not the ones that come next.                        *)
(*                                                                         *)
(* A new session aborts the requests of the last one, except the one for   *)
(* a snapshot, the answer of which is used when it comes.  That is a       *)
(* mishap here, as is a snapshot refused after a 410, together with those  *)
(* of the server, a fork that is followed before it is made among them.    *)
(***************************************************************************)
EXTENDS GraphServer

CONSTANTS MaxSessions,  \* times a project is connected to
          MaxFaults,    \* requests, streams and writes that fail, restarts
          PollLimit     \* events in an answer to a poll

ASSUME ExplorerConstants == MaxSessions \in Nat /\ PollLimit \in Nat /\ Main \in Project

VARIABLES ui,      \* the store, and what is known of the events in it
          tasks,   \* what each session is doing
          stored,  \* localStorage: cursor and cache of each project
          faults

uiVars == <<ui, tasks, stored, faults>>

Session == 1 .. MaxSessions

(* A session waits for a snapshot ("ask", "asked", "answered"), is going to  *)
(* poll, to subscribe, or to read its stream, or has come to its end.  What  *)
(* it waits for is part of the decision at its start, of the replay that     *)
(* follows, or of a fallback from the stream.                                *)
Task(p) == [at |-> "ask", in |-> "decide", project |-> p, last |-> stored[p], snapshot |-> None,
            cursor |-> 0, from |-> 0, forced |-> FALSE, stream |-> None]

Ended == [at |-> "ended"]

ExplorerInit ==
  /\ ui = [session |-> 0, project |-> Main, graph |-> EmptyGraph, cursor |-> 0,
           ingested |-> 0, seen |-> {}, pending |-> FALSE]
  /\ tasks = [s \in Session |-> Ended]
  /\ stored = [p \in Project |-> [cursor |-> None, cache |-> None]]
  /\ faults = 0

IsCurrent(s) == s = ui.session

IsSynced(s) == tasks[s] # Ended /\ tasks[s].in # "decide"

Becomes(s, task) == tasks' = [tasks EXCEPT ![s] = task]

Fault == faults < MaxFaults /\ faults' = faults + 1

-----------------------------------------------------------------------------
(* Events reach the store *)

(* persistDurableBootstrapState: the cache, then the cursor; if the cursor   *)
(* cannot be written the cache is removed.                                   *)
(* Mutant: the projection is what was drawn before the events came. *)
Saves_Before(p, u) ==
  /\ stored' = [stored EXCEPT ![p] =
       [cursor |-> u.cursor, cache |-> [cursor |-> u.cursor, graph |-> ui.graph]]]
  /\ faults' = faults

Saves(p, u) ==
  /\ stored' = [stored EXCEPT ![p] =
       [cursor |-> u.cursor, cache |-> [cursor |-> u.cursor, graph |-> u.graph]]]
  /\ faults' = faults

FailsToSave(p) == Fault /\ stored' \in {stored, [stored EXCEPT ![p].cache = None]}

Persists(p, u) == Saves(p, u) \/ FailsToSave(p)

(* applyGuardedSyncBatch: each event once, by the id it comes under, which   *)
(* is another on a stream than in an answer to a poll.                       *)
From(by, txs) == [i \in DOMAIN txs |-> [by |-> by, tx |-> txs[i]]]

DrawUnseen(u, events) ==
  LET after[i \in 0 .. Len(events)] ==
        IF i = 0 THEN u.graph
        ELSE IF events[i] \in u.seen \cup {events[j] : j \in 1 .. i - 1} THEN after[i - 1]
        ELSE ApplyGraphEvent(after[i - 1], events[i].tx.event)
  IN  after[Len(events)]

Ingest(u, events, cursor) ==
  [u EXCEPT !.graph = DrawUnseen(u, events), !.seen = @ \cup {events[i] : i \in DOMAIN events},
            !.ingested = cursor, !.cursor = cursor]

(* applyCursorIfAdvanced *)
Advances(u, cursor) == cursor > u.cursor /\ cursor > u.ingested

ApplyIfAdvanced(p, events, cursor) ==
  LET u == Ingest(ui, events, cursor) IN
  IF Advances(ui, cursor)
    THEN ui' = u /\ IF u.pending THEN UNCHANGED <<stored, faults>> ELSE Persists(p, u)
    ELSE UNCHANGED <<ui, stored, faults>>

-----------------------------------------------------------------------------
(* connectAndSync *)

IsWaiting(s) == tasks[s].at \in {"ask", "asked", "answered"}

(* connect.onclick, a project button, forkLatestSnapshot; what polls or      *)
(* reads is aborted.  Or the page is loaded anew, and nothing is left.       *)
Connects(p, isReloaded) ==
  LET s == ui.session + 1
      Stays(t) == IsWaiting(t) /\ ~isReloaded
  IN  /\ s \in Session
      /\ ui' = [session |-> s, project |-> p, graph |-> EmptyGraph, cursor |-> 0,
                ingested |-> 0, seen |-> {},
                pending |-> ui.pending /\ \E t \in Session : Stays(t) /\ tasks[t].in = "replay"]
      /\ tasks' = [t \in Session |-> IF t = s THEN Task(p) ELSE IF Stays(t) THEN tasks[t] ELSE Ended]
      /\ UNCHANGED <<serverVars, stored, faults>>

(* fetchSnapshot: the server has a snapshot, or makes one.                   *)
Answered(s, snapshot) == [tasks[s] EXCEPT !.at = "answered", !.snapshot = snapshot]

NoSnapshot == [cursor |-> 0, graph |-> EmptyGraph]

AsksSnapshot(s) ==
  /\ tasks[s].at = "ask"
  /\ LET snapshots == Record(tasks[s].project).snapshots IN
     IF snapshots # <<>>
       THEN Becomes(s, Answered(s, Head(snapshots))) /\ jobs' = jobs
       ELSE /\ \E w \in Worker : Occupy(w, tasks[s].project, s)
            /\ Becomes(s, [tasks[s] EXCEPT !.at = "asked"])
  /\ UNCHANGED <<stores, catalog, mishaps, ui, stored, faults>>

(* The answer goes to the session that asked, if it still waits.             *)
SealsFor(w) ==
  /\ Seals(w)
  /\ LET s == jobs[w].for IN
     IF s # None /\ tasks[s].at = "asked" THEN Becomes(s, Answered(s, Snapshot(w))) ELSE tasks' = tasks
  /\ UNCHANGED <<ui, stored, faults>>

(* resolveBootstrapCursorDecision, for a cache of this version and digest.   *)
(* Mutant: a cache is used whatever the snapshot. *)
UsesCache_Always(last, snapshot) == last.cache # None

UsesCache(last, snapshot) ==
  /\ last.cache # None
  /\ snapshot.cursor = IF last.cursor = None THEN 0 ELSE last.cursor
  /\ snapshot.cursor = last.cache.cursor

(* The snapshot or the cache becomes the store, also when the session is     *)
(* not the current one any more; then the replay is left at once.            *)
Bootstraps(s) ==
  /\ tasks[s].at = "answered" /\ tasks[s].in = "decide"
  /\ LET t    == tasks[s]
         used == UsesCache(t.last, t.snapshot)
     IN  /\ ui' = [ui EXCEPT !.graph = IF used THEN t.last.cache.graph ELSE t.snapshot.graph,
                             !.cursor = t.snapshot.cursor, !.ingested = t.snapshot.cursor,
                             !.pending = IsCurrent(s)]
         /\ stored' = IF t.last.cache # None /\ ~used THEN [stored EXCEPT ![t.project].cache = None]
                      ELSE stored
         /\ Becomes(s, IF IsCurrent(s)
                         THEN [t EXCEPT !.at = "poll", !.in = "replay", !.last = None, !.snapshot = None,
                                        !.cursor = t.snapshot.cursor, !.from = t.snapshot.cursor,
                                        !.forced = t.last.cache = None]
                         ELSE Ended)
  /\ mishaps' = IF IsCurrent(s) THEN mishaps ELSE mishaps \cup {"superseded session"}
  /\ UNCHANGED <<stores, catalog, jobs, faults>>

-----------------------------------------------------------------------------
(* pollReplayFromCursor *)

Polled(s) == Page(stores[tasks[s].project], tasks[s].cursor, PollLimit)

IsReadable(s) == tasks[s].cursor >= Record(tasks[s].project).min

Polls(s) ==
  /\ tasks[s].at = "poll" /\ IsReadable(s)
  /\ LET got    == Polled(s)
         cursor == tasks[s].cursor + Len(got)
     IN  /\ got # <<>>
         /\ ApplyIfAdvanced(tasks[s].project, From("poll", got), cursor)
         /\ Becomes(s, [tasks[s] EXCEPT !.cursor = cursor])
  /\ UNCHANGED serverVars

(* 410: another snapshot is fetched. *)
PollsTooOld(s) ==
  /\ tasks[s].at = "poll" /\ ~IsReadable(s)
  /\ Becomes(s, [tasks[s] EXCEPT !.at = "ask"])
  /\ UNCHANGED <<serverVars, ui, stored, faults>>

(* rebuildProjectionAfterBootstrap *)
(* Mutant: the cursor is the one the replay started from. *)
Rebuilt_FromStart(u, t, final) == [u EXCEPT !.pending = FALSE, !.cursor = t.from]

Rebuilt(u, t, final) == [u EXCEPT !.pending = FALSE, !.cursor = final]

(* The end of it, with the store u; then persistBootstrapCursor. *)
FinishesReplay(s, u, final) ==
  LET t == tasks[s]
      v == Rebuilt(u, t, final)
  IN  /\ ui' = v
      /\ IF t.forced \/ final > t.from THEN Persists(t.project, v) ELSE UNCHANGED <<stored, faults>>
      /\ Becomes(s, [t EXCEPT !.at = "subscribe", !.in = "replay", !.cursor = 0, !.from = 0,
                              !.forced = FALSE, !.snapshot = None])

FinishesFallback(s, u, final) ==
  LET t == tasks[s]
      v == [u EXCEPT !.cursor = final]
  IN  /\ IF ~u.pending /\ final > t.from /\ final >= u.cursor
           THEN \/ Saves(t.project, v) /\ ui' = v
                \/ FailsToSave(t.project) /\ ui' = u
           ELSE ui' = u /\ UNCHANGED <<stored, faults>>
      /\ Becomes(s, [t EXCEPT !.at = IF t.stream = None THEN "subscribe" ELSE "stream",
                              !.cursor = 0, !.from = 0, !.snapshot = None])

Finishes(s, u, final) ==
  IF ~IsCurrent(s)
    THEN /\ ui' = [u EXCEPT !.pending = @ /\ tasks[s].in # "replay"]
         /\ Becomes(s, Ended)
         /\ UNCHANGED <<stored, faults>>
    ELSE IF tasks[s].in = "replay" THEN FinishesReplay(s, u, final) ELSE FinishesFallback(s, u, final)

PollsNothing(s) ==
  /\ tasks[s].at = "poll" /\ IsReadable(s)
  /\ Polled(s) = <<>>
  /\ Finishes(s, ui, tasks[s].cursor)
  /\ UNCHANGED serverVars

(* After a 410, the snapshot becomes the store.                              *)
BootstrapsAgain(s) ==
  /\ tasks[s].at = "answered" /\ tasks[s].in # "decide"
  /\ LET snapshot == tasks[s].snapshot IN
     Finishes(s, [ui EXCEPT !.graph = snapshot.graph, !.cursor = snapshot.cursor], snapshot.cursor)
  /\ mishaps' = IF IsCurrent(s) THEN mishaps ELSE mishaps \cup {"superseded session"}
  /\ UNCHANGED <<stores, catalog, jobs>>

-----------------------------------------------------------------------------
(* subscribeLoop; a subscription that is too old has an answer without       *)
(* frames, and is tried again.                                               *)

(* Mutant: from the head of the log. *)
StreamFrom_Head(s) == HeadOf(stores[tasks[s].project])

StreamFrom(s) == ui.cursor

Subscribes(s) ==
  /\ tasks[s].at = "subscribe"
  /\ ui.cursor >= Record(tasks[s].project).min
  /\ Becomes(s, [tasks[s] EXCEPT !.at = "stream", !.stream = [at |-> StreamFrom(s), txs |-> <<>>]])
  /\ UNCHANGED <<serverVars, ui, stored, faults>>

(* streamSubscribe: every second, what there is. *)
StreamRound(s) ==
  /\ tasks[s].at \in {"stream", "poll"} /\ tasks[s].stream # None /\ tasks[s].stream.txs = <<>>
  /\ LET at == tasks[s].stream.at
         pulled == Page(stores[tasks[s].project], at, PollLimit)
     IN  /\ pulled # <<>>
         /\ Becomes(s, [tasks[s] EXCEPT !.stream = [at |-> at + Len(pulled), txs |-> pulled]])
  /\ UNCHANGED <<serverVars, ui, stored, faults>>

(* evaluateSubscribeConvergence: do the bundles end where they should?       *)
Fits(stream) == stream.at = ui.cursor + Len(stream.txs)

ReadsBundles(s) ==
  /\ tasks[s].at = "stream" /\ tasks[s].stream.txs # <<>>
  /\ LET t   == tasks[s]
         txs == t.stream.txs
     IN  IF Fits(t.stream)
           THEN /\ ApplyIfAdvanced(t.project, From("subscribe", txs), ui.cursor + Len(txs))
                /\ Becomes(s, [t EXCEPT !.stream.txs = <<>>])
           ELSE /\ Becomes(s, [t EXCEPT !.at = "poll", !.in = "fallback", !.stream.txs = <<>>,
                                        !.cursor = ui.cursor, !.from = ui.cursor])
                /\ UNCHANGED <<ui, stored, faults>>
  /\ UNCHANGED serverVars

SessionStep(s) ==
  \/ AsksSnapshot(s) \/ Bootstraps(s) \/ Polls(s) \/ PollsTooOld(s) \/ PollsNothing(s)
  \/ BootstrapsAgain(s) \/ Subscribes(s) \/ StreamRound(s) \/ ReadsBundles(s)

-----------------------------------------------------------------------------
(* Faults *)

(* The cursor of the session is one that its project, a fork, cannot be read *)
(* from any more once it is made.                                            *)
IsFollowed(w) ==
  /\ ui.session # 0 /\ IsSynced(ui.session)
  /\ ui.project = jobs[w].project /\ ui.cursor < jobs[w].min

IsForgotten(s) == tasks[s].at = "asked" /\ \A w \in Worker : jobs[w] # Idle => jobs[w].for # s

(* fetchSnapshot: not ok is an empty snapshot, which is a mishap after a 410, *)
(* for the cursor goes back; an error is the end of the session or replay.    *)
SnapshotRefused(s) ==
  /\ Fault
  /\ Becomes(s, Answered(s, NoSnapshot))
  /\ mishaps' = IF tasks[s].in = "decide" THEN mishaps ELSE mishaps \cup {"refused snapshot"}
  /\ UNCHANGED <<stores, catalog, jobs, ui, stored>>

SnapshotBroken(s) ==
  /\ tasks[s].in = "decide"
  /\ Becomes(s, Ended)
  /\ IF IsForgotten(s) THEN faults' = faults ELSE Fault
  /\ UNCHANGED <<serverVars, ui, stored>>

ReplayBroken(s) ==
  /\ tasks[s].in # "decide"
  /\ IsForgotten(s) \/ faults < MaxFaults
  /\ Finishes(s, ui, tasks[s].cursor)
  /\ UNCHANGED serverVars

LosesSnapshot(s) ==
  /\ tasks[s].at \in {"ask", "asked"}
  /\ SnapshotRefused(s) \/ SnapshotBroken(s) \/ ReplayBroken(s)

PollFails(s) ==
  /\ tasks[s].at = "poll"
  /\ faults < MaxFaults
  /\ Finishes(s, ui, tasks[s].cursor)
  /\ UNCHANGED serverVars

StreamBreaks(s) ==
  /\ tasks[s].at = "stream"
  /\ Fault
  /\ Becomes(s, [tasks[s] EXCEPT !.at = "subscribe", !.stream = None])
  /\ UNCHANGED <<serverVars, ui, stored>>

ServerStops ==
  /\ Fault
  /\ RestartsServer
  /\ tasks' = [s \in Session |->
       IF tasks[s] = Ended THEN Ended
       ELSE [tasks[s] EXCEPT !.at = IF @ = "stream" THEN "subscribe" ELSE @, !.stream = None]]
  /\ UNCHANGED <<ui, stored>>

-----------------------------------------------------------------------------

(* Once a session has its snapshot, the store draws the graph as it was at   *)
(* its cursor: whatever was cached, replayed, streamed, lost on the way or   *)
(* tried again.  Purges, lost catalogs, torn snapshots, answers to sessions  *)
(* that are over and refused snapshots are mishaps that it does not survive  *)
(* (connectAndSync, pollReplayFromCursor, subscribeLoop).                    *)
ExplorerAgrees ==
  mishaps = {} /\ ui.session # 0 /\ IsSynced(ui.session) =>
    Shown(ui.graph) = Shown(GraphAt(ui.project, ui.cursor))

(* What is cached is the graph at the cursor it is cached with, so that a    *)
(* session may start from it (persistBootstrapCacheRecord, applyCursorIf-    *)
(* Advanced, which does not cache in the middle of a replay).                *)
CacheAgrees ==
  mishaps = {} =>
    \A p \in Project : stored[p].cache # None =>
      Shown(stored[p].cache.graph) = Shown(GraphAt(p, stored[p].cache.cursor))

(* Within a session the cursor never goes back, also over a 410 and over a   *)
(* fallback (cursor-regression in applyCursorIfAdvanced, but also the        *)
(* setCursor at the end of a replay, which compares nothing).  After a       *)
(* mishap it may: one who followed a fork while it was made is refused when  *)
(* it is, and takes an older snapshot.                                       *)
CursorMonotone ==
  [][ui'.session = ui.session /\ mishaps' = {} => ui'.cursor >= ui.cursor]_ui

(* Of what is committed, the explorer's session, if it lives, draws all.     *)
DrawsAll ==
  tasks[ui.session] # Ended => Shown(ui.graph) = Shown(GraphAt(ui.project, Committed(stores[ui.project])))

(* An explorer whose session has not died, and whose cursor is not before    *)
(* the least that its project can be read from, comes to draw all that was   *)
(* committed (pollReplayFromCursor and subscribeLoop, from each other).      *)
CatchesUp ==
  <>[](mishaps = {} /\ ui.session # 0 /\ ui.cursor >= Record(ui.project).min => DrawsAll)

(* And so does one whose cursor is before it, once the project has come that *)
(* far: on reconnect it polls (docs/recovery-endpoints-sync-v1.md), and a    *)
(* poll that is too old is answered by another snapshot (410 in pollReplay-  *)
(* FromCursor; subscribeLoop has no case for it).                            *)
ComesBack ==
  <>[](mishaps = {} /\ ui.session # 0 /\ HeadOf(stores[ui.project]) >= Record(ui.project).min => DrawsAll)
=============================================================================
