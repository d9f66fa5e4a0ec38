------------------------------ MODULE Runtime -------------------------------
(***************************************************************************)
(* RuntimeLocal: an event store, a projection of it for one principal, and *)
(* a file of snapshots from which the projection is rebuilt at start.  One *)
(* process has a runtime for each Root; the command line is the case of    *)
(* one start, one read or write, one stop.                                 *)
(*                                                                         *)
(* The projection counts: a view is a cursor and a number of nodes, one    *)
(* for each visible transaction.  A write is the kernel's commit, of which *)
(* Kernel and FileStore tell more; one that fails is not in this module.   *)
(***************************************************************************)
EXTENDS Gateway

CONSTANTS Root, Reader,
          Torn,       \* a file that is being written
          Shared,     \* the state of a store that found no file
          Scope,      \* visibility policies, "off" for none
          Unnamed,    \* the scope of a snapshot whose id has none
          HiddenIn,   \* [Scope \cup {Unnamed} -> what it hides from the principal]
          MinTx,      \* snapshotPolicy.minTx, 0 if absent
          MaxTx,      \* replayBudget.maxTx
          MaxExits    \* processes that end

VARIABLES src,    \* the event store of each root
          disk,   \* its snapshot file and the temporary one
          rt,     \* its runtime, with projection engine and snapshot store
          empty,  \* EMPTY_STATE, one for all snapshot stores of the process
          scope,  \* the policy the process runs under
          reads,  \* the call of read() each reader makes
          exits

Snapshot == [scope : Scope \cup {Unnamed}, cursor : Nat, count : Nat, compact : BOOLEAN]

View == [cursor : Nat, count : Nat]

(* What stands for no snapshot, a torn one and the shared state is none.     *)
ASSUME RuntimeAssumption ==
  /\ \A x \in {None, Torn, Shared} : x \notin Snapshot /\ x \notin View
  /\ None # Torn /\ None # Shared /\ Unnamed \notin Scope
  /\ MinTx \in Nat /\ MaxTx \in Nat

runtimeVars == <<src, disk, rt, empty, scope, reads, exits>>

NoView == [cursor |-> 0, count |-> 0]

Fresh(policy) == [policy |-> policy, started |-> FALSE, at |-> "idle", then |-> "idle",
                  cache |-> None, state |-> None, rebuilt |-> NoView, applied |-> 0]

NoRead == [at |-> "idle"]

Visible(r) == CountVisibleTxs(src[r], HiddenIn[scope])

NewRuntimes == {[r \in Root |-> Fresh(p[r])] : p \in [Root -> BOOLEAN]}

(* A file may have been written before snapshots were compacted, or before   *)
(* their ids named a policy.                                                 *)
OldSnapshots == {[scope |-> s, cursor |-> 0, count |-> 0, compact |-> FALSE] : s \in {scope, Unnamed}}

RuntimeInit ==
  /\ scope \in Scope
  /\ src = [r \in Root |-> EmptySpace]
  /\ disk \in [Root -> [file : {None} \cup OldSnapshots, temp : {None}]]
  /\ rt \in NewRuntimes
  /\ empty = None
  /\ reads = [c \in Reader |-> NoRead]
  /\ exits = 0

-----------------------------------------------------------------------------
(* The snapshot store.  It keeps one snapshot of the principal; a store      *)
(* that finds no file takes the shared empty state for its own.              *)

IsShared(x) == x.state = Shared

Contents(x) == IF IsShared(x) THEN empty ELSE x.state

LoadState(r) == IF rt[r].state # None THEN rt[r].state
                ELSE IF disk[r].file = None THEN Shared ELSE disk[r].file

(* saveSnapshot up to its first await, for a runtime that is loaded. *)
SaveSnapshot(x, r, s) ==
  IF IsShared(x) THEN empty' = s /\ rt' = [rt EXCEPT ![r] = x]
  ELSE empty' = empty /\ rt' = [rt EXCEPT ![r] = [x EXCEPT !.state = s]]

(* Mutant: the file is written in place. *)
OpensTemp_InPlace(r) ==
  /\ rt[r].at = "open"
  /\ disk' = [disk EXCEPT ![r] = [file |-> Torn, temp |-> Torn]]
  /\ rt' = [rt EXCEPT ![r].at = "write"]
  /\ UNCHANGED <<src, empty, scope, reads, exits>>

(* persistState: open and truncate the temporary file, write it, rename it. *)
OpensTemp(r) ==
  /\ rt[r].at = "open"
  /\ disk' = [disk EXCEPT ![r].temp = Torn]
  /\ rt' = [rt EXCEPT ![r].at = "write"]
  /\ UNCHANGED <<src, empty, scope, reads, exits>>

WritesTemp(r) ==
  /\ rt[r].at = "write"
  /\ disk' = [disk EXCEPT ![r].temp = Contents(rt[r])]
  /\ rt' = [rt EXCEPT ![r].at = "rename"]
  /\ UNCHANGED <<src, empty, scope, reads, exits>>

RenamesTemp(r) ==
  /\ rt[r].at = "rename"
  /\ disk' = [disk EXCEPT ![r] = [file |-> @.temp, temp |-> None]]
  /\ rt' = [rt EXCEPT ![r].at = rt[r].then]
  /\ UNCHANGED <<src, empty, scope, reads, exits>>

-----------------------------------------------------------------------------
(* PrincipalProjectionEngine *)

(* isSnapshotReusable *)
Reusable(s) == s # None /\ (scope = "off" \/ s.scope \in {scope, Unnamed})

(* normalizeSnapshotPayload: the list of a compacted snapshot is empty.      *)
CountOf(s) == IF s.compact /\ s.scope # scope THEN 0 ELSE s.count

(* compactSnapshotPayload, under the snapshotId of the scope. *)
Compacted(cursor, count) == [scope |-> scope, cursor |-> cursor, count |-> count, compact |-> TRUE]

NeedsCompaction(s) == ~s.compact \/ s.scope # scope

(* rebuildInternal, and the delta of incremental: the limit cuts nothing off *)
(* (MAX_SAFE_INTEGER).                                                       *)
Advance(r, view) ==
  LET read == ReadPrincipalTxRange(src[r], HiddenIn[scope], view.cursor, Len(src[r].txIndex)) IN
  [cursor |-> read.cursor, count |-> view.count + Len(read.txs)]

Seed(s) == IF Reusable(s) THEN [cursor |-> s.cursor, count |-> CountOf(s)] ELSE NoView

CompactsSnapshots(r) ==
  /\ rt[r].at = "compact"
  /\ LET s == Contents(rt[r]) IN
     IF Reusable(s) /\ NeedsCompaction(s)
       THEN SaveSnapshot([rt[r] EXCEPT !.at = "open", !.then = "decide"], r,
                         Compacted(s.cursor, CountOf(s)))
       ELSE rt' = [rt EXCEPT ![r].at = "decide"] /\ empty' = empty
  /\ UNCHANGED <<src, disk, scope, reads, exits>>

(* rebuildWithSnapshot, to the save *)
(* Mutant: the snapshot is seeded whatever policy it was taken under. *)
RebuildsWithSnapshot_AnyScope(r) ==
  /\ rt[r].at = "rebuild"
  /\ LET s    == Contents(rt[r])
         seed == IF s = None THEN NoView ELSE [cursor |-> s.cursor, count |-> CountOf(s)]
         view == Advance(r, seed)
     IN  SaveSnapshot([rt[r] EXCEPT !.at = "open", !.then = "finish", !.rebuilt = view,
                                    !.applied = view.cursor - seed.cursor],
                      r, Compacted(view.cursor, view.count))
  /\ UNCHANGED <<src, disk, scope, reads, exits>>

(* Mutant: the replay budget is enforced before the snapshot is saved. *)
RebuildsWithSnapshot_BudgetFirst(r) ==
  /\ rt[r].at = "rebuild"
  /\ LET seed == Seed(Contents(rt[r]))
         view == Advance(r, seed)
     IN  IF view.cursor - seed.cursor > MaxTx
           THEN rt' = [rt EXCEPT ![r].at = "idle"] /\ empty' = empty
           ELSE SaveSnapshot([rt[r] EXCEPT !.at = "open", !.then = "finish", !.rebuilt = view],
                             r, Compacted(view.cursor, view.count))
  /\ UNCHANGED <<src, disk, scope, reads, exits>>

RebuildsWithSnapshot(r) ==
  /\ rt[r].at = "rebuild"
  /\ LET seed == Seed(Contents(rt[r]))
         view == Advance(r, seed)
     IN  SaveSnapshot([rt[r] EXCEPT !.at = "open", !.then = "finish", !.rebuilt = view,
                                    !.applied = view.cursor - seed.cursor],
                      r, Compacted(view.cursor, view.count))
  /\ UNCHANGED <<src, disk, scope, reads, exits>>

-----------------------------------------------------------------------------
(* start *)

Starts(r) ==
  /\ ~rt[r].started /\ rt[r].at = "idle"
  /\ rt' = IF rt[r].policy THEN [rt EXCEPT ![r].at = "load"] ELSE [rt EXCEPT ![r].started = TRUE]
  /\ UNCHANGED <<src, disk, empty, scope, reads, exits>>

LoadsSnapshot(r) ==
  /\ rt[r].at = "load"
  /\ rt' = [rt EXCEPT ![r].at = "compact", ![r].state = LoadState(r)]
  /\ UNCHANGED <<src, disk, empty, scope, reads, exits>>

(* shouldSnapshot; snapshots have no createdAt, so that intervalMs never     *)
(* holds one back.                                                           *)
ShouldSnapshot(r) ==
  \/ Contents(rt[r]) = None
  \/ MinTx = 0
  \/ Visible(r) - Contents(rt[r]).cursor >= MinTx

Decides(r) ==
  /\ rt[r].at = "decide"
  /\ rt' = [rt EXCEPT ![r].at = IF ShouldSnapshot(r) THEN "rebuild" ELSE "replay"]
  /\ UNCHANGED <<src, disk, empty, scope, reads, exits>>

Replays(r) ==
  /\ rt[r].at = "replay"
  /\ rt' = [rt EXCEPT ![r].cache = Advance(r, NoView), ![r].at = "idle", ![r].started = TRUE]
  /\ UNCHANGED <<src, disk, empty, scope, reads, exits>>

(* rebuildWithSnapshot after the save; enforceReplayBudget: over it, start   *)
(* fails.                                                                    *)
FinishesStart(r) ==
  /\ rt[r].at = "finish"
  /\ rt' = [rt EXCEPT ![r] = [Fresh(@.policy) EXCEPT !.state   = rt[r].state,
                                                     !.cache   = rt[r].rebuilt,
                                                     !.started = rt[r].applied <= MaxTx]]
  /\ UNCHANGED <<src, disk, empty, scope, reads, exits>>

StartStep(r) ==
  \/ LoadsSnapshot(r) \/ CompactsSnapshots(r) \/ Decides(r)
  \/ Replays(r) \/ RebuildsWithSnapshot(r) \/ FinishesStart(r)
  \/ OpensTemp(r) \/ WritesTemp(r) \/ RenamesTemp(r)

-----------------------------------------------------------------------------
(* write, read, stop *)

Writes(r, request) ==
  /\ rt[r].started
  /\ Commits(src[r], request)
  /\ src' = [src EXCEPT ![r] = AppendTx(@, request)]
  /\ UNCHANGED <<disk, rt, empty, scope, reads, exits>>

(* incremental: the cached view, the events since, the cache again. *)
Reads(c, r) ==
  /\ rt[r].started /\ reads[c] = NoRead
  /\ reads' = [reads EXCEPT ![c] =
       [at |-> "reading", root |-> r, since |-> Visible(r),
        view |-> IF rt[r].cache = None THEN NoView ELSE rt[r].cache]]
  /\ UNCHANGED <<src, disk, rt, empty, scope, exits>>

(* Mutant: a cached view is answered as it is. *)
ReadsDelta_Cached(c) ==
  /\ reads[c].at = "reading"
  /\ reads' = [reads EXCEPT ![c].at = "read",
                            ![c].view = IF @ # NoView THEN @ ELSE Advance(reads[c].root, @)]
  /\ UNCHANGED <<src, disk, rt, empty, scope, exits>>

ReadsDelta(c) ==
  /\ reads[c].at = "reading"
  /\ reads' = [reads EXCEPT ![c].at = "read", ![c].view = Advance(reads[c].root, @)]
  /\ UNCHANGED <<src, disk, rt, empty, scope, exits>>

ReadReturns(c) ==
  /\ reads[c].at = "read"
  /\ rt' = [rt EXCEPT ![reads[c].root].cache = reads[c].view]
  /\ reads' = [reads EXCEPT ![c] = NoRead]
  /\ UNCHANGED <<src, disk, empty, scope, exits>>

Stops(r) ==
  /\ rt[r].started
  /\ rt' = [rt EXCEPT ![r].started = FALSE]
  /\ UNCHANGED <<src, disk, empty, scope, reads, exits>>

(* The process ends, at whatever it is; the next may have another policy. *)
Exits ==
  /\ exits < MaxExits
  /\ exits' = exits + 1
  /\ rt' \in NewRuntimes
  /\ empty' = None
  /\ scope' \in Scope
  /\ reads' = [c \in Reader |-> NoRead]
  /\ UNCHANGED <<src, disk>>

-----------------------------------------------------------------------------

IsFullReplay(r, view) == view.count = view.cursor /\ view.cursor <= Visible(r)

(* What the projection shows, however it came about (from a snapshot of any  *)
(* age, replayed, or step by step), is what a full replay of the visible     *)
(* transactions up to its cursor yields (rebuildWithSnapshot, incremental).  *)
ViewsAreReplays ==
  /\ \A r \in Root : rt[r].cache # None => IsFullReplay(r, rt[r].cache)
  /\ \A c \in Reader : reads[c].at = "read" => IsFullReplay(reads[c].root, reads[c].view)

(* A read sees every write that was committed before it was called, also     *)
(* when other reads put an older view back into the cache meanwhile.         *)
ReadsSeeWrites ==
  \A c \in Reader : reads[c].at = "read" => reads[c].view.cursor >= reads[c].since

(* Wherever a process ends, the next one finds the file of snapshots whole,  *)
(* and what it holds is true of the log under the policy it names            *)
(* (persistState: the rename; saveSnapshot).                                 *)
SnapshotFileSound ==
  \A r \in Root :
    LET s == disk[r].file IN
    s # None => /\ s # Torn
                /\ s.count = s.cursor
                /\ s.cursor <= CountVisibleTxs(src[r], HiddenIn[s.scope])

(* A runtime that is started again and again starts again and again: what    *)
(* exceeded the replay budget was saved, and is not replayed the next time   *)
(* (start: enforceReplayBudget after rebuildWithSnapshot).                   *)
StartsAgain == \A r \in Root : []<>rt[r].started
=============================================================================
