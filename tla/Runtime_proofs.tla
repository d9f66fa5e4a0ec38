---------------------------- MODULE Runtime_proofs ----------------------------
(***************************************************************************)
(* Proofs about Runtime for any number of processes and readers, any       *)
(* store, and any writers.                                                 *)
(*                                                                         *)
(* 1. SnapshotsStaySound: the file of snapshots holds a whole snapshot     *)
(*    that is true of the log.                                             *)
(* 2. ViewsStayReplays: a projection is what a full replay yields.         *)
(* 3. WritesAreRead: a read shows what was committed before it.            *)
(*                                                                         *)
(* Two hypotheses, OneRoot and PolicyKept, are conditions the code leaves  *)
(* to its user: one runtime for a process, and no policy that is switched  *)
(* off while another one's snapshots are there.                            *)
(***************************************************************************)
EXTENDS Runtime, Gateway_proofs

RuntimeNext ==
  \/ \E r \in Root : \/ Starts(r) \/ StartStep(r) \/ Stops(r)
                     \/ \E request \in AppendRequest : Writes(r, request)
  \/ \E c \in Reader : (\E r \in Root : Reads(c, r)) \/ ReadsDelta(c) \/ ReadReturns(c)
  \/ Exits

RuntimeSpec == RuntimeInit /\ [][RuntimeNext]_runtimeVars

(* Snapshot stores of a process share one empty state (EMPTY_STATE). *)
OneRoot == \A r, q \in Root : r = q

(* Without a policy every snapshot is reused (isSnapshotReusable). *)
PolicyKept == "off" \in Scope => Scope = {"off"}

-----------------------------------------------------------------------------
(* The inductive invariant *)

VisibleIn(sp, policy) == CountVisibleTxs(sp, HiddenIn[policy])

(* A view that a full replay of n visible transactions passes through. *)
GoodView(v, n) == \E c \in Nat : c <= n /\ v = [cursor |-> c, count |-> c]

(* A snapshot that is a view under the policy it names, or the empty one.   *)
GoodSnapshot(s, sp) ==
  \E policy \in Scope \cup {Unnamed}, c \in Nat, k \in BOOLEAN :
    /\ c <= VisibleIn(sp, policy)
    /\ policy = Unnamed => c = 0
    /\ s = [scope |-> policy, cursor |-> c, count |-> c, compact |-> k]

NoneOrGood(s, sp) == s = None \/ GoodSnapshot(s, sp)

Places == {"idle", "load", "compact", "decide", "rebuild", "replay", "finish",
           "open", "write", "rename"}

Runtimes ==
  [policy : BOOLEAN, started : BOOLEAN, at : Places, then : {"idle", "decide", "finish"},
   cache : View \cup {None}, state : Snapshot \cup {None, Shared},
   rebuilt : View, applied : Int]

Held(x, e) == IF x.state = Shared THEN e ELSE x.state

RootSound(x, e, sp, n) ==
  /\ x \in Runtimes
  /\ x.cache = None \/ GoodView(x.cache, n)
  /\ GoodView(x.rebuilt, n)
  /\ x.state = Shared \/ NoneOrGood(x.state, sp)
  /\ NoneOrGood(e, sp)
  /\ x.at \in {"open", "write"} => Held(x, e) # None

Files == [file : Snapshot \cup {None}, temp : Snapshot \cup {None, Torn}]

DiskSound(d, sp, at) ==
  /\ d \in Files
  /\ NoneOrGood(d.file, sp)
  /\ at = "rename" => GoodSnapshot(d.temp, sp)

ReadStates == {NoRead} \cup [at : {"reading", "read"}, root : Root, since : Nat, view : View]

ReadSound(c) ==
  reads[c] # NoRead =>
    /\ reads[c].at = "reading" => /\ GoodView(reads[c].view, Visible(reads[c].root))
                                  /\ reads[c].since <= Visible(reads[c].root)
    /\ reads[c].at = "read" => /\ GoodView(reads[c].view, Visible(reads[c].root))
                               /\ reads[c].since <= reads[c].view.cursor

RuntimeSound ==
  /\ scope \in Scope /\ src \in [Root -> Space]
  /\ rt \in [Root -> Runtimes] /\ disk \in [Root -> Files]
  /\ \A r \in Root : RootSound(rt[r], empty, src[r], Visible(r))
  /\ \A r \in Root : DiskSound(disk[r], src[r], rt[r].at)
  /\ reads \in [Reader -> ReadStates]
  /\ \A c \in Reader : ReadSound(c)

-----------------------------------------------------------------------------
(* Views and snapshots *)

(* The start of the log is always a good view. *)
LEMMA NoViewGood == ASSUME NEW n \in Nat PROVE GoodView(NoView, n) /\ NoView \in View
  BY DEF GoodView, NoView, View

(* Good views and snapshots have their types. *)
LEMMA GoodTypes ==
  ASSUME NEW v, NEW n, NEW sp
  PROVE  /\ GoodView(v, n) => v \in View /\ v # None
         /\ GoodSnapshot(v, sp) => v \in Snapshot /\ v # None /\ v # Shared /\ v # Torn
  <1>1. GoodView(v, n) => v \in View
    BY DEF GoodView, View
  <1>2. GoodSnapshot(v, sp) => v \in Snapshot
    BY DEF GoodSnapshot, Snapshot
  <1> QED
    BY <1>1, <1>2, RuntimeAssumption

(* A runtime that was just created. *)
LEMMA FreshType ==
  ASSUME NEW policy \in BOOLEAN
  PROVE  /\ Fresh(policy) \in Runtimes
         /\ Fresh(policy).at = "idle" /\ Fresh(policy).cache = None
         /\ Fresh(policy).state = None /\ Fresh(policy).rebuilt = NoView
  <1>1. NoView \in View
    BY DEF NoView, View
  <1> QED
    BY <1>1 DEF Fresh, Runtimes, Places

(* What can be seen is counted. *)
LEMMA VisibleNat ==
  ASSUME NEW sp \in Space, NEW policy
  PROVE  VisibleIn(sp, policy) \in Nat
  BY VisibleType DEF VisibleIn

(* The log only gets longer under them. *)
LEMMA GoodStays ==
  ASSUME NEW sp \in Space, NEW r \in AppendRequest, NEW s
  PROVE  /\ AppendTx(sp, r) \in Space
         /\ \A policy : VisibleIn(sp, policy) <= VisibleIn(AppendTx(sp, r), policy)
         /\ GoodSnapshot(s, sp) => GoodSnapshot(s, AppendTx(sp, r))
  <1>1. AppendTx(sp, r) \in Space
    BY AppendTxType
  <1>2. ASSUME NEW policy PROVE VisibleIn(sp, policy) <= VisibleIn(AppendTx(sp, r), policy)
    <2> DEFINE n == CountVisibleTxs(sp, HiddenIn[policy])
               m == CountVisibleTxs(AppendTx(sp, r), HiddenIn[policy])
    <2>1. n \in Nat
      BY VisibleType
    <2>2. m = IF r.tx \in HiddenIn[policy] THEN n ELSE n + 1
      BY VisibleGrows DEF CountVisibleTxs
    <2> HIDE DEF n, m
    <2>3. n <= m
      BY <2>1, <2>2
    <2> QED
      BY <2>3 DEF n, m, VisibleIn
  <1>3. ASSUME GoodSnapshot(s, sp) PROVE GoodSnapshot(s, AppendTx(sp, r))
    <2>1. PICK policy \in Scope \cup {Unnamed}, c \in Nat, k \in BOOLEAN :
            /\ c <= VisibleIn(sp, policy)
            /\ policy = Unnamed => c = 0
            /\ s = [scope |-> policy, cursor |-> c, count |-> c, compact |-> k]
      BY <1>3 DEF GoodSnapshot
    <2>2. VisibleIn(sp, policy) \in Nat /\ VisibleIn(AppendTx(sp, r), policy) \in Nat
      BY <1>1, VisibleNat
    <2>3. c <= VisibleIn(AppendTx(sp, r), policy)
      BY <1>2, <2>1, <2>2
    <2> QED
      BY <2>1, <2>3 DEF GoodSnapshot
  <1> QED
    BY <1>1, <1>2, <1>3

(* A good view is brought to the end of the log, as a replay would be. *)
LEMMA AdvanceGood ==
  ASSUME NEW r \in Root, src[r] \in Space, NEW v, GoodView(v, Visible(r))
  PROVE  /\ Advance(r, v) = [cursor |-> Visible(r), count |-> Visible(r)]
         /\ GoodView(Advance(r, v), Visible(r))
  <1> DEFINE n == Visible(r)
  <1>1. n \in Nat /\ n = CountVisibleTxs(src[r], HiddenIn[scope])
    BY VisibleType DEF Visible
  <1>2. PICK c \in Nat : c <= n /\ v = [cursor |-> c, count |-> c]
    BY DEF GoodView
  <1> DEFINE limit == Len(src[r].txIndex)
  <1>a. limit \in Nat /\ n <= limit
    BY <1>1, VisibleBounded
  <1> HIDE DEF limit
  <1>3. RangeLen(n, c, limit) = n - c /\ n - c \in Nat /\ c + (n - c) = n
    BY <1>1, <1>2, <1>a DEF RangeLen, Least
  <1>4. PICK txs : /\ ReadPrincipalTxRange(src[r], HiddenIn[scope], c, limit)
                        = [txs |-> txs, cursor |-> c + (n - c)]
                   /\ IsPart(txs, VisibleTxs(src[r], HiddenIn[scope]), c, n - c)
    BY <1>1, <1>2, <1>3, <1>a, RangeProperties
  <1>5. Len(txs) = n - c
    BY <1>4 DEF IsPart
  <1>6. v.cursor = c /\ v.count = c
    BY <1>2
  <1>7. Advance(r, v) = [cursor |-> c + (n - c), count |-> c + (n - c)]
    BY <1>4, <1>5, <1>6 DEF Advance, limit
  <1>8. Advance(r, v) = [cursor |-> n, count |-> n]
    BY <1>3, <1>7
  <1>9. GoodView(Advance(r, v), n)
    BY <1>1, <1>8 DEF GoodView
  <1> QED
    BY <1>8, <1>9

(* A snapshot that is reused is a view under the policy in force.           *)
LEMMA ReusedIsCurrent ==
  ASSUME PolicyKept, scope \in Scope, NEW sp \in Space, NEW s, NoneOrGood(s, sp), Reusable(s)
  PROVE  \E c \in Nat : c <= VisibleIn(sp, scope) /\ s.cursor = c /\ CountOf(s) = c
  <1>1. s # None /\ GoodSnapshot(s, sp)
    BY DEF Reusable, NoneOrGood
  <1>2. PICK policy \in Scope \cup {Unnamed}, c \in Nat, k \in BOOLEAN :
          /\ c <= VisibleIn(sp, policy)
          /\ policy = Unnamed => c = 0
          /\ s = [scope |-> policy, cursor |-> c, count |-> c, compact |-> k]
    BY <1>1 DEF GoodSnapshot
  <1>3. s.scope = policy /\ s.cursor = c /\ s.count = c
    BY <1>2
  <1>4. policy = scope \/ policy = Unnamed
    BY <1>3 DEF Reusable, PolicyKept
  <1>5. CountOf(s) = c
    BY <1>2, <1>3, <1>4 DEF CountOf
  <1>6. c <= VisibleIn(sp, scope)
    BY <1>2, <1>4, VisibleNat
  <1> QED
    BY <1>3, <1>5, <1>6

(* What a projection starts from is a good view. *)
LEMMA SeedGood ==
  ASSUME PolicyKept, scope \in Scope, NEW r \in Root, src[r] \in Space,
         NEW s, NoneOrGood(s, src[r])
  PROVE  GoodView(Seed(s), Visible(r))
  <1>1. Visible(r) \in Nat /\ Visible(r) = VisibleIn(src[r], scope)
    BY VisibleNat DEF Visible, VisibleIn
  <1>2. CASE Reusable(s)
    <2>1. PICK c \in Nat : c <= VisibleIn(src[r], scope) /\ s.cursor = c /\ CountOf(s) = c
      BY <1>2, ReusedIsCurrent
    <2>2. Seed(s) = [cursor |-> c, count |-> c]
      BY <1>2, <2>1 DEF Seed
    <2> QED
      BY <1>1, <2>1, <2>2 DEF GoodView
  <1>3. CASE ~Reusable(s)
    BY <1>1, <1>3, NoViewGood DEF Seed
  <1> QED
    BY <1>2, <1>3

(* A good view makes a good snapshot under the policy in force. *)
LEMMA CompactedGood ==
  ASSUME scope \in Scope, NEW sp, NEW c \in Nat, c <= VisibleIn(sp, scope)
  PROVE  GoodSnapshot(Compacted(c, c), sp)
  BY RuntimeAssumption DEF GoodSnapshot, Compacted

-----------------------------------------------------------------------------
(* The steps *)

(* A step of the one runtime, which leaves the store and the reads alone. *)
LEMMA RootMoves ==
  ASSUME RuntimeSound, OneRoot, NEW r \in Root, NEW x, NEW d, NEW e,
         rt' = [rt EXCEPT ![r] = x], disk' = [disk EXCEPT ![r] = d], empty' = e,
         RootSound(x, e, src[r], Visible(r)), DiskSound(d, src[r], x.at),
         UNCHANGED <<src, scope, reads>>
  PROVE  RuntimeSound'
  <1>1. /\ rt \in [Root -> Runtimes] /\ disk \in [Root -> Files]
        /\ x \in Runtimes /\ d \in Files
    BY DEF RuntimeSound, RootSound, DiskSound
  <1>2. /\ rt' \in [Root -> Runtimes] /\ disk' \in [Root -> Files]
        /\ rt'[r] = x /\ disk'[r] = d
    BY <1>1
  <1>3. \A q \in Root : q = r
    BY DEF OneRoot
  <1>4. \A q \in Root : Visible(q)' = Visible(q)
    BY DEF Visible
  <1>5. \A q \in Root : RootSound(rt'[q], empty', src'[q], Visible(q)')
    BY <1>2, <1>3, <1>4
  <1>6. \A q \in Root : DiskSound(disk'[q], src'[q], rt'[q].at)
    BY <1>2, <1>3
  <1>7. reads \in [Reader -> ReadStates] /\ \A c \in Reader : ReadSound(c)
    BY DEF RuntimeSound
  <1>8. ASSUME NEW c \in Reader PROVE ReadSound(c)'
    BY <1>7, <1>8 DEF ReadSound, Visible
  <1>9. scope' \in Scope /\ src' \in [Root -> Space] /\ reads' \in [Reader -> ReadStates]
    BY DEF RuntimeSound
  <1> QED
    BY <1>2, <1>5, <1>6, <1>8, <1>9 DEF RuntimeSound

(* What is known of the one runtime before a step of it. *)
LEMMA RootFacts ==
  ASSUME RuntimeSound, NEW r \in Root
  PROVE  /\ scope \in Scope /\ src[r] \in Space /\ Visible(r) \in Nat
         /\ Visible(r) = VisibleIn(src[r], scope)
         /\ RootSound(rt[r], empty, src[r], Visible(r))
         /\ DiskSound(disk[r], src[r], rt[r].at)
         /\ NoneOrGood(Contents(rt[r]), src[r])
         /\ Contents(rt[r]) = Held(rt[r], empty)
         /\ rt[r] \in Runtimes /\ disk[r] \in Files
         /\ [rt EXCEPT ![r] = rt[r]] = rt /\ [disk EXCEPT ![r] = disk[r]] = disk
  <1>1. /\ scope \in Scope /\ src[r] \in Space
        /\ RootSound(rt[r], empty, src[r], Visible(r))
        /\ DiskSound(disk[r], src[r], rt[r].at)
        /\ rt \in [Root -> Runtimes] /\ disk \in [Root -> Files]
    BY DEF RuntimeSound
  <1>2. Visible(r) \in Nat /\ Visible(r) = VisibleIn(src[r], scope)
    BY <1>1, VisibleType DEF Visible, VisibleIn
  <1>3. Contents(rt[r]) = Held(rt[r], empty) /\ NoneOrGood(Contents(rt[r]), src[r])
    BY <1>1 DEF Contents, IsShared, Held, RootSound
  <1>4. [rt EXCEPT ![r] = rt[r]] = rt /\ [disk EXCEPT ![r] = disk[r]] = disk
    BY <1>1
  <1> QED
    BY <1>1, <1>2, <1>3, <1>4 DEF RootSound, DiskSound

(* saveSnapshot of a good snapshot, by a runtime that is otherwise sound. *)
LEMMA SaveKeeps ==
  ASSUME RuntimeSound, OneRoot, NEW r \in Root, NEW x, NEW s,
         SaveSnapshot(x, r, s), GoodSnapshot(s, src[r]),
         x \in Runtimes, x.at = "open", x.state = rt[r].state, x.cache = rt[r].cache,
         GoodView(x.rebuilt, Visible(r)),
         UNCHANGED <<src, disk, scope, reads>>
  PROVE  RuntimeSound'
  <1>1. /\ RootSound(rt[r], empty, src[r], Visible(r)) /\ DiskSound(disk[r], src[r], rt[r].at)
        /\ [disk EXCEPT ![r] = disk[r]] = disk
    BY RootFacts
  <1>2. s # None /\ s \in Snapshot /\ s # Shared
    BY GoodTypes
  <1>3. DiskSound(disk[r], src[r], "open")
    BY <1>1 DEF DiskSound
  <1>4. CASE IsShared(x)
    <2>1. rt' = [rt EXCEPT ![r] = x] /\ empty' = s
      BY <1>4 DEF SaveSnapshot
    <2>2. RootSound(x, s, src[r], Visible(r))
      BY <1>1, <1>2, <1>4 DEF RootSound, Held, IsShared, NoneOrGood
    <2> QED
      BY <1>1, <1>3, <2>1, <2>2, RootMoves
  <1>5. CASE ~IsShared(x)
    <2> DEFINE y == [x EXCEPT !.state = s]
    <2>1. rt' = [rt EXCEPT ![r] = y] /\ empty' = empty
      BY <1>5 DEF SaveSnapshot
    <2>2. /\ y \in Runtimes /\ y.state = s /\ y.at = "open" /\ y.cache = x.cache
          /\ y.rebuilt = x.rebuilt
      BY <1>2 DEF Runtimes, Places
    <2> HIDE DEF y
    <2>3. RootSound(y, empty, src[r], Visible(r))
      BY <1>1, <1>2, <2>2 DEF RootSound, Held, NoneOrGood
    <2> QED
      BY <1>1, <1>3, <2>1, <2>2, <2>3, RootMoves
  <1> QED
    BY <1>4, <1>5

(* compactSnapshots, and rebuildWithSnapshot up to its save. *)
LEMMA CompactKeeps ==
  ASSUME RuntimeSound, OneRoot, PolicyKept, NEW r \in Root, CompactsSnapshots(r)
  PROVE  RuntimeSound'
  <1> DEFINE s == Contents(rt[r])
  <1>1. /\ scope \in Scope /\ src[r] \in Space
        /\ RootSound(rt[r], empty, src[r], Visible(r)) /\ DiskSound(disk[r], src[r], rt[r].at)
        /\ NoneOrGood(s, src[r]) /\ rt[r] \in Runtimes
        /\ [disk EXCEPT ![r] = disk[r]] = disk
    BY RootFacts
  <1>2. UNCHANGED <<src, disk, scope, reads>>
    BY DEF CompactsSnapshots
  <1>3. CASE Reusable(s) /\ NeedsCompaction(s)
    <2> DEFINE x == [rt[r] EXCEPT !.at = "open", !.then = "decide"]
    <2>1. SaveSnapshot(x, r, Compacted(s.cursor, CountOf(s)))
      BY <1>3 DEF CompactsSnapshots
    <2>2. PICK c \in Nat : c <= VisibleIn(src[r], scope) /\ s.cursor = c /\ CountOf(s) = c
      BY <1>1, <1>3, ReusedIsCurrent
    <2>3. GoodSnapshot(Compacted(s.cursor, CountOf(s)), src[r])
      BY <1>1, <2>2, CompactedGood
    <2>4. /\ x \in Runtimes /\ x.at = "open" /\ x.state = rt[r].state
          /\ x.cache = rt[r].cache /\ x.rebuilt = rt[r].rebuilt
      BY <1>1 DEF Runtimes, Places
    <2>5. GoodView(x.rebuilt, Visible(r))
      BY <1>1, <2>4 DEF RootSound
    <2> HIDE DEF x, s
    <2> QED
      BY <1>2, <2>1, <2>3, <2>4, <2>5, SaveKeeps
  <1>4. CASE ~(Reusable(s) /\ NeedsCompaction(s))
    <2> DEFINE x == [rt[r] EXCEPT !.at = "decide"]
    <2>1. rt' = [rt EXCEPT ![r] = x] /\ empty' = empty
      BY <1>1, <1>4 DEF CompactsSnapshots, RuntimeSound, Runtimes
    <2>2. /\ x \in Runtimes /\ x.at = "decide" /\ x.state = rt[r].state
          /\ x.cache = rt[r].cache /\ x.rebuilt = rt[r].rebuilt
      BY <1>1 DEF Runtimes, Places
    <2> HIDE DEF x
    <2>3. RootSound(x, empty, src[r], Visible(r)) /\ DiskSound(disk[r], src[r], x.at)
      BY <1>1, <2>2 DEF RootSound, DiskSound
    <2> QED
      BY <1>1, <1>2, <2>1, <2>3, RootMoves
  <1> QED
    BY <1>3, <1>4

(* rebuildWithSnapshot saves what it replayed to the end of the log. *)
LEMMA RebuildKeeps ==
  ASSUME RuntimeSound, OneRoot, PolicyKept, NEW r \in Root, RebuildsWithSnapshot(r)
  PROVE  RuntimeSound'
  <1> DEFINE s    == Contents(rt[r])
             seed == Seed(s)
             view == Advance(r, seed)
             n    == Visible(r)
             new  == view.cursor - seed.cursor
             x    == [rt[r] EXCEPT !.at = "open", !.then = "finish", !.rebuilt = view, !.applied = new]
  <1>1. /\ scope \in Scope /\ src[r] \in Space /\ n \in Nat /\ n = VisibleIn(src[r], scope)
        /\ NoneOrGood(s, src[r]) /\ rt[r] \in Runtimes
    BY RootFacts
  <1>2. UNCHANGED <<src, disk, scope, reads>>
    BY DEF RebuildsWithSnapshot
  <1>3. SaveSnapshot(x, r, Compacted(view.cursor, view.count))
    BY DEF RebuildsWithSnapshot
  <1>4. GoodView(seed, n)
    BY <1>1, SeedGood
  <1>5. view = [cursor |-> n, count |-> n] /\ GoodView(view, n)
    BY <1>1, <1>4, AdvanceGood
  <1>6. view.cursor = n /\ view.count = n /\ view \in View
    BY <1>1, <1>5 DEF View
  <1>7. seed.cursor \in Nat
    BY <1>4 DEF GoodView
  <1>8. GoodSnapshot(Compacted(view.cursor, view.count), src[r])
    BY <1>1, <1>6, CompactedGood
  <1> HIDE DEF view, seed, n, s
  <1>a. new \in Int
    BY <1>1, <1>6, <1>7
  <1> HIDE DEF new
  <1>9. /\ x \in Runtimes /\ x.at = "open" /\ x.state = rt[r].state
        /\ x.cache = rt[r].cache /\ x.rebuilt = view
    BY <1>1, <1>6, <1>a DEF Runtimes, Places
  <1>10. GoodView(x.rebuilt, Visible(r))
    BY <1>5, <1>9 DEF n
  <1> HIDE DEF x
  <1> QED
    BY <1>2, <1>3, <1>8, <1>9, <1>10, SaveKeeps

(* start and stop, apart from the snapshots. *)
LEMMA StartKeeps ==
  ASSUME RuntimeSound, OneRoot, NEW r \in Root,
         \/ Starts(r) \/ LoadsSnapshot(r) \/ Decides(r) \/ Replays(r) \/ FinishesStart(r) \/ Stops(r)
  PROVE  RuntimeSound'
  <1> DEFINE n == Visible(r)
  <1>1. /\ src[r] \in Space /\ n \in Nat /\ rt[r] \in Runtimes /\ disk[r] \in Files
        /\ RootSound(rt[r], empty, src[r], n) /\ DiskSound(disk[r], src[r], rt[r].at)
        /\ [disk EXCEPT ![r] = disk[r]] = disk /\ rt \in [Root -> Runtimes]
    BY RootFacts DEF RuntimeSound
  <1>2. UNCHANGED <<src, disk, scope, reads>> /\ empty' = empty
    BY DEF Starts, LoadsSnapshot, Decides, Replays, FinishesStart, Stops
  \* Whatever runtime it is changed to, at another place, with these fields.
  <1>3. ASSUME NEW x, rt' = [rt EXCEPT ![r] = x], x \in Runtimes,
               x.at \notin {"open", "write", "rename"},
               x.cache = None \/ GoodView(x.cache, n), GoodView(x.rebuilt, n),
               x.state = Shared \/ NoneOrGood(x.state, src[r])
        PROVE  RuntimeSound'
    <2>1. RootSound(x, empty, src[r], n)
      BY <1>1, <1>3 DEF RootSound
    <2>2. DiskSound(disk[r], src[r], x.at)
      BY <1>1, <1>3 DEF DiskSound
    <2> QED
      BY <1>1, <1>2, <1>3, <2>1, <2>2, RootMoves
  <1>4. /\ rt[r].cache = None \/ GoodView(rt[r].cache, n)
        /\ GoodView(rt[r].rebuilt, n)
        /\ rt[r].state = Shared \/ NoneOrGood(rt[r].state, src[r])
    BY <1>1 DEF RootSound
  <1>5. CASE Starts(r)
    <2>1. rt[r].at = "idle"
      BY <1>5 DEF Starts
    <2>2. CASE rt[r].policy
      <3> DEFINE x == [rt[r] EXCEPT !.at = "load"]
      <3>1. rt' = [rt EXCEPT ![r] = x]
        BY <1>1, <1>5, <2>2 DEF Starts
      <3>2. /\ x \in Runtimes /\ x.at = "load" /\ x.cache = rt[r].cache
            /\ x.rebuilt = rt[r].rebuilt /\ x.state = rt[r].state
        BY <1>1 DEF Runtimes, Places
      <3> HIDE DEF x
      <3> QED
        BY <1>3, <1>4, <3>1, <3>2
    <2>3. CASE ~rt[r].policy
      <3> DEFINE x == [rt[r] EXCEPT !.started = TRUE]
      <3>1. rt' = [rt EXCEPT ![r] = x]
        BY <1>1, <1>5, <2>3 DEF Starts
      <3>2. /\ x \in Runtimes /\ x.at = rt[r].at /\ x.cache = rt[r].cache
            /\ x.rebuilt = rt[r].rebuilt /\ x.state = rt[r].state
        BY <1>1 DEF Runtimes, Places
      <3> HIDE DEF x
      <3> QED
        BY <1>3, <1>4, <2>1, <3>1, <3>2
    <2> QED
      BY <2>2, <2>3
  <1>6. CASE LoadsSnapshot(r)
    <2> DEFINE x == [rt[r] EXCEPT !.at = "compact", !.state = LoadState(r)]
    <2>1. LoadState(r) = Shared \/ NoneOrGood(LoadState(r), src[r])
      BY <1>1, <1>4 DEF LoadState, DiskSound
    <2>2. LoadState(r) \in Snapshot \cup {None, Shared}
      BY <2>1, GoodTypes DEF NoneOrGood
    <2>3. rt' = [rt EXCEPT ![r] = x]
      BY <1>1, <1>6 DEF LoadsSnapshot
    <2>4. /\ x \in Runtimes /\ x.at = "compact" /\ x.cache = rt[r].cache
          /\ x.rebuilt = rt[r].rebuilt /\ x.state = LoadState(r)
      BY <1>1, <2>2 DEF Runtimes, Places
    <2> HIDE DEF x
    <2> QED
      BY <1>3, <1>4, <2>1, <2>3, <2>4
  <1>7. CASE Decides(r)
    <2> DEFINE at == IF ShouldSnapshot(r) THEN "rebuild" ELSE "replay"
               x  == [rt[r] EXCEPT !.at = at]
    <2>1. at \in {"rebuild", "replay"}
      OBVIOUS
    <2>2. rt' = [rt EXCEPT ![r] = x]
      BY <1>1, <1>7 DEF Decides
    <2> HIDE DEF at
    <2>3. /\ x \in Runtimes /\ x.at = at /\ x.cache = rt[r].cache
          /\ x.rebuilt = rt[r].rebuilt /\ x.state = rt[r].state
      BY <1>1, <2>1 DEF Runtimes, Places
    <2> HIDE DEF x
    <2> QED
      BY <1>3, <1>4, <2>1, <2>2, <2>3
  <1>8. CASE Replays(r)
    <2> DEFINE view == Advance(r, NoView)
               x    == [rt[r] EXCEPT !.cache = view, !.at = "idle", !.started = TRUE]
    <2>1. GoodView(view, n) /\ view \in View
      BY <1>1, NoViewGood, AdvanceGood, GoodTypes
    <2>2. rt' = [rt EXCEPT ![r] = x]
      BY <1>1, <1>8 DEF Replays
    <2> HIDE DEF view
    <2>3. /\ x \in Runtimes /\ x.at = "idle" /\ x.cache = view
          /\ x.rebuilt = rt[r].rebuilt /\ x.state = rt[r].state
      BY <1>1, <2>1 DEF Runtimes, Places
    <2> HIDE DEF x
    <2> QED
      BY <1>3, <1>4, <2>1, <2>2, <2>3
  <1>9. CASE FinishesStart(r)
    <2> DEFINE within == rt[r].applied <= MaxTx
               f == Fresh(rt[r].policy)
               x == [f EXCEPT !.state = rt[r].state, !.cache = rt[r].rebuilt,
                              !.started = within]
    <2>1. rt' = [rt EXCEPT ![r] = x]
      BY <1>1, <1>9 DEF FinishesStart
    <2>2. within \in BOOLEAN
      BY <1>1, RuntimeAssumption DEF Runtimes
    <2>3. f \in Runtimes /\ f.at = "idle" /\ f.rebuilt = NoView
      BY <1>1, FreshType DEF Runtimes
    <2> HIDE DEF within, f
    <2>4. /\ x \in Runtimes /\ x.at = "idle" /\ x.cache = rt[r].rebuilt
          /\ x.rebuilt = NoView /\ x.state = rt[r].state
      BY <1>1, <2>2, <2>3 DEF Runtimes
    <2> HIDE DEF x
    <2> QED
      BY <1>1, <1>3, <1>4, <2>1, <2>4, NoViewGood
  <1>10. CASE Stops(r)
    <2> DEFINE x == [rt[r] EXCEPT !.started = FALSE]
    <2>1. rt' = [rt EXCEPT ![r] = x]
      BY <1>1, <1>10 DEF Stops
    <2>2. /\ x \in Runtimes /\ x.at = rt[r].at /\ x.cache = rt[r].cache
          /\ x.rebuilt = rt[r].rebuilt /\ x.state = rt[r].state
      BY <1>1 DEF Runtimes, Places
    <2> HIDE DEF x
    <2>3. RootSound(x, empty, src[r], n)
      BY <1>1, <2>2 DEF RootSound, Held
    <2> QED
      BY <1>1, <1>2, <2>1, <2>2, <2>3, RootMoves
  <1> QED
    BY <1>5, <1>6, <1>7, <1>8, <1>9, <1>10

(* persistState: the file is replaced by a temporary one that is whole. *)
LEMMA PersistKeeps ==
  ASSUME RuntimeSound, OneRoot, NEW r \in Root, OpensTemp(r) \/ WritesTemp(r) \/ RenamesTemp(r)
  PROVE  RuntimeSound'
  <1> DEFINE n == Visible(r)
             s == Contents(rt[r])
  <1>1. /\ rt[r] \in Runtimes /\ disk[r] \in Files
        /\ RootSound(rt[r], empty, src[r], n) /\ DiskSound(disk[r], src[r], rt[r].at)
        /\ NoneOrGood(s, src[r]) /\ s = Held(rt[r], empty)
    BY RootFacts
  <1>2. UNCHANGED <<src, empty, scope, reads>>
    BY DEF OpensTemp, WritesTemp, RenamesTemp
  <1>3. rt \in [Root -> Runtimes] /\ disk \in [Root -> Files]
    BY DEF RuntimeSound
  <1>4. CASE OpensTemp(r)
    <2> DEFINE x == [rt[r] EXCEPT !.at = "write"]
               d == [disk[r] EXCEPT !.temp = Torn]
    <2>1. rt[r].at = "open" /\ rt' = [rt EXCEPT ![r] = x] /\ disk' = [disk EXCEPT ![r] = d]
      BY <1>3, <1>4 DEF OpensTemp
    <2>2. /\ x \in Runtimes /\ x.at = "write" /\ x.cache = rt[r].cache
          /\ x.rebuilt = rt[r].rebuilt /\ x.state = rt[r].state
      BY <1>1 DEF Runtimes, Places
    <2>3. d \in Files /\ d.file = disk[r].file
      BY <1>1 DEF Files
    <2> HIDE DEF x, d
    <2>4. RootSound(x, empty, src[r], n)
      BY <1>1, <2>1, <2>2 DEF RootSound, Held
    <2>5. DiskSound(d, src[r], x.at)
      BY <1>1, <2>2, <2>3 DEF DiskSound
    <2> QED
      BY <1>2, <2>1, <2>4, <2>5, RootMoves
  <1>5. CASE WritesTemp(r)
    <2> DEFINE x == [rt[r] EXCEPT !.at = "rename"]
               d == [disk[r] EXCEPT !.temp = s]
    <2>1. rt[r].at = "write" /\ rt' = [rt EXCEPT ![r] = x] /\ disk' = [disk EXCEPT ![r] = d]
      BY <1>3, <1>5 DEF WritesTemp
    <2>2. /\ x \in Runtimes /\ x.at = "rename" /\ x.cache = rt[r].cache
          /\ x.rebuilt = rt[r].rebuilt /\ x.state = rt[r].state
      BY <1>1 DEF Runtimes, Places
    <2>3. GoodSnapshot(s, src[r]) /\ s \in Snapshot
      BY <1>1, <2>1, GoodTypes DEF RootSound, NoneOrGood
    <2> HIDE DEF s
    <2>4. d \in Files /\ d.file = disk[r].file /\ d.temp = s
      BY <1>1, <2>3 DEF Files
    <2> HIDE DEF x, d
    <2>5. RootSound(x, empty, src[r], n)
      BY <1>1, <2>2 DEF RootSound
    <2>6. DiskSound(d, src[r], x.at)
      BY <1>1, <2>3, <2>4 DEF DiskSound
    <2> QED
      BY <1>2, <2>1, <2>5, <2>6, RootMoves
  <1>6. CASE RenamesTemp(r)
    <2> DEFINE x == [rt[r] EXCEPT !.at = rt[r].then]
               d == [file |-> disk[r].temp, temp |-> None]
    <2>1. rt[r].at = "rename" /\ rt' = [rt EXCEPT ![r] = x] /\ disk' = [disk EXCEPT ![r] = d]
      BY <1>3, <1>6 DEF RenamesTemp
    <2>2. /\ x \in Runtimes /\ x.at \in {"idle", "decide", "finish"} /\ x.cache = rt[r].cache
          /\ x.rebuilt = rt[r].rebuilt /\ x.state = rt[r].state
      BY <1>1 DEF Runtimes, Places
    <2>3. GoodSnapshot(disk[r].temp, src[r]) /\ disk[r].temp \in Snapshot
      BY <1>1, <2>1, GoodTypes DEF DiskSound
    <2>4. d \in Files /\ d.file = disk[r].temp
      BY <2>3 DEF Files
    <2> HIDE DEF x, d
    <2>5. RootSound(x, empty, src[r], n)
      BY <1>1, <2>2 DEF RootSound
    <2>6. DiskSound(d, src[r], x.at)
      BY <2>2, <2>3, <2>4 DEF DiskSound, NoneOrGood
    <2> QED
      BY <1>2, <2>1, <2>5, <2>6, RootMoves
  <1> QED
    BY <1>4, <1>5, <1>6

(* A write makes the log longer; what was true of it stays so. *)
LEMMA WriteKeeps ==
  ASSUME RuntimeSound, OneRoot, NEW r \in Root, NEW request \in AppendRequest, Writes(r, request)
  PROVE  RuntimeSound'
  <1> DEFINE n  == Visible(r)
             m  == Visible(r)'
             sp == src[r]
             ap == AppendTx(src[r], request)
  <1>1. /\ scope \in Scope /\ sp \in Space /\ n \in Nat /\ n = VisibleIn(sp, scope)
        /\ RootSound(rt[r], empty, sp, n) /\ DiskSound(disk[r], sp, rt[r].at)
        /\ rt[r] \in Runtimes
    BY RootFacts
  <1>2. /\ src \in [Root -> Space] /\ rt \in [Root -> Runtimes] /\ disk \in [Root -> Files]
        /\ reads \in [Reader -> ReadStates] /\ \A c \in Reader : ReadSound(c)
    BY DEF RuntimeSound
  <1>3. UNCHANGED <<disk, rt, empty, scope, reads>> /\ src' = [src EXCEPT ![r] = ap]
    BY DEF Writes
  <1>4. ap \in Space /\ VisibleIn(ap, scope) \in Nat /\ VisibleIn(sp, scope) <= VisibleIn(ap, scope)
    BY <1>1, GoodStays, VisibleNat
  <1>5. src' \in [Root -> Space] /\ src'[r] = ap
    BY <1>2, <1>3, <1>4
  <1>6. m = VisibleIn(ap, scope)
    BY <1>3, <1>5 DEF Visible, VisibleIn
  <1>7. m \in Nat /\ n <= m
    BY <1>1, <1>4, <1>6
  <1>8. \A s : GoodSnapshot(s, sp) => GoodSnapshot(s, ap)
    BY <1>1, GoodStays
  <1>9. \A v : GoodView(v, n) => GoodView(v, m)
    BY <1>1, <1>7 DEF GoodView
  <1>10. \A q \in Root : q = r
    BY DEF OneRoot
  <1> HIDE DEF n, m, sp, ap
  <1>11. RootSound(rt[r], empty, ap, m)
    BY <1>1, <1>8, <1>9 DEF RootSound, NoneOrGood
  <1>12. DiskSound(disk[r], ap, rt[r].at)
    BY <1>1, <1>8 DEF DiskSound, NoneOrGood
  <1>13. \A q \in Root : RootSound(rt'[q], empty', src'[q], Visible(q)')
    BY <1>3, <1>5, <1>10, <1>11 DEF m
  <1>14. \A q \in Root : DiskSound(disk'[q], src'[q], rt'[q].at)
    BY <1>3, <1>5, <1>10, <1>12
  <1>15. ASSUME NEW c \in Reader PROVE ReadSound(c)'
    <2> SUFFICES ASSUME reads[c] # NoRead PROVE ReadSound(c)'
      BY <1>3 DEF ReadSound
    <2> DEFINE at == reads[c].at
               v  == reads[c].view
               since == reads[c].since
    <2>1. reads[c].root = r /\ since \in Nat
      BY <1>2, <1>10 DEF ReadStates
    <2>2. /\ at = "reading" => GoodView(v, n) /\ since <= n
          /\ at = "read" => GoodView(v, n) /\ since <= v.cursor
      BY <1>2, <2>1 DEF ReadSound, n
    <2>3. /\ at = "reading" => GoodView(v, m) /\ since <= m
          /\ at = "read" => GoodView(v, m) /\ since <= v.cursor
      BY <1>1, <1>7, <1>9, <2>1, <2>2
    <2> QED
      BY <1>3, <2>1, <2>3 DEF ReadSound, m
  <1>16. scope' \in Scope /\ rt' \in [Root -> Runtimes] /\ disk' \in [Root -> Files]
         /\ reads' \in [Reader -> ReadStates]
    BY <1>1, <1>2, <1>3
  <1> QED
    BY <1>5, <1>13, <1>14, <1>15, <1>16 DEF RuntimeSound

(* incremental starts from a good view, brings it up to date and caches it, *)
(* whatever was written or cached in between.                               *)
LEMMA ReadKeeps ==
  ASSUME RuntimeSound, OneRoot, NEW c \in Reader,
         (\E r \in Root : Reads(c, r)) \/ ReadsDelta(c) \/ ReadReturns(c)
  PROVE  RuntimeSound'
  <1>1. /\ reads \in [Reader -> ReadStates] /\ \A b \in Reader : ReadSound(b)
        /\ scope \in Scope /\ src \in [Root -> Space]
        /\ rt \in [Root -> Runtimes] /\ disk \in [Root -> Files]
        /\ \A r \in Root : RootSound(rt[r], empty, src[r], Visible(r))
        /\ \A r \in Root : DiskSound(disk[r], src[r], rt[r].at)
    BY DEF RuntimeSound
  <1>2. UNCHANGED <<src, disk, empty, scope>>
    BY DEF Reads, ReadsDelta, ReadReturns
  <1>3. \A r : Visible(r)' = Visible(r)
    BY <1>2 DEF Visible
  \* The reader's call is another one, and only that.
  <1>4. ASSUME NEW y \in ReadStates, reads' = [reads EXCEPT ![c] = y], rt' = rt,
               y # NoRead =>
                 /\ y.at = "reading" => /\ GoodView(y.view, Visible(y.root))
                                        /\ y.since <= Visible(y.root)
                 /\ y.at = "read" => /\ GoodView(y.view, Visible(y.root))
                                     /\ y.since <= y.view.cursor
        PROVE  RuntimeSound'
    <2>1. reads' \in [Reader -> ReadStates] /\ reads'[c] = y
          /\ \A b \in Reader : b # c => reads'[b] = reads[b]
      BY <1>1, <1>4
    <2>2. ASSUME NEW b \in Reader PROVE ReadSound(b)'
      <3>1. CASE b = c
        BY <1>3, <1>4, <2>1, <3>1 DEF ReadSound
      <3>2. CASE b # c
        BY <1>1, <1>3, <2>1, <3>2 DEF ReadSound
      <3> QED
        BY <3>1, <3>2
    <2>3. \A r \in Root : RootSound(rt'[r], empty', src'[r], Visible(r)')
      BY <1>1, <1>2, <1>3, <1>4
    <2>4. \A r \in Root : DiskSound(disk'[r], src'[r], rt'[r].at)
      BY <1>1, <1>2, <1>4
    <2> QED
      BY <1>1, <1>2, <1>4, <2>1, <2>2, <2>3, <2>4 DEF RuntimeSound
  <1>5. ASSUME NEW r \in Root, Reads(c, r) PROVE RuntimeSound'
    <2> DEFINE view == IF rt[r].cache = None THEN NoView ELSE rt[r].cache
               n    == Visible(r)
               y    == [at |-> "reading", root |-> r, since |-> n, view |-> view]
    <2>1. reads' = [reads EXCEPT ![c] = y] /\ rt' = rt
      BY <1>5 DEF Reads
    <2>2. n \in Nat /\ RootSound(rt[r], empty, src[r], n)
      BY RootFacts
    <2>3. GoodView(view, n) /\ view \in View
      BY <2>2, NoViewGood, GoodTypes DEF RootSound
    <2> HIDE DEF view
    <2>4. /\ y \in ReadStates /\ y.at = "reading" /\ y.view = view /\ y.root = r /\ y.since = n
      BY <2>2, <2>3 DEF ReadStates
    <2> HIDE DEF y
    <2>5. y.since <= Visible(y.root) /\ GoodView(y.view, Visible(y.root))
      BY <2>2, <2>3, <2>4
    <2> QED
      BY <1>4, <2>1, <2>4, <2>5
  <1>6. CASE ReadsDelta(c)
    <2> DEFINE r    == reads[c].root
               v    == reads[c].view
               n    == Visible(r)
               view == Advance(r, v)
               y    == [reads[c] EXCEPT !.at = "read", !.view = view]
    <2>1. reads[c].at = "reading" /\ reads[c] # NoRead /\ reads[c] \in ReadStates
      BY <1>1, <1>6 DEF ReadsDelta, NoRead
    <2>2. r \in Root /\ v \in View /\ reads[c].since \in Nat
          /\ reads[c] \in [at : {"reading", "read"}, root : Root, since : Nat, view : View]
      BY <2>1 DEF ReadStates
    <2>3. GoodView(v, n) /\ reads[c].since <= n
      BY <1>1, <2>1 DEF ReadSound
    <2>4. src[r] \in Space /\ n \in Nat
      BY <2>2, RootFacts
    <2>5. view = [cursor |-> n, count |-> n] /\ GoodView(view, n)
      BY <2>2, <2>3, <2>4, AdvanceGood
    <2>6. view.cursor = n /\ view \in View
      BY <2>4, <2>5 DEF View
    <2>7. reads' = [reads EXCEPT ![c] = y] /\ rt' = rt
      BY <1>1, <1>6 DEF ReadsDelta
    <2> HIDE DEF view
    <2>8. /\ y \in ReadStates /\ y.at = "read" /\ y.view = view /\ y.root = r
          /\ y.since = reads[c].since
      BY <2>2, <2>6 DEF ReadStates
    <2> HIDE DEF y
    <2>9. y.since <= y.view.cursor /\ GoodView(y.view, Visible(y.root))
      BY <2>3, <2>5, <2>6, <2>8
    <2> QED
      BY <1>4, <2>7, <2>8, <2>9
  <1>7. CASE ReadReturns(c)
    <2> DEFINE r == reads[c].root
               v == reads[c].view
               x == [rt[r] EXCEPT !.cache = v]
    <2>1. reads[c].at = "read" /\ reads[c] # NoRead /\ reads[c] \in ReadStates
      BY <1>1, <1>7 DEF ReadReturns, NoRead
    <2>2. r \in Root /\ v \in View
      BY <2>1 DEF ReadStates
    <2>3. GoodView(v, Visible(r))
      BY <1>1, <2>1 DEF ReadSound
    <2>4. /\ rt[r] \in Runtimes /\ rt' = [rt EXCEPT ![r] = x]
          /\ reads' = [reads EXCEPT ![c] = NoRead]
      BY <1>1, <1>7, <2>2 DEF ReadReturns
    <2>5. /\ x \in Runtimes /\ x.at = rt[r].at /\ x.cache = v
          /\ x.rebuilt = rt[r].rebuilt /\ x.state = rt[r].state
      BY <2>2, <2>4 DEF Runtimes
    <2> HIDE DEF x
    <2>6. RootSound(rt[r], empty, src[r], Visible(r)) /\ DiskSound(disk[r], src[r], rt[r].at)
      BY <1>1, <2>2
    <2>7. RootSound(x, empty, src[r], Visible(r))
      BY <2>3, <2>5, <2>6 DEF RootSound, Held
    <2>8. rt' \in [Root -> Runtimes] /\ rt'[r] = x /\ \A q \in Root : q = r
      BY <1>1, <2>2, <2>4, <2>5 DEF OneRoot
    <2>9. \A q \in Root : RootSound(rt'[q], empty', src'[q], Visible(q)')
      BY <1>2, <1>3, <2>7, <2>8
    <2>10. \A q \in Root : DiskSound(disk'[q], src'[q], rt'[q].at)
      BY <1>2, <2>5, <2>6, <2>8
    <2>11. reads' \in [Reader -> ReadStates]
      BY <1>1, <2>4 DEF ReadStates
    <2>12. ASSUME NEW b \in Reader PROVE ReadSound(b)'
      <3>1. reads'[b] = NoRead \/ reads'[b] = reads[b]
        BY <1>1, <2>4
      <3> QED
        BY <1>1, <1>3, <3>1 DEF ReadSound
    <2> QED
      BY <1>1, <1>2, <2>8, <2>9, <2>10, <2>11, <2>12 DEF RuntimeSound
  <1> QED
    BY <1>5, <1>6, <1>7

(* The next process starts with nothing but the files. *)
LEMMA ExitKeeps ==
  ASSUME RuntimeSound, Exits
  PROVE  RuntimeSound'
  <1>1. /\ UNCHANGED <<src, disk>> /\ empty' = None /\ scope' \in Scope
        /\ reads' = [c \in Reader |-> NoRead]
    BY DEF Exits
  <1>2. PICK p \in [Root -> BOOLEAN] : rt' = [r \in Root |-> Fresh(p[r])]
    BY DEF Exits, NewRuntimes
  <1>3. src \in [Root -> Space] /\ disk \in [Root -> Files]
        /\ \A r \in Root : DiskSound(disk[r], src[r], rt[r].at)
    BY DEF RuntimeSound
  <1>4. rt' \in [Root -> Runtimes] /\ \A r \in Root : rt'[r] = Fresh(p[r]) /\ p[r] \in BOOLEAN
    BY <1>2, FreshType
  <1>5. ASSUME NEW r \in Root
        PROVE  RootSound(rt'[r], empty', src'[r], Visible(r)')
    <2>1. Visible(r)' \in Nat
      BY <1>1, <1>3, VisibleType DEF Visible
    <2>2. GoodView(NoView, Visible(r)')
      BY <2>1, NoViewGood
    <2>3. /\ rt'[r] \in Runtimes /\ rt'[r].at = "idle" /\ rt'[r].cache = None
          /\ rt'[r].state = None /\ rt'[r].rebuilt = NoView
      BY <1>4, FreshType
    <2> QED
      BY <1>1, <2>2, <2>3 DEF RootSound, NoneOrGood
  <1>6. \A r \in Root : DiskSound(disk'[r], src'[r], rt'[r].at)
    BY <1>1, <1>3, <1>4, FreshType DEF DiskSound
  <1>7. reads' \in [Reader -> ReadStates] /\ \A c \in Reader : reads'[c] = NoRead
    BY <1>1 DEF ReadStates
  <1>8. \A c \in Reader : ReadSound(c)'
    BY <1>7 DEF ReadSound
  <1> QED
    BY <1>1, <1>3, <1>4, <1>5, <1>6, <1>7, <1>8 DEF RuntimeSound

(* The initial state. *)
LEMMA RuntimeInitSound ==
  ASSUME RuntimeInit
  PROVE  RuntimeSound
  <1>1. /\ src = [r \in Root |-> EmptySpace] /\ empty = None /\ scope \in Scope
        /\ reads = [c \in Reader |-> NoRead]
        /\ disk \in [Root -> [file : {None} \cup OldSnapshots, temp : {None}]]
    BY DEF RuntimeInit
  <1>2. PICK p \in [Root -> BOOLEAN] : rt = [r \in Root |-> Fresh(p[r])]
    BY DEF RuntimeInit, NewRuntimes
  <1>3. EmptySpace \in Space /\ \A policy : VisibleIn(EmptySpace, policy) = 0
    BY EmptySpaceType, NothingYet DEF VisibleIn
  <1>4. src \in [Root -> Space] /\ \A r \in Root : src[r] = EmptySpace /\ Visible(r) = 0
    BY <1>1, <1>3 DEF Visible, VisibleIn
  <1>5. rt \in [Root -> Runtimes] /\ \A r \in Root : rt[r] = Fresh(p[r]) /\ p[r] \in BOOLEAN
    BY <1>2, FreshType
  <1>6. ASSUME NEW r \in Root PROVE RootSound(rt[r], empty, src[r], Visible(r))
    <2>1. GoodView(NoView, Visible(r))
      BY <1>4, NoViewGood
    <2>2. /\ rt[r] \in Runtimes /\ rt[r].at = "idle" /\ rt[r].cache = None
          /\ rt[r].state = None /\ rt[r].rebuilt = NoView
      BY <1>5, FreshType
    <2> QED
      BY <1>1, <2>1, <2>2 DEF RootSound, NoneOrGood
  <1>7. ASSUME NEW old \in OldSnapshots PROVE GoodSnapshot(old, EmptySpace) /\ old \in Snapshot
    <2>1. PICK s \in Scope \cup {Unnamed} : old = [scope |-> s, cursor |-> 0, count |-> 0, compact |-> FALSE]
      BY <1>1 DEF OldSnapshots
    <2>2. 0 <= VisibleIn(EmptySpace, s) /\ 0 \in Nat /\ FALSE \in BOOLEAN
      BY <1>3
    <2>3. old \in Snapshot
      BY <2>1 DEF Snapshot
    <2> QED
      BY <2>1, <2>2, <2>3, Zenon DEF GoodSnapshot
  <1>8. ASSUME NEW r \in Root
        PROVE  disk[r] \in Files /\ DiskSound(disk[r], src[r], rt[r].at)
    <2>1. disk[r] \in [file : {None} \cup OldSnapshots, temp : {None}]
      BY <1>1
    <2>2. disk[r] \in Files /\ (disk[r].file = None \/ disk[r].file \in OldSnapshots)
      BY <1>7, <2>1 DEF Files
    <2>3. rt[r].at = "idle"
      BY <1>5, FreshType
    <2> QED
      BY <1>4, <1>7, <2>2, <2>3 DEF DiskSound, NoneOrGood
  <1>9. disk \in [Root -> Files]
    BY <1>1, <1>8
  <1>10. reads \in [Reader -> ReadStates] /\ \A c \in Reader : ReadSound(c)
    BY <1>1 DEF ReadStates, ReadSound
  <1> QED
    BY <1>1, <1>4, <1>5, <1>6, <1>8, <1>9, <1>10 DEF RuntimeSound

(* A step that changes nothing. *)
LEMMA RuntimeStutters ==
  ASSUME RuntimeSound, UNCHANGED runtimeVars
  PROVE  RuntimeSound'
  <1>1. UNCHANGED <<src, disk, rt, empty, scope, reads>>
    BY DEF runtimeVars
  <1>2. \A r : Visible(r)' = Visible(r)
    BY <1>1 DEF Visible
  <1>3. \A c \in Reader : ReadSound(c) => ReadSound(c)'
    BY <1>1, <1>2 DEF ReadSound
  <1> QED
    BY <1>1, <1>2, <1>3 DEF RuntimeSound

-----------------------------------------------------------------------------
(* Theorems *)

(* In every process and after every crash, whatever is read, written, saved  *)
(* and started again: projections and snapshots are views of the log.        *)
THEOREM RuntimeStates == ASSUME OneRoot, PolicyKept PROVE RuntimeSpec => []RuntimeSound
  <1>1. RuntimeInit => RuntimeSound
    BY RuntimeInitSound
  <1>2. RuntimeSound /\ [RuntimeNext]_runtimeVars => RuntimeSound'
    <2> SUFFICES ASSUME RuntimeSound, [RuntimeNext]_runtimeVars PROVE RuntimeSound'
      OBVIOUS
    <2>1. ASSUME NEW r \in Root, StartStep(r) PROVE RuntimeSound'
      BY <2>1, StartKeeps, CompactKeeps, RebuildKeeps, PersistKeeps DEF StartStep
    <2>2. ASSUME NEW r \in Root, Starts(r) \/ Stops(r) PROVE RuntimeSound'
      BY <2>2, StartKeeps
    <2> QED
      BY <2>1, <2>2, WriteKeeps, ReadKeeps, ExitKeeps, RuntimeStutters DEF RuntimeNext
  <1> QED
    BY <1>1, <1>2, PTL DEF RuntimeSpec

(* The file of snapshots is whole at every moment, and what it holds is true *)
(* of the log under the policy it names (saveSnapshot, persistState).        *)
THEOREM SnapshotsStaySound == ASSUME OneRoot, PolicyKept PROVE RuntimeSpec => []SnapshotFileSound
  <1>1. RuntimeSound => SnapshotFileSound
    <2> SUFFICES ASSUME RuntimeSound, NEW r \in Root, disk[r].file # None
                 PROVE  /\ disk[r].file # Torn
                        /\ disk[r].file.count = disk[r].file.cursor
                        /\ disk[r].file.cursor <= CountVisibleTxs(src[r], HiddenIn[disk[r].file.scope])
      BY DEF SnapshotFileSound
    <2>1. GoodSnapshot(disk[r].file, src[r])
      BY DEF RuntimeSound, DiskSound, NoneOrGood
    <2>2. PICK policy \in Scope \cup {Unnamed}, c \in Nat, k \in BOOLEAN :
            /\ c <= VisibleIn(src[r], policy)
            /\ disk[r].file = [scope |-> policy, cursor |-> c, count |-> c, compact |-> k]
      BY <2>1 DEF GoodSnapshot
    <2> QED
      BY <2>1, <2>2, GoodTypes DEF VisibleIn
  <1> QED
    BY <1>1, RuntimeStates, PTL

(* A cached or answered projection, wherever it started from, is what a full *)
(* replay yields (rebuildWithSnapshot, incremental).                         *)
THEOREM ViewsStayReplays == ASSUME OneRoot, PolicyKept PROVE RuntimeSpec => []ViewsAreReplays
  <1>1. ASSUME NEW v, NEW r, GoodView(v, Visible(r)) PROVE IsFullReplay(r, v)
    BY <1>1 DEF GoodView, IsFullReplay
  <1>2. RuntimeSound => ViewsAreReplays
    <2> SUFFICES ASSUME RuntimeSound PROVE ViewsAreReplays
      OBVIOUS
    <2>1. \A r \in Root : rt[r].cache # None => IsFullReplay(r, rt[r].cache)
      BY <1>1 DEF RuntimeSound, RootSound
    <2>2. \A c \in Reader : reads[c].at = "read" => IsFullReplay(reads[c].root, reads[c].view)
      BY <1>1 DEF RuntimeSound, ReadSound, NoRead
    <2> QED
      BY <2>1, <2>2 DEF ViewsAreReplays
  <1> QED
    BY <1>2, RuntimeStates, PTL

(* A read shows at least what was committed when it was called, although     *)
(* other reads may have put an older view into the cache (incremental).      *)
THEOREM WritesAreRead == ASSUME OneRoot, PolicyKept PROVE RuntimeSpec => []ReadsSeeWrites
  <1>1. RuntimeSound => ReadsSeeWrites
    <2> SUFFICES ASSUME RuntimeSound, NEW c \in Reader, reads[c].at = "read"
                 PROVE  reads[c].view.cursor >= reads[c].since
      BY DEF ReadsSeeWrites
    <2>1. reads[c] # NoRead /\ ReadSound(c) /\ reads[c] \in ReadStates
      BY DEF RuntimeSound, NoRead
    <2>2. reads[c].since <= reads[c].view.cursor
      BY <2>1 DEF ReadSound
    <2>3. reads[c].since \in Nat /\ reads[c].view.cursor \in Nat
      BY <2>1 DEF ReadStates, View
    <2> QED
      BY <2>2, <2>3
  <1> QED
    BY <1>1, RuntimeStates, PTL
=============================================================================
