# Mesh execution core: TLA+ specifications, model checking and proofs

Mesh stores a graph as a log of transactions. Applications submit *commands*;
a kernel turns each into a *transaction* of events and appends it to an event
store; readers, replicas and user interfaces follow the log by cursor. The
repository is a TypeScript monorepo: `packages/` holds the libraries, `apps/`
the servers and clients built from them. This directory specifies the parts in
which ordering, failure and retries decide what a user sees.

All paths below are relative to the repository. `PROJECT.json` maps every
definition to the lines it models and lists the runs, the mutants, the hazards,
the findings and the theorems.

## 1. Inventory

| Component | State | Operations | Hard behaviour |
|---|---|---|---|
| File-backed event store, `packages/eventstore-local/src/FileBackedLocalEventStore.ts` | `state` (all spaces, also one JSON file), `txIndexBySpace`, `writeQueue`, `persistQueue` | `appendTx`, `compactUpToCursor`, range, transaction, index and principal reads, `resolveRevision` | awaits between stage and rename, reads beside writes, failing I/O, crashes, lazy loading, compaction |
| In-memory event store, `InMemoryLocalEventStore.ts` | a map of spaces | the same, each in one step | compaction against base revisions and cursors |
| IndexedDB event store, `IndexedDbLocalEventStore.ts` | a map of spaces with separate heads | the same | positions against sequence numbers after compaction |
| Revision tokens and visibility, `revisionTokens.ts`, `internal/txVisibility.ts` | none | token to cursor; the transactions a principal may see | cursors that count visible transactions |
| Kernel, `packages/kernel-minimal` | executions in progress | `execute` | two awaits between reading the base and appending |
| Gateway, `packages/sync-local/src/internal/transportGateway.ts` | subscriptions (a cursor each) | `submit`, `syncPull`, `syncSubscribe`, `eventsRead`, `syncPoll` | limits, cursors on two streams, purge under a cursor |
| State digest client, `stateDigestClient.ts` | durable and candidate state and cursor, seen ids | ingest, validate and commit, recover | lost, repeated and reordered frames |
| Passive replica, `passiveReplica.ts` | checkpoint per principal | pull, apply, `replicateOnce`, `replicateUntilCaughtUp` | crash between apply and checkpoint, two replicators |
| HTTP transport, `packages/sync-http`, and the proxy for tests, `tools/mesh-transport-proxy` | connections, the proxy's mode | the gateway's operations, streams of frames | streams that break, hang or never open |
| Projection, `packages/projection-minimal`; snapshots, `packages/snapshot-minimal` | a cache per principal; one snapshot per scope | rebuild, incremental, with snapshot; save, load | a cache written after an await, shared empty state |
| Runtime and command line, `packages/runtime-local`, `packages/cli` | composition of the above | execute, read, rebuild | restart |
| Graph server, `apps/mesh-graph-server` | stores per project, catalog with heads, minimum cursors, snapshots | commands, polls, streams, snapshots, purge, fork, retention job | snapshot against head, purge against cursors, catalog against store |
| Notes applications, `apps/mesh-notes-server`, `apps/mesh-notes-replica`, `apps/mesh-app` | notes, cursor | HTTP commands, poll and stream loops | two loops on one cursor, deduplication by content |
| Explorer synchronisation, `packages/mesh-explorer-ui` | graph, cursor, seen events, cache and cursor in `localStorage` | connect, bootstrap, poll, stream, fall back | answers out of order, session changes, 410 |
| Explorer editing, `undoRedo.ts`, import and export | undo and redo stacks | add, link, rename, delete, undo, redo, import, clear | sequences of commands of which one fails |
| Rendering, shells, tests | | | not protocol: not modelled |

How they interact: applications call the gateway, which hands commands to
`kernel.execute`; the kernel calls `resolveRevision`, the authorizer and
`appendTx`; the gateway, the projection and the replica source read the store
by principal cursor; the replica sink appends to a second store with the
transaction id as idempotency key; the graph server makes one store, kernel and
gateway per project, and its retention job calls `compactUpToCursor` on the
store the kernel is writing to. There are no locks: everything interleaves at
`await`.

What makes each correct:

- *Event stores*: a transaction is in the log whole or not at all; streams are
  totally ordered; an idempotency slot has one outcome for ever; what was
  confirmed survives a crash; a required base is the head at the append.
- *Kernel*: a command that names a base revision directly follows it; retries
  and concurrent duplicates get one verdict; a receipt names the caller's own
  transaction.
- *Gateway and digest client*: a follower that applies what it is sent, in any
  delivery, holds exactly a prefix of the visible log, and catches up.
- *Replica*: the second store is a prefix of what the principal sees of the
  first, whatever crashes, and it catches up.
- *Projection and snapshots*: the result at a cursor is a function of the log up
  to that cursor.
- *Graph server*: snapshot and retained history together give the whole graph
  to every cursor the server says it can serve.
- *Explorer*: what it draws is the graph at its cursor, its cursor does not go
  back within a session and reaches the head; undo restores, and an import that
  reports success is complete.

## 2. What is modelled

| Module | Models |
|---|---|
| `EventLog` | The contents of one graph space and the functions on it that the in-memory and the file-backed store share: append, compaction, index lookup, range and transaction reads, revision tokens. No state of its own. |
| `TxLog` | The abstract specification: a log that only grows at its end, one outcome per slot, confirmations backed by the log. |
| `FileStore` | `FileBackedLocalEventStore`: the write chain, lazy loading by writers and readers, staging, temporary file and rename, rollback, the poisoned persist queue, the id cache, compaction, crashes. |
| `Kernel` | `KernelMinimalImpl.execute` in its segments between awaits, over a store that appends in one step, with the purge of the graph server. |
| `Gateway` | What a principal sees of a space, and the gateway's reads of it: pull, poll by a cursor on two streams, events of one stream. No state. |
| `Publisher` | The log that is followed: a space that grows, and what one principal sees of it. |
| `Follower` | The abstract specification of a follower: a copy that is a prefix of the log and only becomes longer. |
| `DigestClient` | `StateDigestSyncClient` over a stream that loses, repeats, reorders and damages frames. |
| `IndexedDb` | `IndexedDbLocalEventStore`, with heads counted apart from the arrays. |
| `Replica` | `PassiveReplicator`: two of them on one `IndexedDb` sink and one checkpoint. |
| `SyncHttp` | `SyncHttpReferenceServer` and `MeshTransportProxy`: requests, one stream of frames. |
| `NotesReplica` | The notes server's commands with their masks, the notes replica with its two loops, `mesh-app watch`. |
| `Runtime` | `RuntimeLocal`, `PrincipalProjectionEngine` and the snapshot store with its file. |
| `Graph` | The graph both ends draw from graph events. |
| `GraphServer` | 2 interchangeable requests with awaits at once. The server alone: 1 project, 4 commands, 2 snapshots on request, purges, up to 3 mishaps; or 1 project and 1 fork, 2 commands and one on the fork, 1 snapshot on request, 1 session of the explorer, 1 fault. 712,221 states | snapshots are not ahead; a purge keeps the tail; the drawn graph and the cursor beside forks that are being made |
| `Explorer` | The synchronisation of one browser tab with a graph server. |
| `Editor` | Undo and redo, deletion, import and clear: gestures as sequences of commands. |
| `MCFileStore`, `MCKernel`, `MCFollowers`, `MCRuntime`, `MCExplorer` | Instances: the requests, commands and scripts of the runs, and which parts are deployed together. |
| `EventLog_proofs`, `Gateway_proofs` | Lemmas about the contents of a space and about what a principal sees of it. |
| `FileStore_proofs`, `Kernel_proofs`, `Runtime_proofs`, `GraphServer_proofs`, `Explorer_proofs`, `Followers_proofs` | Theorems about these components, `Explorer_proofs` also about `Editor`, the last one about digest client, replica, the IndexedDB store, the notes replica and `mesh-app watch`, with their inductive invariants. |

Composition: `EventLog` is under everything. `Gateway` extends it, `Publisher`
extends `Gateway`; `DigestClient`, `Replica` (with `IndexedDb`) and `SyncHttp`
with `NotesReplica` extend `Publisher`, and `MCFollowers` puts one of them
beside it. `GraphServer` extends `Gateway` and `Graph`, `Explorer` extends
`GraphServer`. `FileStore` and `Kernel` stand on `EventLog` alone.

**`EventLog`.** A payload is abstracted: an event is its sequence number, its
transaction and its place in it, which is what `eventId` is made of. Streams are
sequences, and sequence numbers are used as positions exactly where the code
does (`sliceBySeqRange`, `sliceBySeqBounds`); this is what goes wrong after a
compaction and must not be idealised. The idempotency table is the set of
outcomes per slot. An append request carries how many events it has on each
stream, and `requiredBaseCursor`.

**`FileStore`.** One step is one segment between awaits. `queue` is
`writeQueue`, its head the running write; `wpc` says where that write waits;
`mem`, `disk` and `cache` are `this.state`, the file and `txIndexBySpace`;
`wbuf` and `wprior` are the contents a write carries across an await. Readers
that find no state load it on their own (`ReaderReadFile`, `ReaderInstall`),
because only writes are serialised. The rename is atomic and the temporary file
is never read, so a crash before the rename leaves the old file. A failing
`mkdir`, `writeFile` or `rename` is `PersistFails`, and it leaves
`persistQueue` rejected, as the code does. One graph space is modelled: the
operations touch no other, and the file holds them all, so that a write for one
space rewrites the others with what memory holds for them. `acked`, `reply` and
`faults` are history: what callers were told, and how many operations failed.

**`Kernel`.** `at` is the await an execution is suspended at. The authorizer
may allow, deny or mask any command at any time. The hash is the pair of what
it covers. `log`, `verdicts` and `purged` are history. `Purge(k)` is the store's
compaction on behalf of `purgeHistory`; the cutoff is a snapshot's graph
sequence number, so at most the number of transactions committed (the kernel
makes one graph event per transaction). The store is atomic here. What the
kernel relies on of it is shown of `FileStore`: without compaction it
implements `TxLog`, whose steps are atomic, and a commit follows the base it
requires (`RevisionChecked`).

**`Gateway`.** A visibility policy decides per transaction, so it is the set of
hidden transactions. Visible transactions are renumbered by position, and so are
the events of a poll, as the code does. A limit in bytes is the number of
transactions it lets through, at least one. The space is read atomically: each
of the store's reads takes one look at its arrays.

**`DigestClient`.** `client` has the fields of the class (durable and candidate
state and cursor, seen ids, whether a recovery is due), `task` the collection in
progress, one round of `collectFromCursor` a step. At any time any frame the
source could have sent may be ingested, which covers loss, repetition, delay and
reordering without a channel; `DamagedFrame` is one that `isWellFormed` refuses.

**`Replica`.** A replicator waits for its checkpoint, for a pull, for the sink,
or for a save; the sink is idempotent by slot, as `appendTx` is. `ReplicaCrash`
may lose the checkpoints (they are in memory or in a file). `refusals` is
history: intact bundles answered as a divergence.

**`SyncHttp`, `NotesReplica`.** `sub` is the one subscription: its generator's
position and the frames written and not yet read. The proxy changes its mode at
any time and does to streams what the code does in each. The replica's poll loop
holds a pulled answer and the stream loop a frame across their awaits, and both
assign the shared cursor. A note is its text; a change is recognised by type,
note and text.

**`Runtime`.** `start` is modelled at each of its awaits, down to opening,
writing and renaming the temporary file; a process may end at any of them.
`read` holds the cached view across the read of the store and writes it back.
A view is a cursor and a count, which is all the projection computes.

**`GraphServer`.** A command commits one transaction with one graph event, so
that cursor, transaction number and event number agree until a purge; `History`
keeps what was ever committed. A request with awaits between which others can
come is a worker's job: a snapshot reads pages of the view, then the head
(`ReadsView`, `Seals`); a fork is listed, then gets its commands one by one, its
least readable cursor and a snapshot (`ForkBegins`, `ForkCopies`, `ForkSets`); a
purge takes the list of snapshots, chooses the cut, compacts the store, and then
writes the catalog (`PurgeBegins`, `ChoosesCut`, `Compacts`, `RecordsPurge`).
Any of them may run beside the others and be made again. What the properties do
not survive, or not all of them, is recorded in `mishaps`: `torn snapshot`,
`purge`, `repeated purge` (of a project that lost something before, or while
another purge of it is being recorded), `purge cut short` by a restart,
`catalog lost`, `half-made fork` (it got its least readable cursor although it
was purged before). After `MaxMishaps` of them no purge begins.

**`Explorer`.** `ui` is the store with its cursor and seen ids, `tasks` what each
session awaits, `stored` the cursor and the cache in `localStorage`. A new
session aborts what the last one polls or reads; its request for a snapshot is
not aborted, and the answer to it, when it comes, is a mishap
(`superseded session`), as is a snapshot refused after a 410. Explorers follow
forks from their first await on; one that is left behind when the fork gets its
least readable cursor (`IsFollowed`) is the mishap `half-made fork`.

**`Editor`.** `edit` has the server's graph, the one drawn, the two stacks and
the commands a gesture has yet to send. The next gesture begins when the last
has ended; between two commands the drawn graph may or may not catch up. A
command may fail before or after it took effect. `hurt` and `base` are history:
what a failure left half done, and the graph the empty stacks stand for.

## 3. Runs

| Run | Instance | Shows |
|---|---|---|
| `FileStore` | 2 clients; 5 requests: two with several events, one slot with two payloads, an empty bundle, one with a base; 1 fault; any number of crashes; `open()` first; no compaction. 22,877 states | type invariant, durable outcomes, receipts that match the log, memory that matches the file, total order, base revisions, closed range reads and an id cache that answers as the index would, both but while a write is being refused, and `ImplementsTxLog`: the refinement of `TxLog` |
| `FileStoreLazy` | 2 clients, 1 reader, 2 transactions and a compaction, 1 fault, crashes; constructed with `new`. 245,710 states | no torn transaction in memory or file; every call settles |
| `FileStorePoison` | as `FileStore` | violation: a call fails although none of its own I/O fails |
| `FileStoreLazyLoss` | as `FileStore`, constructed with `new`, 1 reader, no fault | violation: a confirmed transaction is overwritten |
| `Kernel` | 3 interchangeable executions, 6 commands: two on the root, one on the other's result, a reused slot, a reused id, a malformed one; purge at 2. 155,179 states | type invariant, commits directly follow their base, receipts match the log, verdicts are final, a slot commits once |
| `Followers` | one follower of 4 transactions, 1 hidden: the digest client (2 damaged frames or restarts), 2 replicators (2 damaged bundles or crashes), the notes replica, `watch` (2 restarts); or the IndexedDB store alone with 4 appends, compactions and deletion. Graph events only. 14,908 states | candidates are prefixes, checkpoints are backed, no intact bundle is refused, the notes are the server's, `watch` misses nothing; the IndexedDB store stays ordered, its reads agree, the gateway reads it whole; `ImplementsFollower`: digest client and replica refine `Follower`; `CatchesUp` |
| `ReplicaDivergence` | the same, with a meta event in the first transaction | violation: an intact bundle is refused |
| `Runtime` | 1 runtime, 3 transactions, 2 readers, 3 processes, 2 policies that hide different transactions, replay budget 0; files of older versions. 315,298 states | views are replays, reads see writes, the file is whole and true, starts succeed in the end |
| `Explorer` | 1 project and 1 fork, 1 request with awaits at a time, 3 commands, a snapshot every other event, 2 sessions, 1 fault, no purge, pages of 2; or 3 gestures on a node with a link to itself and a file with it and another node. 485,403 states | what is drawn and what is cached is the graph at its cursor; cursors do not go back; the explorer catches up; undo restores; an import is whole |
| `GraphServer` | the server alone: 1 project, 2 interchangeable requests with awaits at once, 4 commands, 2 snapshots, up to 3 mishaps. 185,951 states | snapshots are not ahead; a purge keeps the tail |
| `ExplorerBehind` | 1 project and 1 fork, a node that is labelled twice, 1 request at a time, 1 session | violation: an explorer never comes back from a 410 on its stream |
| `GraphServerPurge` | the server alone, 1 request with awaits at a time, 4 commands, 3 snapshots on request, 1 purge | violation: a snapshot lacks a node that was never deleted |

*Bounds.* Two clients are enough for the store: its writes are serialised, so a
third would only queue behind the second. One fault distinguishes the write
that fails from those refused after it. Three transactions give every position
(first, middle, last) and a stream left empty by one of them. Three executions
in the kernel let one commit between the resolution and the append of another
while a third retries. A crash may happen at any step, any number of times; the
state space is finite because a slot commits once. The symmetry of `Kernel` is
over the executions, of which no property names one; it checks invariants only.

In `Followers` four transactions, one of them hidden and pulled two at a time,
give a follower two rounds and a position that differs from the log's; two
upsets or faults let a second failure hit the recovery of the first. Only one
follower is deployed in a behaviour, since they share nothing but the publisher;
the states add up instead of multiplying. In `Runtime` three transactions and
two exits give a snapshot of an older policy, extended under the newer. In
`Explorer` three commands and a snapshot every other event give an explorer that
must poll beyond its snapshot, and two sessions one that comes back to its cache
or to another project. Two workers, in `GraphServer`, let a snapshot, a fork or
a purge come between the steps of another one; three mishaps and four commands
give a purge, a new transaction with a low number, and a purge that meets it. A
worker serves any request, so that permuting them is a symmetry; that run checks
no liveness. `PagesAreRead`, an assumption TLC evaluates, shows that the pages
it reads are what `Gateway`'s poll and pull return. What happens after a mishap
is followed only as far as a property speaks of it: the server after purges, the
explorer after a superseded session or a half-made fork. The user's gestures
need no server of their own: that what is drawn follows the server is what the
rest of this run shows. Three gestures let one fail half way, one repeat it and
one go beyond it.

*Fairness.* `EveryCallSettles` assumes `WF_vars(WriterStep)`: the event loop
runs a continuation that is ready, and an I/O operation completes. Nothing is
assumed of readers, clients, faults or crashes (a crash settles calls by losing
them). `Followers`: weak fairness of each process's next step, since
continuations run; strong fairness of the digest client's recovery and of a poll
that reaches the server, which can be disabled again and again by frames and by
the proxy: a caller that is told to recover does so, and a network that is tried
for ever works for ever again. No fairness of frames, of the stream or of the
proxy. `Runtime`: a runtime that is not started is started, and what it awaits
answers. `Explorer`: the server answers, and the current session goes on; a
request for a snapshot of a session that has been forgotten by a restarted
server fails. The number of upsets, faults, exits and mishaps is bounded, so
that liveness is about what happens once they stop.

*Deadlock* is checked in every run but those of `MCExplorer`: an explorer whose
session has ended, beside a server with no request, has stopped for good.

*Mutants.* Every property of a passing run has a mutant of a definition it
depends on (next to it in the module, with its comment) under which it fails:
for example the receipt's cursor taken before the append, a failed append that
stays in memory, the id cache used without comparing sizes, the base compared
before the idempotency table.

## 4. Disagreements found

1. **A failed write disables the store** (`FileStorePoison`). `persistQueue`
   stays rejected. The existing test of the retry replaces `persistState`, and
   with it the queue.
2. **A read can undo the first append** (`FileStoreLazyLoss`). `loadState`
   assigns what it read before it waited. The servers construct their stores
   with `new`. With `open()` the property holds, and is proved.
3. **A replica refuses a transaction it already has** (`ReplicaDivergence`).
   `readTx` returns an earlier event for a stream the transaction left alone, so
   the sink's comparison fails and the replicator stops. It needs transactions
   that differ in the streams they write, and a redelivery. With graph events
   alone (`Followers`) the property holds.
4. **Snapshots after a purge are not full** (`GraphServerPurge`). They are
   replayed from what the purge left.
5. **A stream below the least readable cursor is tried for ever**
   (`ExplorerBehind`). Only the poll has a case for 410.

Found by TLC as well; these are why a property of a passing run has an exception,
or why its instance leaves something out:

- Event store: numbers repeat after a compaction, since an append takes them from
  the length of the shortened array (two appends, a compaction before the second,
  a third append; `FileBackedLocalEventStore.ts:101`), against the total order that
  `OPERATIONAL_GUARANTEES.md:14` promises.
- Event store: a range read can return half a transaction
  (`StrictTxClosedReads`, which `RangeReadsTxClosed` claims but while
  `IsRefusing`). A map built while an append was staged outlives its rollback
  and is one entry too long (387); the next append is staged before it is
  refused, which gives the index that size; `readRange` does not find the id and
  does not extend the slice (234-235). `REMOTE_READINESS.md:18` promises
  otherwise.
- Kernel: two commands on one revision can both commit when history is purged
  between the resolution of a base and the append (`OneWinnerPerBase`; two
  commands without a base, two on the second's transaction, a purge at 2), since
  the head comes back to the cursor it had.
- Graph server: a snapshot lacks for good what is committed between its view and
  its head (the mishap `torn snapshot`, after which `ExplorerAgrees` is not claimed;
  `mesh-graph-server/src/index.ts:185-186`).
- Graph server: the store is compacted (265) before the catalog has the new least
  readable cursor (267), so that requests in between are served by the old one
  (`PurgeKeepsTail` without `IsRecording`).
- Graph server: a second purge takes new transactions (`PurgeKeepsTail` without
  the mishap `repeated purge`). Three commands, two snapshots at 3, a purge: the
  third has kept its transaction number 3, a fourth gets 2, and a purge at the
  other snapshot, again at 3, takes the fourth and leaves the third. The retention
  job purges on every tick.
- Explorer: the cursor of one that follows a fork while it is made goes back
  (`CursorMonotone` without the mishap `half-made fork`). The fork is listed and
  readable from 0 (418) until all is copied and it has its least readable cursor
  (428); then the explorer is refused and starts again from an older snapshot.

Noticed while modelling (with the instance that shows it, where the model has
one):

- Kernel: a retry whose base has been purged is answered
  `INVALID_BASE_REVISION` and not with its receipt, since the base is resolved
  before the idempotency table is consulted; an unknown base is reported before
  authorization.
- Runtime: with the policy switched off, a compacted snapshot of another policy
  is reused (`Scope = {"acl", "off"}` violates `ViewsAreReplays`;
  `projection-minimal/src/index.ts:141-158`). A snapshot whose id names no
  policy is reused under any (146); the code writes no such ids any more, and in
  the model the ones of older versions (`Unnamed`) are empty, as one that counts
  transactions would make the same difference. Two runtimes of one process whose
  files are absent share `EMPTY_STATE` (`Root = {r1, r2}` violates it;
  `snapshot-minimal/src/index.ts:95`).
- Notes replica: a text set, changed and set back is dropped the second time
  (`mesh-notes-replica/src/index.ts:160`); the saved cursor is read and not used.
- Graph server: `purgeHistory` awaits the compaction and then writes back the
  list of snapshots it had before, losing one created meanwhile (265-266); a
  purge renumbers events for clients that are past it (265); a fork onto an
  existing project sets its least readable cursor, whatever it was (428); the
  retention job's condition on time is never true; a dangling link is left out
  of a snapshot and kept by a replay.
- Explorer: a superseded session's snapshot replaces the store under the new
  session (371-425); after a 410, a refused request for a snapshot sets the
  cursor back to 0 (468, 597).
- Editing: two undos at once undo one item twice and drop two
  (`undoRedo.ts:128-134`); a gesture is built from what is drawn, so that a
  deletion right after drawing a link does not bring the link back; importing a
  file twice in mode `add` reuses the same new ids; an import waits at most 1.2 s
  for what it created.

## 5. Proofs

Proved with TLAPS, for all values of the constants that satisfy the named
assumptions of the modules. A theorem that needs more says so in its statement;
the table names it, and the run or finding that shows it is needed.

| Theorem | States | Needs |
|---|---|---|
| `FileStore_proofs!TypeCorrect` | `TypeOK` | |
| `OutcomesAreDurable` | `OutcomesDurable` | `open()` before use: `FileStoreLazyLoss` |
| `NoTransactionIsTorn` | `NoTornTransaction` | an id is not appended under two slots |
| `CacheStaysSound` | `CacheSound` | both of these; its own exception: section 4 |
| `BasesAreChecked` | `RevisionChecked` | a retry sends what was sent before |
| `StoreImplementsTxLog` | `ImplementsTxLog` | `open()`; no compaction: section 4 |
| `MemoryIsTheFile` | `MemoryAgreesWithDisk` | the same |
| `FileIsTotallyOrdered`, `ReceiptsAreTrue` | `StreamsTotallyOrdered`, `ReceiptsMatchLog` | no compaction |
| `RangesAreWhole` | `RangeReadsTxClosed` | `open()`; no compaction; an id is not appended under two slots; its own exception: section 4 |
| `Kernel_proofs!KernelTypes`, `SlotsCommitOnce` | `TypeOK`, `OneCommitPerSlot` | |
| `CommitsFollowTheirBase`, `VerdictsAreFinal`, `AnswersAreInLog`, `OneWinnerUntilPurged` | `CommitsFollowBase`, `VerdictIsFinal`, `AnswersMatchLog`, `OneWinnerPerBase` | until the first purge: section 4 |
| `Followers_proofs!CandidateStaysSound` | `CandidateSound` | a log of at most 256 visible transactions |
| `DigestImplementsFollower` | `Follower!Spec` | |
| `CheckpointStaysBacked`, `ReplicaImplementsFollower` | `CheckpointBacked`, `Follower!Spec` | ids that are new, as the servers draw them (`randomUUID`) |
| `NumbersStayOrdered`, `ReadsStayInAgreement` | `DbOrdered`, `DbReadsAgree` | an id is not appended under two slots |
| `WatchStaysComplete` | `WatchComplete` | |
| `NotesStayInAgreement` | `NotesAgree` | no two changes a principal sees say the same (`AllDiffer`): section 4, notes replica |
| `GraphServer_proofs!TailsAreKept`, `SnapshotsStayBehind` | `PurgeKeepsTail`, `SnapshotsNotAhead` | their own exceptions: until a project that lost something is purged again (section 4); until a purge |
| `Explorer_proofs!StoresAgree`, `CachesMayBeUsed` | `ExplorerAgrees`, `CacheAgrees` | no link was ever without its ends (`LinksHaveEnds`) |
| `CursorsAreMonotone` | `CursorMonotone` | its own exceptions, a half-made fork among them: section 4 |
| `Explorer_proofs!UndoLeadsBack`, `ImportBringsAll` | `UndoRestores`, `ImportWhole` | |
| `Runtime_proofs!SnapshotsStaySound`, `ViewsStayReplays`, `WritesAreRead` | `SnapshotFileSound`, `ViewsAreReplays`, `ReadsSeeWrites` | one runtime in a process; no policy switched off; old snapshots that name no policy are empty |

**The file-backed store.** `TypeInv` adds to the types that the write queue
holds each client at most once and with a call, that a write that has started is
its head, and that a waiting write holds what it will write and what it would
restore: without these the rollback and `Head(queue)` cannot be typed. What is
true of every space the store can hold is proved once for all of them: a set of
spaces with the empty one that appends and compactions do not leave (`Closed`)
is never left by memory, file and buffers (`HoldsOnly`, `HeldStep`). So types,
whole transactions and base revisions are inductions over `AppendTx` and
`Compact`, need no `open()`, and with compaction in them too.

- *Outcomes* relate memory, file and the write in flight: equal between writes;
  during a write the file is at most one outcome, under a new slot, behind.
- *Torn transactions*: the index has no id twice, the slot of each of its ids is
  taken, and its entries tell how many events of the id are on each stream. That
  an id is under one slot (`OneSlotPerTx`) is needed because the store compares
  slots and not ids (`FileBackedLocalEventStore.ts:79-86`). The servers draw
  ids at random, and a replica uses the id as the slot.
- *The cache* (`getTxIndexById`) is compared by size alone. A map that was built
  while an append was staged, and outlives its rollback, is one entry too long;
  after that failure the persist queue stays rejected, so that no other append
  is ever stored. But the next one is staged before it is refused, and while it
  waits for that (`IsRefusing`) the index has the size of the map: this is the
  exception of `CacheSound` and `RangeReadsTxClosed`, and section 4 says
  what happens in it. At every other moment the map answers as the index. A
  store that loads lazily can replace its memory under the map.
- *Base revisions*: `RetriesResend` says that requests of one slot and payload
  hash are the same request. The hash covers payload and base token
  (`KernelMinimalImpl.ts:69`), so that this holds of what the kernel sends.

`WriteInv`, for a store without compaction, says how memory and file relate at
each point of a write: equal, except that while one is staged the file is what
it would restore and memory that space with the request appended. So a step
leaves file and confirmations alone (a stutter of `TxLog`), or appends one
request under a new slot to the file (the rename: `Commit`), or confirms an
outcome the file holds (`Confirm`). Order, receipts and ranges need `FileInv`,
which makes every entry end within its streams, so that appended events disturb
no earlier entry; ranges also that the id map finds the last transaction's entry
(`CacheInv`).

**The kernel.** With purges, the idempotency table has an outcome for each
logged command and each confirmation, and one per slot. Until the first
purge the transaction index mirrors the log (the k-th entry ends at graph
sequence number k), and a cursor that an execution carries over its awaits is
the end of the entry its base denotes. The append compares that cursor with the
head, so that a commit makes it the last entry; that cursors of different
entries differ is what a purge breaks.

**The gateway.** `Gateway_proofs` shows that the recursion of `VisibleTxs`
is the filter of the bundles by position (`Kept`), that an append adds one or no
visible transaction at the end, and that a pull and a range read return a
segment of the visible transactions (`PullProperties`, `RangeProperties`).

**The digest client.** `DigestSound`: durable and candidate state are what can
be pulled up to their cursors, the ids seen are the candidate's, and the task
has collected the segment from where it began, at least one transaction a round.
So nothing the stream does to frames matters. `CandidateSound` also says that
the candidate is not behind the durable state (`NotBehind`), which is false of
long logs: a recovery rebuilds the candidate from the start of the log in at
most 256 polls (`stateDigestClient.ts:234`), while validation continues from
the durable state. The durable state keeps implementing `Follower` even then.

**The replica.** `ReplicaSound`: the sink is the first transactions of the
visible log, each under its own slot, bundles in hand are what is visible after
some position the sink has passed, and so is every cursor and checkpoint. A
bundle at a position the sink is past is known to it; the next one is new and
extends it by one. `NoFalseDivergence` is not proved, since it is false in
general (finding 5).

**The IndexedDB store.** For any appends, compactions and deletions (`DbSpec`).
`DbSound`: stored events are numbered upwards, none beyond the head, and each has
an index entry of its own transaction whose range covers it; an id is in the
index once, because its slot is taken. An append numbers on from the heads, so
that the new events are beyond all others; a compaction takes an entry and its
events together and leaves the heads alone. The file-backed store, which numbers
on from the length of the array, has no such theorem (section 4).
That the reads agree needs more, stream by stream (`StreamTiled`): as long as a
stream is as long as its head, a number is a position, and the events of a
transaction are those at the positions of its entry, none missing and none of
another between them (`Run`). A compaction that takes anything from a stream
makes it shorter than its head for good (`FilterShorter`), so what is left may
lie anywhere; one that takes nothing leaves it as it was (`NothingPruned`). The
index then names just the slice that the filter finds (`OwnSlice`), readRange ends
at the last position of a transaction, or of the stream (`RangeEnds`). What a
principal can read one by one is decided upon the slices, and these contain the
transaction's own events: so nothing is read that has a masked event, and all is
that is counted and wrote both streams. Of one that left a stream alone, the
slice there has an earlier transaction's event, which may be masked.

**The notes replica and `mesh-app watch`.** `NotesSpec` is either of them behind
the proxy, beside a publisher of any events. `Pipe(k)`: to a reader who has
applied the first `k` visible transactions, the stream holds at most one piece
of what can be pulled, which begins at most at `k`, and after it the cursor at
which it ends and the stream goes on; a cursor alone does not pass `k`. Nothing
the proxy does to a stream changes that, since it drops what is behind the break
with it. For `watch`, a piece that begins at most at `k` adds what lies beyond
`k` to what was printed. The replica has a second source, the poll's answer,
which is a piece from a cursor it had when it asked (`PollSound`). Both loops
assign the cursor, so that it may go back but never beyond what was applied. The
replica recognises changes by content, and `AllDiffer` says that this tells them
apart: applying a piece then skips exactly those below `k`. That the notes are
the server's is the recursion of `ServerNotes`, which is shown to be defined and
to go on change by change (`ServerNotesNext`). Once two changes say the same,
`AllDiffer` is false for good, and the model has the counterexample of section
4.

**The graph server.** `ServerSpec` is the server with any projects and workers;
of the explorers it has what they may do to it, which is all that a step of
`MCExplorer` is to these variables. `ServerSound`: outcomes are numbered
`1 .. Committed` without a gap, so that `History` is well defined; the log of a
store is the end of that history, in order; and what is lost of it is at most
the least readable cursor, or the cursor of a worker that is about to record its
purge (`OnlyOldLost`, `Recording`). Until a purge nothing is lost, the index
mirrors the log, a worker has the graph at its cursor, and a snapshot the graph
at some position not after its own (`Whole`). A purge needs the mirror, since it
takes the cursor of a snapshot, an event number, for a transaction number. After
it the index is numbered from its length, so that all of this is gone once a
project that lost something is purged again, which is the mishap `repeated
purge`; `ServerKept` says that `ServerSound` holds until then, and
section 4 what happens afterwards. The recursion of
`ApplyGraphEvents` is shown to be defined and to go on step by step (`DrawIs`,
`DrawNext`); that graphs are finite (`FiniteGraph`) is what gives a fork finitely
many commands. A fork whose `newProjectId` is an existing project that was purged
may set its least readable cursor below what it has lost; that is the mishap
`half-made fork`. In the runs forks are always new; the theorem holds of both.

**The explorer.** `ExplorerSpec` is what `MCExplorer` does of both, without its
script and its bounds. `ExplorerSound`, until the first of the mishaps that the
properties name: a cache, the answer to a request and the latest snapshot of a
project are graphs of its history at their cursors (`DrawnAt`); the store is one
from the moment its session has left the decision at its start; what is in a
stream is the part of the history before the stream's position (`StreamSound`).
Two parts are about the cursor. A 410 does not set it back: a store that is
below the least readable cursor, or whose session waits for a snapshot, is not
ahead of the latest one, and so not of the answer. A fork gets its least
readable cursor before the snapshot that goes with it, so this holds of a fork
only if no explorer has begun to follow it by then, which is what the mishap
`half-made fork` records (`ForkSets(w, IsFollowed(w))`). And the ids seen are of
events up to the cursor, so that what comes next is drawn once
(`AllUnseen`, `Ingested`). A server step that is no mishap leaves histories,
least cursors and the latest snapshot's cursor where they are or further
(`Moves`, `MovesKeep`); a step of a session changes only its own task, and the
store only if the session is the current one (`TaskStep`). To the server each of
these steps is one of its own (`ExplorerIsServer`), so that `ServerSound` holds
beside it. That links have their ends is needed: a link drawn before its end is
left out of a snapshot, and a store that starts from that snapshot does not get
it back when the end is drawn, while the whole history has it. In the run it
holds of every history.

**The editor.** `EditSpec` is `Editor` alone, for any labels, files and starting
graphs of `EditConstants`: the id of a gesture is new (`crypto.randomUUID`), an
id names one node or link, and a file is one that `exportGraphFromState` can have
written. An item on a stack lies `Between` two graphs, `g` without it and `h`
with it: among a set `M` of graphs, those in which it is done in part, every
single command of its undo or redo stays in `M`, and all of its undo, begun
anywhere in `M`, ends in `g`, all of its redo in `h` (`Leads`). So a gesture that
fails half way has only moved within `M`, and the next try ends where the first
would have. For a deletion `M` is the graphs between those with all and those
with none of what it deletes (`Partly`, `ManyDeleted`); this is where all links
have to come back, and where the order of the commands does not matter.
`EditSound` chains the items: from `base` up the undo stack to the graph, and on
down the redo stack (`UndoChain`, `RedoChain`), except that while an undo or
redo is on its way, or was left half done and `hurt` says so, the item on top
holds the graph in its `M` (`HalfUndone`, `HalfRedone`). For an import,
`Importing` says that what is wanted is there or still to be sent, that nothing
is deleted, and that every link it relies on has its ends among what is there or
wanted. `ImportWhole` supposes that the import began with the graph drawn as it
is, with no link without its ends: in mode `merge` a link that dangles counts as
there, and stays dangling.

**The runtime.** `RuntimeSound`: a view in the cache, in a read or carried by a
start is `[cursor |-> c, count |-> c]` with `c` at most what is visible;
snapshots in memory, in the file and, before the rename, in the temporary file
are that for the policy they name; and who writes the file has something to
write; a snapshot whose id names no policy is empty. Under a changed policy the
old snapshot is not reused, which is the part of `isSnapshotReusable` that fails
when the policy is switched off. The three hypotheses are the observations on
the runtime in section 4.

Only model-checked:

- liveness (`EveryCallSettles`, `CatchesUp`, `StartsAgain`):
  the prover has neither fairness nor `ENABLED`;
- `NoFalseDivergence`, which depends on the instance;
- `GatewayReadsWhole`, whose polls are recursive.

## 6. What is left

Every component with a protocol has its module and its theorems. Worth proving
next is the `eventsRead` half of `GatewayReadsWhole`, from the places that a
filter tells (`FilterPlaces`).

## 7. Not modelled, and why

Rendering, layout and packaging (`force-graph`, the 3D adapter, the desktop and
web shells, the page's controls) have no protocol. The conformance suites are
tests; their assertions are what the findings quote. Canonical JSON and
SHA-256 are abstracted to equality of what they cover. Only tests pass
fault-injection hooks. Disk faults below the rename (a
torn file, a lost directory entry after power loss) are outside the code, which
does not call `fsync`; the model's rename is atomic and durable.

Left out of modelled components: a source of followers that compacts (only the
graph server's clients are told of it), failing writes and the time budget in
`Runtime`, dry runs of a purge and failing writes of the catalog, visibility
policies in the graph server, transactions with several graph events there,
overlapping gestures in `Editor`, and hand-written files there that have an id
twice.
