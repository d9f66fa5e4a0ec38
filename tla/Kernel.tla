-------------------------------- MODULE Kernel --------------------------------
(***************************************************************************)
(* KernelMinimalImpl.execute: turns a command into a transaction.  It      *)
(* checks the command's shape, resolves the revision the command was made  *)
(* against to a cursor, asks the authorizer, and appends with that cursor  *)
(* as the required base.  The two awaits let other executions commit in    *)
(* between; the store compares the cursor with its head again, atomically. *)
(*                                                                         *)
(* The store is its contents (EventLog), an append being one step: what    *)
(* InMemoryLocalEventStore does, and what FileStore is shown to implement. *)
(* An execution is at "idle", at "resolving" (execute was called, the base *)
(* is not resolved), at "authorizing" (it is, the authorizer has not       *)
(* answered) or at "appending" (allowed, appendTx not yet run).  The same  *)
(* command may be executed any number of times, also concurrently: a       *)
(* caller that did not hear the answer retries.                            *)
(***************************************************************************)
EXTENDS EventLog, FiniteSets

CONSTANTS Executor,   \* executions that may be in progress at the same time
          Payload,
          Command,    \* the commands callers submit
          Cutoff      \* the snapshot cursors the history may be cut at

Tokens == TxId \cup {"root"}

ASSUME CommandAssumption ==
  /\ Command \subseteq [id : TxId, slot : Slot, payload : Payload \cup {None},
                        base : Tokens \cup {None}]
  /\ None \notin Command /\ None \notin Tokens /\ None \notin Cursor
  /\ "root" \notin TxId
ASSUME CutoffAssumption == Cutoff \subseteq Nat

VARIABLES
  space,     \* the store's contents for the graph space
  at,        \* where each execution is
  cmd,       \* its command
  base,      \* requiredBaseCursor
  log,       \* history: the commands committed, in order
  verdicts,  \* history: the outcomes the store gave commands
  purged     \* history: events have been dropped

vars == <<space, at, cmd, base, log, verdicts, purged>>

Verdict == [cmd : Command, status : {"committed", "payloadMismatch", "revisionMismatch"},
            receipt : Receipt \cup {None}]

TypeOK ==
  /\ space \in Space
  /\ at \in [Executor -> {"idle", "resolving", "authorizing", "appending"}]
  /\ cmd \in [Executor -> Command \cup {None}]
  /\ base \in [Executor -> Cursor \cup {None}]
  /\ log \in Seq(Command)
  /\ verdicts \subseteq Verdict
  /\ purged \in BOOLEAN

Init ==
  /\ space = EmptySpace
  /\ at = [p \in Executor |-> "idle"]
  /\ cmd = [p \in Executor |-> None]
  /\ base = [p \in Executor |-> None]
  /\ log = <<>>
  /\ verdicts = {}
  /\ purged = FALSE

-----------------------------------------------------------------------------
(* The payload hash covers the payload and the base revision.              *)

(* Mutant: the hash covers the payload alone. *)
HashOf_PayloadOnly(c) == [payload |-> c.payload, base |-> None]

HashOf(c) == [payload |-> c.payload, base |-> c.base]

ASSUME HashAssumption == \A c \in Command : HashOf(c) \in Hash

OneGraphEvent == [s \in Streams |-> IF s = "graph" THEN 1 ELSE 0]

(* Mutant: the resolved base is not handed to the store. *)
RequestOf_NoBase(c, b) ==
  [kind |-> "append", tx |-> c.id, slot |-> c.slot, hash |-> HashOf(c),
   n |-> OneGraphEvent, base |-> None]

RequestOf(c, b) ==
  [kind |-> "append", tx |-> c.id, slot |-> c.slot, hash |-> HashOf(c),
   n |-> OneGraphEvent, base |-> b]

(* The execution returns an outcome to its caller. *)
Finish(p) ==
  /\ at' = [at EXCEPT ![p] = "idle"]
  /\ cmd' = [cmd EXCEPT ![p] = None]
  /\ base' = [base EXCEPT ![p] = None]

Reject(p) == Finish(p) /\ UNCHANGED <<space, log, verdicts, purged>>

FinishWith(p, status, receipt) ==
  /\ verdicts' = verdicts \cup {[cmd |-> cmd[p], status |-> status, receipt |-> receipt]}
  /\ Finish(p)

-----------------------------------------------------------------------------
(* The shape of the command and its base revision. *)

Execute(p, c) ==
  /\ at[p] = "idle"
  /\ at' = [at EXCEPT ![p] = "resolving"]
  /\ cmd' = [cmd EXCEPT ![p] = c]
  /\ UNCHANGED <<space, base, log, verdicts, purged>>

RejectMalformed(p) ==
  /\ at[p] = "resolving" /\ cmd[p].payload = None
  /\ Reject(p)

RejectBase(p) ==
  /\ at[p] = "resolving" /\ cmd[p].payload # None
  /\ cmd[p].base # None /\ ResolveRevision(space, cmd[p].base) = None
  /\ Reject(p)

ResolveBase(p) ==
  /\ at[p] = "resolving" /\ cmd[p].payload # None
  /\ IF cmd[p].base = None THEN UNCHANGED base
     ELSE /\ ResolveRevision(space, cmd[p].base) # None
          /\ base' = [base EXCEPT ![p] = ResolveRevision(space, cmd[p].base)]
  /\ at' = [at EXCEPT ![p] = "authorizing"]
  /\ UNCHANGED <<space, cmd, log, verdicts, purged>>

-----------------------------------------------------------------------------
(* The authorizer (the permissive one, or the store's) decides as it likes; *)
(* a denied and a masked command get different outcomes.                    *)

Allow(p) ==
  /\ at[p] = "authorizing"
  /\ at' = [at EXCEPT ![p] = "appending"]
  /\ UNCHANGED <<space, cmd, base, log, verdicts, purged>>

DenyOrMask(p) ==
  /\ at[p] = "authorizing"
  /\ Reject(p)

-----------------------------------------------------------------------------
(* appendTx *)

CommitCommand(p) ==
  LET r == RequestOf(cmd[p], base[p]) IN
  /\ at[p] = "appending" /\ Commits(space, r)
  /\ space' = AppendTx(space, r)
  /\ log' = Append(log, cmd[p])
  /\ FinishWith(p, "committed", ReceiptOf(space, r))
  /\ UNCHANGED purged

ReplayReceipt(p) ==
  LET r == RequestOf(cmd[p], base[p]) IN
  /\ at[p] = "appending" /\ IsReplay(space, r)
  /\ \E o \in OutcomesAt(space, r.slot) : FinishWith(p, "committed", o.receipt)
  /\ UNCHANGED <<space, log, purged>>

RejectCommand(p) ==
  LET r == RequestOf(cmd[p], base[p]) IN
  /\ at[p] = "appending" /\ Rejects(space, r)
  /\ FinishWith(p, IF IsKnown(space, r) THEN "payloadMismatch" ELSE "revisionMismatch", None)
  /\ UNCHANGED <<space, log, purged>>

-----------------------------------------------------------------------------
(* compactUpToCursor on the same store, at the graph sequence number of an *)
(* earlier snapshot (purgeHistory of the graph server).                    *)
Purge(k) ==
  /\ k <= Len(log) /\ PrunedTxIds(space, k) # {}
  /\ space' = Compact(space, k)
  /\ purged' = TRUE
  /\ UNCHANGED <<at, cmd, base, log, verdicts>>

Next ==
  \/ \E p \in Executor :
       \/ \E c \in Command : Execute(p, c)
       \/ RejectMalformed(p) \/ RejectBase(p) \/ ResolveBase(p)
       \/ Allow(p) \/ DenyOrMask(p)
       \/ CommitCommand(p) \/ ReplayReceipt(p) \/ RejectCommand(p)
  \/ \E k \in Cutoff : Purge(k)

Spec == Init /\ [][Next]_vars

-----------------------------------------------------------------------------
(* Safety.  The first three hold until the history is purged: purging moves *)
(* the head back to cursors that earlier revisions already had.             *)

(* A committed command directly follows the revision it was made against:  *)
(* nothing is committed between what its author saw and its transaction,   *)
(* although execute awaits twice between the resolution and the append.    *)
CommitsFollowBase ==
  purged \/ \A i \in DOMAIN log :
    log[i].base # None =>
      IF log[i].base = "root" THEN i = 1 ELSE i > 1 /\ log[i - 1].id = log[i].base

(* A command answered as committed is in the log, at the place its receipt *)
(* names, with its own payload and base, whichever execution committed it. *)
AnswersMatchLog ==
  purged \/ \A v \in verdicts : v.status = "committed" =>
    /\ v.receipt.txIndex \in DOMAIN log
    /\ LET c == log[v.receipt.txIndex] IN
       /\ c.slot = v.cmd.slot /\ HashOf(c) = HashOf(v.cmd)
       /\ c.payload = v.cmd.payload /\ c.base = v.cmd.base
       /\ c.id = v.receipt.tx

(* The verdict on a command's merits is final: once it is committed it is  *)
(* never answered as a conflict, and once it is a conflict it never commits, *)
(* however often and by however many executions it is retried.             *)
VerdictIsFinal ==
  purged \/ \A v, w \in verdicts :
    (v.cmd = w.cmd /\ v.status = "committed") => w.status = "committed"

(* A slot commits once, also when the transaction it committed is purged:  *)
(* all its confirmations carry one receipt, and the log has it once.       *)
OneCommitPerSlot ==
  /\ \A v, w \in verdicts :
       (v.status = "committed" /\ w.status = "committed" /\ v.cmd.slot = w.cmd.slot) =>
         v.receipt = w.receipt
  /\ \A i, j \in DOMAIN log : log[i].slot = log[j].slot => i = j

(* Of the commands made against the same revision, at most one commits.    *)
OneWinnerPerBase ==
  \A i, j \in DOMAIN log :
    (log[i].base # None /\ log[i].base = log[j].base) => i = j
=============================================================================
