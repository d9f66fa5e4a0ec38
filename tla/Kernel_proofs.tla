----------------------------- MODULE Kernel_proofs -----------------------------
(***************************************************************************)
(* Proofs about Kernel for every set of commands and any number of         *)
(* concurrent executions and purges.                                       *)
(*                                                                         *)
(* 1. KernelTypes and SlotsCommitOnce, under the purges too: everything    *)
(*    has its type, and a slot commits once, also when it is purged.       *)
(* 2. CommitsFollowTheirBase, VerdictsAreFinal, AnswersAreInLog and        *)
(*    OneWinnerUntilPurged: until the history is purged.  The argument: a  *)
(*    revision token denotes the first position of the log that carries    *)
(*    its id; that position never changes, the cursor an execution         *)
(*    resolved is the cursor at it, and the cursors at different positions *)
(*    differ, so the store's comparison of cursors is a comparison of      *)
(*    positions with the length of the log.                                *)
(***************************************************************************)
EXTENDS Kernel, EventLog_proofs

-----------------------------------------------------------------------------
(* The executions *)

ExecInv ==
  /\ log \in Seq(Command)
  /\ at \in [Executor -> {"idle", "resolving", "authorizing", "appending"}]
  /\ cmd \in [Executor -> Command \cup {None}]
  /\ base = [p \in Executor |-> base[p]]
  /\ \A p \in Executor : at[p] # "idle" => cmd[p] \in Command
  /\ \A p \in Executor : at[p] \in {"idle", "resolving"} => base[p] = None

(* The steps that end an execution, and those that move one on. *)
LEMMA FinishKeepsExec ==
  ASSUME ExecInv, NEW p \in Executor, Finish(p), log' \in Seq(Command)
  PROVE  ExecInv'
  BY DEF ExecInv, Finish

(* The initial state. *)
LEMMA ExecInit == Init => ExecInv
  BY DEF Init, ExecInv

(* Every step keeps the executions well formed. *)
LEMMA ExecStep == ExecInv /\ [Next]_vars => ExecInv'
  <1> SUFFICES ASSUME ExecInv, [Next]_vars PROVE ExecInv'
    OBVIOUS
  <1>1. ASSUME NEW p \in Executor, NEW c \in Command, Execute(p, c) PROVE ExecInv'
    BY <1>1 DEF Execute, ExecInv
  <1>2. ASSUME NEW p \in Executor, RejectMalformed(p) \/ RejectBase(p) \/ DenyOrMask(p) PROVE ExecInv'
    BY <1>2, FinishKeepsExec DEF RejectMalformed, RejectBase, DenyOrMask, Reject, ExecInv
  <1>3. ASSUME NEW p \in Executor, ResolveBase(p) PROVE ExecInv'
    BY <1>3 DEF ResolveBase, ExecInv
  <1>4. ASSUME NEW p \in Executor, Allow(p) PROVE ExecInv'
    BY <1>4 DEF Allow, ExecInv
  <1>5. ASSUME NEW p \in Executor, CommitCommand(p) PROVE ExecInv'
    <2>1. log' \in Seq(Command) /\ Finish(p)
      BY <1>5 DEF CommitCommand, FinishWith, ExecInv
    <2> QED
      BY <2>1, FinishKeepsExec
  <1>6. ASSUME NEW p \in Executor, ReplayReceipt(p) \/ RejectCommand(p) PROVE ExecInv'
    BY <1>6, FinishKeepsExec DEF ReplayReceipt, RejectCommand, FinishWith, ExecInv
  <1>7. CASE (\E k \in Cutoff : Purge(k)) \/ UNCHANGED vars
    BY <1>7 DEF Purge, vars, ExecInv
  <1> QED
    BY <1>1, <1>2, <1>3, <1>4, <1>5, <1>6, <1>7 DEF Next

-----------------------------------------------------------------------------
(* Types *)

(* A revision resolves to a cursor, or to none. *)
LEMMA ResolveType ==
  ASSUME NEW sp \in Space, NEW token
  PROVE  ResolveRevision(sp, token) \in Cursor \cup {None}
  <1> DEFINE hits == EntriesOf(sp.txIndex, token)
  <1>1. CASE token = "root"
    BY <1>1 DEF ResolveRevision, Cursor
  <1>2. CASE token # "root" /\ hits = {}
    BY <1>2 DEF ResolveRevision
  <1>3. CASE token # "root" /\ hits # {}
    <2>1. hits \in SUBSET Nat /\ \A i \in hits : i \in 1 .. Len(sp.txIndex)
      BY DEF Space, EntriesOf
    <2>2. \E i \in hits : \A j \in hits : i <= j
      BY <1>3, <2>1, LeastOf
    <2> DEFINE first == CHOOSE i \in hits : \A j \in hits : i <= j
    <2>3. first \in hits
      BY <2>2
    <2>4. ResolveRevision(sp, token) = sp.txIndex[first].end
      BY <1>3 DEF ResolveRevision
    <2> HIDE DEF first, hits
    <2>5. sp.txIndex[first] \in Entry
      BY <2>1, <2>3 DEF Space
    <2> QED
      BY <2>4, <2>5 DEF Entry
  <1> QED
    BY <1>1, <1>2, <1>3

(* What is appended is an append. *)
LEMMA RequestIsAppend ==
  ASSUME NEW c \in Command, NEW b \in Cursor \cup {None}
  PROVE  RequestOf(c, b) \in AppendRequest
  <1>1. c.id \in TxId /\ c.slot \in Slot /\ HashOf(c) \in Hash
    BY CommandAssumption, HashAssumption
  <1>2. OneGraphEvent \in Cursor
    BY DEF OneGraphEvent, Cursor, Streams
  <1> QED
    BY <1>1, <1>2 DEF RequestOf, AppendRequest

(* A verdict is recorded with the command it is on. *)
LEMMA VerdictType ==
  ASSUME TypeOK, NEW p \in Executor, cmd[p] \in Command,
         NEW status \in {"committed", "payloadMismatch", "revisionMismatch"},
         NEW receipt \in Receipt \cup {None}, FinishWith(p, status, receipt),
         space' \in Space, log' \in Seq(Command), purged' = purged
  PROVE  TypeOK'
  <1>1. [cmd |-> cmd[p], status |-> status, receipt |-> receipt] \in Verdict
    BY DEF Verdict
  <1> QED
    BY <1>1 DEF TypeOK, FinishWith, Finish

(* Every step, under the purges too: what is stored is a space, and every    *)
(* answer has its form (execute).                                            *)
THEOREM KernelTypes == Spec => []TypeOK
  <1>1. Init => TypeOK
    <2> SUFFICES ASSUME Init PROVE TypeOK
      OBVIOUS
    <2>1. space \in Space
      BY EmptySpaceType DEF Init
    <2>2. log = <<>> /\ <<>> \in Seq(Command)
      BY DEF Init
    <2>4. purged \in BOOLEAN
      BY Zenon DEF Init
    <2>5. verdicts \subseteq Verdict
      BY Zenon DEF Init
    <2>3. /\ at \in [Executor -> {"idle", "resolving", "authorizing", "appending"}]
          /\ cmd \in [Executor -> Command \cup {None}]
          /\ base \in [Executor -> Cursor \cup {None}]
      BY DEF Init
    <2> QED
      BY <2>1, <2>2, <2>3, <2>4, <2>5 DEF TypeOK
  <1>2. TypeOK /\ ExecInv /\ [Next]_vars => TypeOK'
    <2> SUFFICES ASSUME TypeOK, ExecInv, [Next]_vars PROVE TypeOK'
      OBVIOUS
    <2>1. ASSUME NEW p \in Executor, NEW c \in Command, Execute(p, c) PROVE TypeOK'
      BY <2>1 DEF Execute, TypeOK
    <2>2. ASSUME NEW p \in Executor, RejectMalformed(p) \/ RejectBase(p) \/ DenyOrMask(p)
          PROVE  TypeOK'
      BY <2>2 DEF RejectMalformed, RejectBase, DenyOrMask, Reject, Finish, TypeOK
    <2>3. ASSUME NEW p \in Executor, ResolveBase(p) PROVE TypeOK'
      <3>1. ResolveRevision(space, cmd[p].base) \in Cursor \cup {None}
        BY ResolveType DEF TypeOK
      <3> QED
        BY <2>3, <3>1 DEF ResolveBase, TypeOK
    <2>4. ASSUME NEW p \in Executor, Allow(p) PROVE TypeOK'
      BY <2>4 DEF Allow, TypeOK
    \* appendTx
    <2>5. ASSUME NEW p \in Executor, at[p] = "appending"
          PROVE  cmd[p] \in Command /\ RequestOf(cmd[p], base[p]) \in AppendRequest
      BY <2>5, RequestIsAppend DEF ExecInv, TypeOK
    <2>6. ASSUME NEW p \in Executor, CommitCommand(p) PROVE TypeOK'
      <3> DEFINE r == RequestOf(cmd[p], base[p])
      <3>1. /\ at[p] = "appending" /\ space' = AppendTx(space, r) /\ log' = Append(log, cmd[p])
            /\ FinishWith(p, "committed", ReceiptOf(space, r)) /\ purged' = purged
        BY <2>6 DEF CommitCommand
      <3>2. cmd[p] \in Command /\ r \in AppendRequest /\ space \in Space
        BY <2>5, <3>1 DEF TypeOK
      <3>3. space' \in Space /\ OutcomeOf(space, r) \in space'.idem
        BY <3>1, <3>2, AppendTxType, AppendTxEffect
      <3>4. OutcomeOf(space, r) \in Outcome /\ OutcomeOf(space, r).receipt = ReceiptOf(space, r)
        BY <3>3 DEF Space, OutcomeOf
      <3>5. ReceiptOf(space, r) \in Receipt
        BY <3>4 DEF Outcome
      <3>6. log' \in Seq(Command)
        BY <3>1, <3>2 DEF TypeOK
      <3> QED
        BY <3>1, <3>2, <3>3, <3>5, <3>6, VerdictType
    <2>7. ASSUME NEW p \in Executor, ReplayReceipt(p) PROVE TypeOK'
      <3>1. PICK o \in space.idem : FinishWith(p, "committed", o.receipt)
        BY <2>7 DEF ReplayReceipt, OutcomesAt
      <3>2. at[p] = "appending" /\ UNCHANGED <<space, log, purged>>
        BY <2>7 DEF ReplayReceipt
      <3>3. o \in Outcome
        BY <3>1 DEF TypeOK, Space
      <3>4. o.receipt \in Receipt
        BY <3>3 DEF Outcome
      <3>5. cmd[p] \in Command /\ space' \in Space /\ log' \in Seq(Command) /\ purged' = purged
        BY <2>5, <3>2 DEF TypeOK
      <3> QED
        BY <3>1, <3>4, <3>5, VerdictType
    <2>8. ASSUME NEW p \in Executor, RejectCommand(p) PROVE TypeOK'
      <3> DEFINE r == RequestOf(cmd[p], base[p])
                 status == IF IsKnown(space, r) THEN "payloadMismatch" ELSE "revisionMismatch"
      <3>1. /\ at[p] = "appending" /\ FinishWith(p, status, None)
            /\ UNCHANGED <<space, log, purged>>
        BY <2>8 DEF RejectCommand
      <3>2. status \in {"committed", "payloadMismatch", "revisionMismatch"}
        OBVIOUS
      <3>3. cmd[p] \in Command /\ space' \in Space /\ log' \in Seq(Command) /\ purged' = purged
        BY <2>5, <3>1 DEF TypeOK
      <3> HIDE DEF status
      <3> QED
        BY <3>1, <3>2, <3>3, VerdictType
    <2>9. ASSUME NEW k \in Cutoff, Purge(k) PROVE TypeOK'
      BY <2>9, CompactType DEF Purge, TypeOK
    <2>10. CASE UNCHANGED vars
      BY <2>10 DEF vars, TypeOK
    <2> QED
      BY <2>1, <2>2, <2>3, <2>4, <2>6, <2>7, <2>8, <2>9, <2>10 DEF Next
  <1> QED
    BY <1>1, <1>2, ExecInit, ExecStep, PTL DEF Spec

-----------------------------------------------------------------------------
(* Slots *)

(* The store has one outcome per slot, one for each command of the log, and *)
(* every confirmation is one of them.                                       *)
SlotInv ==
  /\ \A o, q \in space.idem : o.slot = q.slot => o = q
  /\ \A v \in verdicts : v.status = "committed" =>
       \E o \in space.idem : /\ o.slot = v.cmd.slot /\ o.receipt = v.receipt
                             /\ o.hash = HashOf(v.cmd)
  /\ \A i \in 1 .. Len(log) : \E o \in space.idem : o.slot = log[i].slot
  /\ \A i, j \in 1 .. Len(log) : log[i].slot = log[j].slot => i = j

(* The initial state. *)
LEMMA SlotInit == Init => SlotInv
  BY DEF Init, SlotInv, EmptySpace

(* What a commit does to the outcomes. *)
LEMMA CommitOutcome ==
  ASSUME ExecInv, NEW p \in Executor, CommitCommand(p)
  PROVE  \E o : /\ space'.idem = space.idem \cup {o}
                /\ o.slot = cmd[p].slot /\ o.hash = HashOf(cmd[p])
                /\ o.receipt = ReceiptOf(space, RequestOf(cmd[p], base[p]))
                /\ \A q \in space.idem : q.slot # cmd[p].slot
                /\ verdicts' = verdicts \cup
                     {[cmd |-> cmd[p], status |-> "committed", receipt |-> o.receipt]}
  <1> DEFINE r == RequestOf(cmd[p], base[p])
  <1>1. /\ space' = AppendTx(space, r) /\ ~IsKnown(space, r)
        /\ verdicts' = verdicts \cup
             {[cmd |-> cmd[p], status |-> "committed", receipt |-> ReceiptOf(space, r)]}
    BY DEF CommitCommand, Commits, FinishWith
  <1>2. space'.idem = space.idem \cup {OutcomeOf(space, r)}
    BY <1>1 DEF AppendTx
  <1>3. /\ OutcomeOf(space, r).slot = cmd[p].slot /\ OutcomeOf(space, r).hash = HashOf(cmd[p])
        /\ OutcomeOf(space, r).receipt = ReceiptOf(space, r)
    BY DEF OutcomeOf, RequestOf
  <1>4. \A q \in space.idem : q.slot # cmd[p].slot
    BY <1>1 DEF IsKnown, OutcomesAt, RequestOf
  <1> QED
    BY <1>1, <1>2, <1>3, <1>4

(* Every step: an outcome already stored under a slot answers for it. *)
LEMMA SlotStep == ExecInv /\ SlotInv /\ [Next]_vars => SlotInv'
  <1> SUFFICES ASSUME ExecInv, SlotInv, [Next]_vars PROVE SlotInv'
    OBVIOUS
  \* Most steps touch neither the outcomes nor the log nor the verdicts.
  <1>1. CASE UNCHANGED <<space, log, verdicts>>
    BY <1>1 DEF SlotInv
  <1>2. ASSUME NEW p \in Executor, CommitCommand(p) PROVE SlotInv'
    <2>1. PICK o : /\ space'.idem = space.idem \cup {o}
                   /\ o.slot = cmd[p].slot /\ o.hash = HashOf(cmd[p])
                   /\ \A q \in space.idem : q.slot # cmd[p].slot
                   /\ verdicts' = verdicts \cup
                        {[cmd |-> cmd[p], status |-> "committed", receipt |-> o.receipt]}
      BY <1>2, CommitOutcome
    <2>2. /\ log \in Seq(Command) /\ log' = Append(log, cmd[p]) /\ cmd[p] \in Command
      BY <1>2 DEF CommitCommand, ExecInv
    <2>3. /\ Len(log') = Len(log) + 1 /\ Len(log) \in Nat
          /\ \A i \in 1 .. Len(log) : log'[i] = log[i]
          /\ log'[Len(log) + 1] = cmd[p]
      BY <2>2
    <2>4. \A a, q \in space'.idem : a.slot = q.slot => a = q
      BY <2>1 DEF SlotInv
    <2>5. \A v \in verdicts' : v.status = "committed" =>
            \E a \in space'.idem : a.slot = v.cmd.slot /\ a.receipt = v.receipt /\ a.hash = HashOf(v.cmd)
      BY <2>1 DEF SlotInv
    <2>6. \A i \in 1 .. Len(log') : \E a \in space'.idem : a.slot = log'[i].slot
      BY <2>1, <2>3 DEF SlotInv
    <2>7. \A i \in 1 .. Len(log) : log[i].slot # cmd[p].slot
      BY <2>1 DEF SlotInv
    <2>8. \A i, j \in 1 .. Len(log') : log'[i].slot = log'[j].slot => i = j
      BY <2>3, <2>7 DEF SlotInv
    <2> QED
      BY <2>4, <2>5, <2>6, <2>8 DEF SlotInv
  <1>3. ASSUME NEW p \in Executor, ReplayReceipt(p) PROVE SlotInv'
    <2>1. PICK o \in space.idem : /\ o.slot = cmd[p].slot /\ o.hash = HashOf(cmd[p])
                                  /\ verdicts' = verdicts \cup
                                       {[cmd |-> cmd[p], status |-> "committed", receipt |-> o.receipt]}
      BY <1>3 DEF ReplayReceipt, FinishWith, IsReplay, OutcomesAt, RequestOf
    <2>2. UNCHANGED <<space, log>>
      BY <1>3 DEF ReplayReceipt
    <2> QED
      BY <2>1, <2>2 DEF SlotInv
  <1>4. ASSUME NEW p \in Executor, RejectCommand(p) PROVE SlotInv'
    <2>1. \A v \in verdicts' : v.status = "committed" => v \in verdicts
      BY <1>4 DEF RejectCommand, FinishWith
    <2>2. UNCHANGED <<space, log>>
      BY <1>4 DEF RejectCommand
    <2> QED
      BY <2>1, <2>2 DEF SlotInv
  <1>5. ASSUME NEW k \in Cutoff, Purge(k) PROVE SlotInv'
    <2>1. space'.idem = space.idem /\ UNCHANGED <<log, verdicts>>
      BY <1>5 DEF Purge, Compact
    <2> QED
      BY <2>1 DEF SlotInv
  <1> QED
    BY <1>1, <1>2, <1>3, <1>4, <1>5 DEF Next, Execute, RejectMalformed, RejectBase, ResolveBase, Allow,
       DenyOrMask, Reject, vars

(* A slot commits once: its confirmations carry one receipt and the log    *)
(* has it once, however often the command is retried, by however many      *)
(* executions at the same time, and whether or not its transaction has     *)
(* been purged in between.                                                 *)
THEOREM SlotsCommitOnce == Spec => []OneCommitPerSlot
  <1>1. Init => ExecInv /\ SlotInv
    BY ExecInit, SlotInit
  <1>2. ExecInv /\ SlotInv /\ [Next]_vars => ExecInv' /\ SlotInv'
    BY ExecStep, SlotStep
  <1>3. ExecInv /\ SlotInv => OneCommitPerSlot
    <2> SUFFICES ASSUME ExecInv, SlotInv PROVE OneCommitPerSlot
      OBVIOUS
    <2>1. DOMAIN log = 1 .. Len(log)
      BY DEF ExecInv
    <2> QED
      BY <2>1 DEF SlotInv, OneCommitPerSlot
  <1> QED
    BY <1>1, <1>2, <1>3, PTL DEF Spec

-----------------------------------------------------------------------------
(* Revisions, until the history is purged *)

CursorAt(k) == [s \in Streams |-> IF s = "graph" THEN k ELSE 0]

(* The position of a log that a revision token denotes. *)
Denotes(l, token, k) ==
  \/ token = "root" /\ k = 0
  \/ /\ k \in 1 .. Len(l) /\ l[k].id = token
     /\ \A m \in 1 .. Len(l) : l[m].id = token => k <= m

(* The store's index mirrors the log, and its head is the log's length. *)
MirrorInv ==
  /\ space \in Space
  /\ Len(space.txIndex) = Len(log)
  /\ \A i \in 1 .. Len(log) : space.txIndex[i].tx = log[i].id /\ space.txIndex[i].end = CursorAt(i)
  /\ CursorHead(space) = CursorAt(Len(log))

(* The outcomes describe the log. *)
OutcomeInv ==
  \A o \in space.idem :
    /\ o.receipt.txIndex \in 1 .. Len(log)
    /\ LET c == log[o.receipt.txIndex] IN
       c.slot = o.slot /\ HashOf(c) = o.hash /\ c.id = o.receipt.tx

(* An execution past the resolution holds the cursor its token denotes. *)
ResolvedInv ==
  \A p \in Executor : at[p] \in {"authorizing", "appending"} =>
    IF cmd[p].base = None THEN base[p] = None
    ELSE \E k \in 0 .. Len(log) : Denotes(log, cmd[p].base, k) /\ base[p] = CursorAt(k)

(* Each command of the log directly follows the position its base denotes. *)
FollowInv ==
  \A i \in 1 .. Len(log) : log[i].base # None => Denotes(log, log[i].base, i - 1)

(* A rejection stands: the slot has another payload, or the base has been *)
(* followed by another command and no outcome of the slot is this one's.  *)
RejectedInv ==
  \A v \in verdicts : v.status # "committed" =>
    \/ \E o \in space.idem : o.slot = v.cmd.slot /\ o.hash # HashOf(v.cmd)
    \/ /\ v.cmd.base # None
       /\ \E k \in 0 .. Len(log) - 1 : Denotes(log, v.cmd.base, k)
       /\ \A o \in space.idem : o.slot = v.cmd.slot => o.hash # HashOf(v.cmd)

LogInv == MirrorInv /\ OutcomeInv /\ ResolvedInv /\ FollowInv /\ RejectedInv

KernelInv == ExecInv /\ SlotInv /\ (purged \/ LogInv)

(* A token denotes one position at most, and keeps it when the log grows. *)
LEMMA DenotesOnce ==
  ASSUME NEW token, NEW k \in Nat, NEW m \in Nat, Denotes(log, token, k), Denotes(log, token, m), ExecInv
  PROVE  k = m
  <1>1. \A i \in 1 .. Len(log) : log[i].id # "root"
    BY CommandAssumption DEF ExecInv
  <1> QED
    BY <1>1 DEF Denotes

(* A revision resolved to a cursor keeps it when the log grows at its end. *)
LEMMA DenotesKept ==
  ASSUME NEW token, NEW k \in Nat, NEW c \in Command, Denotes(log, token, k), ExecInv,
         log' = Append(log, c)
  PROVE  Denotes(log', token, k)
  <1>1. /\ Len(log') = Len(log) + 1 /\ Len(log) \in Nat
        /\ \A i \in 1 .. Len(log) : log'[i] = log[i]
    BY DEF ExecInv
  <1> QED
    BY <1>1 DEF Denotes

(* The cursors at different positions differ, and are not None. *)
LEMMA CursorsDiffer ==
  ASSUME NEW k \in Nat, NEW m \in Nat
  PROVE  /\ CursorAt(k) = CursorAt(m) => k = m
         /\ CursorAt(k) \in Cursor /\ CursorAt(k) # None
  <1>1. CursorAt(k)["graph"] = k /\ CursorAt(m)["graph"] = m
    BY DEF CursorAt, Streams
  <1>2. CursorAt(k) \in Cursor
    BY DEF CursorAt, Cursor
  <1> QED
    BY <1>1, <1>2, CommandAssumption

(* The request an execution hands to the store has its type. *)
LEMMA RequestType ==
  ASSUME ExecInv, ResolvedInv, NEW p \in Executor, at[p] = "appending"
  PROVE  /\ RequestOf(cmd[p], base[p]) \in AppendRequest
         /\ cmd[p] \in Command
  <1>1. cmd[p] \in Command /\ Len(log) \in Nat
    BY DEF ExecInv
  <1>2. base[p] \in Cursor \cup {None}
    BY <1>1, CursorsDiffer DEF ResolvedInv
  <1>3. cmd[p].id \in TxId /\ cmd[p].slot \in Slot /\ HashOf(cmd[p]) \in Hash
    BY <1>1, CommandAssumption, HashAssumption
  <1>4. OneGraphEvent \in Cursor
    BY DEF OneGraphEvent, Cursor
  <1> QED
    BY <1>1, <1>2, <1>3, <1>4 DEF RequestOf, AppendRequest

(* The initial state. *)
LEMMA LogInit == Init => LogInv
  <1> SUFFICES ASSUME Init PROVE LogInv
    OBVIOUS
  <1>1. Len(log) = 0 /\ space = EmptySpace /\ verdicts = {}
    BY DEF Init
  <1>2. MirrorInv
    <2>1. CursorHead(space) = CursorAt(0)
      BY <1>1 DEF CursorHead, CursorAt, EmptySpace
    <2> QED
      BY <1>1, <2>1, EmptySpaceType DEF MirrorInv, EmptySpace
  <1>3. OutcomeInv /\ ResolvedInv /\ FollowInv /\ RejectedInv
    BY <1>1 DEF Init, EmptySpace, OutcomeInv, ResolvedInv, FollowInv, RejectedInv
  <1> QED
    BY <1>2, <1>3 DEF LogInv

(* Resolving a token against the mirrored log gives the cursor at the      *)
(* position the token denotes.                                             *)
LEMMA ResolveDenotes ==
  ASSUME ExecInv, MirrorInv, NEW c \in Command, c.base # None,
         ResolveRevision(space, c.base) # None
  PROVE  \E k \in 0 .. Len(log) : Denotes(log, c.base, k) /\ ResolveRevision(space, c.base) = CursorAt(k)
  <1>1. Len(log) \in Nat /\ space \in Space /\ Len(space.txIndex) = Len(log)
    BY DEF ExecInv, MirrorInv
  <1>2. CASE c.base = "root"
    <2>1. ResolveRevision(space, c.base) = CursorAt(0)
      BY <1>2 DEF ResolveRevision, CursorAt
    <2> QED
      BY <1>1, <1>2, <2>1 DEF Denotes
  <1>3. CASE c.base # "root"
    <2>1. PICK k \in 1 .. Len(space.txIndex) :
              /\ space.txIndex[k].tx = c.base
              /\ \A j \in 1 .. Len(space.txIndex) : space.txIndex[j].tx = c.base => k <= j
              /\ ResolveRevision(space, c.base) = space.txIndex[k].end
      BY <1>1, <1>3, ResolveProperties
    <2>2. k \in 1 .. Len(log) /\ Denotes(log, c.base, k) /\ ResolveRevision(space, c.base) = CursorAt(k)
      BY <1>1, <2>1 DEF MirrorInv, Denotes
    <2> QED
      BY <1>1, <2>2
  <1> QED
    BY <1>2, <1>3

(* What a commit appends, on the log and on the index. *)
LEMMA CommitMirror ==
  ASSUME ExecInv, MirrorInv, ResolvedInv, NEW p \in Executor, CommitCommand(p)
  PROVE  MirrorInv'
  <1> DEFINE r == RequestOf(cmd[p], base[p])
             n == Len(log)
  <1>1. /\ space' = AppendTx(space, r) /\ log' = Append(log, cmd[p])
        /\ r \in AppendRequest /\ cmd[p] \in Command /\ n \in Nat
        /\ r.tx = cmd[p].id /\ r.n = OneGraphEvent
    BY RequestType DEF CommitCommand, ExecInv, RequestOf
  <1>2. /\ Len(log') = n + 1 /\ log'[n + 1] = cmd[p]
        /\ \A i \in 1 .. n : log'[i] = log[i]
    BY <1>1 DEF ExecInv
  <1>3. \A s \in Streams : Len(space.ev[s]) = IF s = "graph" THEN n ELSE 0
    <2>1. \A s \in Streams : CursorHead(space)[s] = Len(space.ev[s])
      BY DEF CursorHead
    <2>2. \A s \in Streams : CursorAt(n)[s] = IF s = "graph" THEN n ELSE 0
      BY DEF CursorAt
    <2> QED
      BY <2>1, <2>2 DEF MirrorInv
  <1>4. EntryOf(space, r).tx = cmd[p].id /\ EntryOf(space, r).end = CursorAt(n + 1)
    BY <1>1, <1>3 DEF EntryOf, CursorAt, OneGraphEvent, Streams
  <1>5. CursorHead(space') = CursorAt(n + 1)
    <2>1. \A s \in Streams : Len(space'.ev[s]) = Len(space.ev[s]) + r.n[s]
      BY <1>1, AppendTxEffect DEF MirrorInv
    <2>2. \A s \in Streams : r.n[s] = IF s = "graph" THEN 1 ELSE 0
      BY <1>1, Zenon DEF OneGraphEvent
    <2>3. \A s \in Streams : Len(space'.ev[s]) = IF s = "graph" THEN n + 1 ELSE 0
      <3> SUFFICES ASSUME NEW s \in Streams
                   PROVE  Len(space'.ev[s]) = IF s = "graph" THEN n + 1 ELSE 0
        OBVIOUS
      <3> HIDE DEF r
      <3> QED
        BY <1>1, <1>3, <2>1, <2>2
    <2> QED
      BY <2>3 DEF CursorHead, CursorAt
  <1>6. space' \in Space
    BY <1>1, AppendTxType DEF MirrorInv
  <1>7. /\ Len(space'.txIndex) = n + 1
        /\ \A i \in 1 .. n : space'.txIndex[i] = space.txIndex[i]
        /\ space'.txIndex[n + 1] = EntryOf(space, r)
    BY <1>1, AppendTxEffect DEF MirrorInv
  <1>8. \A i \in 1 .. Len(log') : space'.txIndex[i].tx = log'[i].id /\ space'.txIndex[i].end = CursorAt(i)
    BY <1>1, <1>2, <1>4, <1>7 DEF MirrorInv
  <1> QED
    BY <1>2, <1>5, <1>6, <1>7, <1>8 DEF MirrorInv

(* A commit happens at the position its base denotes. *)
LEMMA CommitOnBase ==
  ASSUME ExecInv, MirrorInv, ResolvedInv, NEW p \in Executor, CommitCommand(p), cmd[p].base # None
  PROVE  Denotes(log, cmd[p].base, Len(log))
  <1>1. Len(log) \in Nat /\ at[p] = "appending"
    BY DEF ExecInv, CommitCommand
  <1>2. PICK k \in 0 .. Len(log) : Denotes(log, cmd[p].base, k) /\ base[p] = CursorAt(k)
    BY <1>1 DEF ResolvedInv
  <1>3. ~IsStale(space, RequestOf(cmd[p], base[p]))
    BY DEF CommitCommand, Commits
  <1>4. base[p] = CursorAt(Len(log))
    BY <1>1, <1>2, <1>3, CursorsDiffer DEF IsStale, RequestOf, MirrorInv
  <1>5. k \in Nat /\ CursorAt(k) = CursorAt(Len(log))
    BY <1>1, <1>2, <1>4
  <1>6. k = Len(log)
    BY <1>1, <1>5, CursorsDiffer, Zenon
  <1> QED
    BY <1>2, <1>6

(* A step that leaves the store and the history alone keeps what is said of *)
(* them; what is said of the executions is left to show.                    *)
LEMMA LogKept ==
  ASSUME LogInv, UNCHANGED <<space, log, verdicts>>, ResolvedInv'
  PROVE  LogInv'
  BY DEF LogInv, MirrorInv, OutcomeInv, FollowInv, RejectedInv, Denotes

(* Ending an execution says nothing new about the others. *)
LEMMA FinishKeepsResolved ==
  ASSUME ExecInv, ResolvedInv, NEW p \in Executor, Finish(p), UNCHANGED log
  PROVE  ResolvedInv'
  BY DEF ExecInv, ResolvedInv, Finish, Denotes

(* A commit. *)
LEMMA CommitLog ==
  ASSUME ExecInv, SlotInv, LogInv, NEW p \in Executor, CommitCommand(p)
  PROVE  LogInv'
  <1> DEFINE c == cmd[p]
             n == Len(log)
             r == RequestOf(c, base[p])
  <1>1. MirrorInv /\ OutcomeInv /\ ResolvedInv /\ FollowInv /\ RejectedInv
    BY DEF LogInv
  <1>2. MirrorInv'
    BY <1>1, CommitMirror
  <1>3. PICK o : /\ space'.idem = space.idem \cup {o}
                 /\ o.slot = c.slot /\ o.hash = HashOf(c)
                 /\ o.receipt = ReceiptOf(space, r)
                 /\ \A q \in space.idem : q.slot # c.slot
                 /\ verdicts' = verdicts \cup
                      {[cmd |-> c, status |-> "committed", receipt |-> o.receipt]}
    BY CommitOutcome
  <1>4. /\ log' = Append(log, c) /\ c \in Command /\ Finish(p) /\ n \in Nat /\ log \in Seq(Command)
    BY RequestType, <1>1 DEF CommitCommand, FinishWith, ExecInv
  <1>5. /\ Len(log') = n + 1 /\ log'[n + 1] = c
        /\ \A i \in 1 .. n : log'[i] = log[i]
    BY <1>4
  <1>6. \A token : \A k \in Nat : Denotes(log, token, k) => Denotes(log', token, k)
    BY <1>4, DenotesKept
  <1>7. OutcomeInv'
    <2>1. o.receipt.txIndex = n + 1 /\ o.receipt.tx = c.id
      BY <1>1, <1>3 DEF MirrorInv, ReceiptOf, RequestOf
    <2> QED
      BY <1>1, <1>3, <1>4, <1>5, <2>1 DEF OutcomeInv
  <1>8. ResolvedInv'
    <2> SUFFICES ASSUME NEW q \in Executor, at'[q] \in {"authorizing", "appending"}
                 PROVE  IF cmd'[q].base = None THEN base'[q] = None
                        ELSE \E k \in 0 .. Len(log') : Denotes(log', cmd'[q].base, k) /\ base'[q] = CursorAt(k)
      BY DEF ResolvedInv
    <2>1. at'[q] = at[q] /\ cmd'[q] = cmd[q] /\ base'[q] = base[q]
      BY <1>4 DEF Finish, ExecInv
    <2>2. CASE cmd[q].base = None
      BY <1>1, <2>1, <2>2 DEF ResolvedInv
    <2>3. CASE cmd[q].base # None
      <3>1. PICK k \in 0 .. n : Denotes(log, cmd[q].base, k) /\ base[q] = CursorAt(k)
        BY <1>1, <2>1, <2>3 DEF ResolvedInv
      <3>2. k \in 0 .. Len(log') /\ Denotes(log', cmd[q].base, k)
        BY <1>4, <1>5, <1>6, <3>1
      <3> QED
        BY <2>1, <2>3, <3>1, <3>2
    <2> QED
      BY <2>2, <2>3
  <1>9. FollowInv'
    <2> SUFFICES ASSUME NEW i \in 1 .. Len(log'), log'[i].base # None
                 PROVE  Denotes(log', log'[i].base, i - 1)
      BY DEF FollowInv
    <2>1. CASE i \in 1 .. n
      <3>1. Denotes(log, log[i].base, i - 1) /\ i - 1 \in Nat
        BY <1>1, <1>5, <2>1 DEF FollowInv
      <3> QED
        BY <1>5, <1>6, <2>1, <3>1
    <2>2. CASE i = n + 1
      <3>1. Denotes(log, c.base, n)
        BY <1>1, <1>5, <2>2, CommitOnBase
      <3>2. Denotes(log', c.base, n)
        BY <1>4, <1>6, <3>1
      <3> QED
        BY <1>4, <1>5, <2>2, <3>2
    <2> QED
      BY <1>4, <1>5, <2>1, <2>2
  <1>10. RejectedInv'
    <2> SUFFICES ASSUME NEW v \in verdicts', v.status # "committed"
                 PROVE  \/ \E q \in space'.idem : q.slot = v.cmd.slot /\ q.hash # HashOf(v.cmd)
                        \/ /\ v.cmd.base # None
                           /\ \E k \in 0 .. Len(log') - 1 : Denotes(log', v.cmd.base, k)
                           /\ \A q \in space'.idem : q.slot = v.cmd.slot => q.hash # HashOf(v.cmd)
      BY DEF RejectedInv
    <2>1. v \in verdicts
      BY <1>3
    <2>2. CASE \E q \in space.idem : q.slot = v.cmd.slot /\ q.hash # HashOf(v.cmd)
      BY <1>3, <2>2
    <2>3. CASE /\ v.cmd.base # None
               /\ \E k \in 0 .. n - 1 : Denotes(log, v.cmd.base, k)
               /\ \A q \in space.idem : q.slot = v.cmd.slot => q.hash # HashOf(v.cmd)
      <3>1. PICK k \in 0 .. n - 1 : Denotes(log, v.cmd.base, k)
        BY <2>3
      <3>2. k \in 0 .. Len(log') - 1 /\ Denotes(log', v.cmd.base, k)
        BY <1>4, <1>5, <1>6, <3>1
      \* A commit with the same hash has the same base, and follows another position.
      <3>3. o.hash # HashOf(v.cmd)
        <4> SUFFICES ASSUME o.hash = HashOf(v.cmd) PROVE FALSE
          OBVIOUS
        <4>1. c.base = v.cmd.base
          BY <1>3 DEF HashOf
        <4>2. Denotes(log, v.cmd.base, n)
          BY <1>1, <2>3, <4>1, CommitOnBase
        <4>3. k \in Nat /\ k # n
          BY <1>4, <3>1
        <4> QED
          BY <1>4, <3>1, <4>2, <4>3, DenotesOnce
      <3> QED
        BY <1>3, <2>3, <3>2, <3>3
    <2> QED
      BY <1>1, <2>1, <2>2, <2>3 DEF RejectedInv
  <1> QED
    BY <1>2, <1>7, <1>8, <1>9, <1>10 DEF LogInv

(* A rejection by the store. *)
LEMMA RejectLog ==
  ASSUME ExecInv, SlotInv, LogInv, NEW p \in Executor, RejectCommand(p)
  PROVE  LogInv'
  <1> DEFINE c == cmd[p]
             r == RequestOf(c, base[p])
  <1>1. MirrorInv /\ OutcomeInv /\ ResolvedInv /\ FollowInv /\ RejectedInv
    BY DEF LogInv
  <1>2. /\ at[p] = "appending" /\ Rejects(space, r) /\ Finish(p) /\ UNCHANGED <<space, log>>
        /\ \A v \in verdicts' : v \in verdicts \/ v.cmd = c
    BY DEF RejectCommand, FinishWith
  <1>3. ResolvedInv'
    BY <1>1, <1>2, FinishKeepsResolved
  <1>4. ~IsEmptyTx(r)
    BY DEF IsEmptyTx, RequestOf, OneGraphEvent, Streams
  <1>5. \/ \E o \in space.idem : o.slot = c.slot /\ o.hash # HashOf(c)
        \/ /\ c.base # None
           /\ \E k \in 0 .. Len(log) - 1 : Denotes(log, c.base, k)
           /\ \A o \in space.idem : o.slot # c.slot
    <2>1. CASE IsKnown(space, r)
      BY <1>2, <1>4, <2>1 DEF Rejects, IsReplay, OutcomesAt, RequestOf
    <2>2. CASE ~IsKnown(space, r)
      <3>1. IsStale(space, r) /\ \A o \in space.idem : o.slot # c.slot
        BY <1>2, <1>4, <2>2 DEF Rejects, Commits, IsKnown, OutcomesAt, RequestOf
      <3>2. base[p] # None /\ base[p] # CursorAt(Len(log))
        BY <1>1, <3>1 DEF IsStale, RequestOf, MirrorInv
      <3>3. c.base # None
        BY <1>1, <1>2, <3>2 DEF ResolvedInv
      <3>4. PICK k \in 0 .. Len(log) : Denotes(log, c.base, k) /\ base[p] = CursorAt(k)
        BY <1>1, <1>2, <3>3 DEF ResolvedInv
      <3>5. k \in 0 .. Len(log) - 1
        BY <3>2, <3>4 DEF ExecInv
      <3> QED
        BY <3>1, <3>3, <3>4, <3>5
    <2> QED
      BY <2>1, <2>2
  <1>6. RejectedInv'
    BY <1>1, <1>2, <1>5 DEF RejectedInv, Denotes
  <1>7. MirrorInv' /\ OutcomeInv' /\ FollowInv'
    BY <1>1, <1>2 DEF MirrorInv, OutcomeInv, FollowInv, Denotes
  <1> QED
    BY <1>3, <1>6, <1>7 DEF LogInv

(* Every step until a purge keeps the log and what was answered about it in agreement. *)
LEMMA LogStep ==
  ASSUME ExecInv, SlotInv, LogInv, ~purged, [Next]_vars
  PROVE  purged' \/ LogInv'
  <1>1. MirrorInv /\ ResolvedInv
    BY DEF LogInv
  <1>2. ASSUME NEW p \in Executor, NEW c \in Command, Execute(p, c) PROVE LogInv'
    <2>1. ResolvedInv'
      BY <1>1, <1>2 DEF Execute, ExecInv, ResolvedInv, Denotes
    <2> QED
      BY <1>2, <2>1, LogKept DEF Execute
  <1>3. ASSUME NEW p \in Executor, RejectMalformed(p) \/ RejectBase(p) \/ DenyOrMask(p) PROVE LogInv'
    BY <1>1, <1>3, FinishKeepsResolved, LogKept DEF RejectMalformed, RejectBase, DenyOrMask, Reject
  <1>4. ASSUME NEW p \in Executor, ResolveBase(p) PROVE LogInv'
    <2>1. /\ at[p] = "resolving" /\ cmd[p] \in Command /\ base[p] = None
          /\ at' = [at EXCEPT ![p] = "authorizing"] /\ cmd' = cmd
          /\ UNCHANGED <<space, log, verdicts>>
      BY <1>4 DEF ResolveBase, ExecInv
    <2>2. IF cmd[p].base = None THEN base' = base
          ELSE \E k \in 0 .. Len(log) : /\ Denotes(log, cmd[p].base, k)
                                        /\ base' = [base EXCEPT ![p] = CursorAt(k)]
      BY <1>1, <1>4, <2>1, ResolveDenotes DEF ResolveBase
    <2>3. ResolvedInv'
      BY <1>1, <2>1, <2>2 DEF ExecInv, ResolvedInv, Denotes
    <2> QED
      BY <2>1, <2>3, LogKept
  <1>5. ASSUME NEW p \in Executor, Allow(p) PROVE LogInv'
    <2>1. ResolvedInv'
      BY <1>1, <1>5 DEF Allow, ExecInv, ResolvedInv, Denotes
    <2> QED
      BY <1>5, <2>1, LogKept DEF Allow
  <1>6. ASSUME NEW p \in Executor, CommitCommand(p) PROVE LogInv'
    BY <1>6, CommitLog
  <1>7. ASSUME NEW p \in Executor, ReplayReceipt(p) PROVE LogInv'
    <2>1. /\ UNCHANGED <<space, log>> /\ Finish(p)
          /\ \A v \in verdicts' : v.status # "committed" => v \in verdicts
      BY <1>7 DEF ReplayReceipt, FinishWith
    <2>2. ResolvedInv'
      BY <1>1, <2>1, FinishKeepsResolved
    <2> QED
      BY <2>1, <2>2 DEF LogInv, MirrorInv, OutcomeInv, FollowInv, RejectedInv, Denotes
  <1>8. ASSUME NEW p \in Executor, RejectCommand(p) PROVE LogInv'
    BY <1>8, RejectLog
  <1>9. ASSUME NEW k \in Cutoff, Purge(k) PROVE purged'
    BY <1>9 DEF Purge
  <1>10. CASE UNCHANGED vars
    <2>1. ResolvedInv'
      BY <1>1, <1>10 DEF vars, ResolvedInv, Denotes
    <2> QED
      BY <1>10, <2>1, LogKept DEF vars
  <1> QED
    BY <1>2, <1>3, <1>4, <1>5, <1>6, <1>7, <1>8, <1>9, <1>10 DEF Next

(* The initial state. *)
LEMMA KernelInit == Init => KernelInv
  BY ExecInit, SlotInit, LogInit DEF KernelInv

(* Every step: once purged, a history stays purged and nothing is claimed. *)
LEMMA KernelStep == KernelInv /\ [Next]_vars => KernelInv'
  <1> SUFFICES ASSUME KernelInv, [Next]_vars PROVE KernelInv'
    OBVIOUS
  <1>1. ExecInv /\ SlotInv /\ ExecInv' /\ SlotInv'
    BY ExecStep, SlotStep DEF KernelInv
  <1>2. purged => purged'
    BY DEF Next, Execute, RejectMalformed, RejectBase, ResolveBase, Allow, DenyOrMask, Reject,
           CommitCommand, ReplayReceipt, RejectCommand, Purge, vars
  <1>3. purged' \/ LogInv'
    BY <1>1, <1>2, LogStep DEF KernelInv
  <1> QED
    BY <1>1, <1>3 DEF KernelInv

(* A command that required a base revision directly follows it in the log: *)
(* no other command commits between the revision its author saw and it,    *)
(* for any number of executions that resolve, are authorized and append in *)
(* any order.                                                              *)
THEOREM CommitsFollowTheirBase == Spec => []CommitsFollowBase
  <1>1. KernelInv => CommitsFollowBase
    <2> SUFFICES ASSUME KernelInv, ~purged, NEW i \in DOMAIN log, log[i].base # None
                 PROVE  IF log[i].base = "root" THEN i = 1 ELSE i > 1 /\ log[i - 1].id = log[i].base
      BY DEF CommitsFollowBase
    <2>1. ExecInv /\ FollowInv /\ i \in 1 .. Len(log) /\ Len(log) \in Nat
      BY DEF KernelInv, LogInv, ExecInv
    <2>2. Denotes(log, log[i].base, i - 1)
      BY <2>1 DEF FollowInv
    <2>3. \A k \in 1 .. Len(log) : log[k].id # "root"
      BY <2>1, CommandAssumption DEF ExecInv
    <2> QED
      BY <2>1, <2>2, <2>3 DEF Denotes
  <1> QED
    BY KernelInit, KernelStep, <1>1, PTL DEF Spec

(* A retried command is never told both that it committed and that it lost: *)
(* the verdict of the store on it is final.                                 *)
THEOREM VerdictsAreFinal == Spec => []VerdictIsFinal
  <1>1. KernelInv => VerdictIsFinal
    BY DEF KernelInv, LogInv, SlotInv, RejectedInv, VerdictIsFinal
  <1> QED
    BY KernelInit, KernelStep, <1>1, PTL DEF Spec

(* A confirmation tells the truth: the log has, at the place the receipt   *)
(* names, a command with the slot, payload and base of the one confirmed.  *)
THEOREM AnswersAreInLog == Spec => []AnswersMatchLog
  <1>1. KernelInv => AnswersMatchLog
    <2> SUFFICES ASSUME KernelInv, ~purged, NEW v \in verdicts, v.status = "committed"
                 PROVE  /\ v.receipt.txIndex \in DOMAIN log
                        /\ LET c == log[v.receipt.txIndex] IN
                           /\ c.slot = v.cmd.slot /\ HashOf(c) = HashOf(v.cmd)
                           /\ c.payload = v.cmd.payload /\ c.base = v.cmd.base
                           /\ c.id = v.receipt.tx
      BY DEF AnswersMatchLog
    <2> DEFINE c == log[v.receipt.txIndex]
    <2>1. PICK o \in space.idem : o.slot = v.cmd.slot /\ o.receipt = v.receipt /\ o.hash = HashOf(v.cmd)
      BY DEF KernelInv, SlotInv
    <2>2. /\ v.receipt.txIndex \in 1 .. Len(log)
          /\ c.slot = v.cmd.slot /\ HashOf(c) = HashOf(v.cmd) /\ c.id = v.receipt.tx
      BY <2>1 DEF KernelInv, LogInv, OutcomeInv
    <2>3. c.payload = v.cmd.payload /\ c.base = v.cmd.base
      BY <2>2 DEF HashOf
    <2> QED
      BY <2>2, <2>3 DEF KernelInv, ExecInv
  <1> QED
    BY KernelInit, KernelStep, <1>1, PTL DEF Spec

(* Of the commands made against one revision at most one commits, as long  *)
(* as the history is not purged: a purge brings the head back.             *)
THEOREM OneWinnerUntilPurged == Spec => [](purged \/ OneWinnerPerBase)
  <1>1. KernelInv => (purged \/ OneWinnerPerBase)
    <2> SUFFICES ASSUME KernelInv, ~purged, NEW i \in DOMAIN log, NEW j \in DOMAIN log,
                        log[i].base # None, log[i].base = log[j].base
                 PROVE  i = j
      BY DEF OneWinnerPerBase
    <2>1. ExecInv /\ FollowInv /\ i \in 1 .. Len(log) /\ j \in 1 .. Len(log) /\ Len(log) \in Nat
      BY DEF KernelInv, LogInv, ExecInv
    <2>2. Denotes(log, log[i].base, i - 1) /\ Denotes(log, log[i].base, j - 1)
      BY <2>1 DEF FollowInv
    <2>3. i - 1 \in Nat /\ j - 1 \in Nat
      BY <2>1
    <2>4. i - 1 = j - 1
      BY <2>1, <2>2, <2>3, DenotesOnce
    <2> QED
      BY <2>1, <2>4
  <1> QED
    BY KernelInit, KernelStep, <1>1, PTL DEF Spec
=============================================================================
