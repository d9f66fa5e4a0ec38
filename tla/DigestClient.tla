---------------------------- MODULE DigestClient ----------------------------
(***************************************************************************)
(* StateDigestSyncClient: it follows a principal's visible log through a   *)
(* stream it does not trust.  Stream frames extend a candidate state; a    *)
(* poll of the source decides whether the candidate becomes durable, and   *)
(* after anything odd the candidate is rebuilt by a poll from the start.   *)
(*                                                                         *)
(* The stream may lose, repeat, delay and reorder frames and damage them:  *)
(* the client can at any time ingest any frame the source could have sent, *)
(* or a malformed one.  Malformed frames and restarts are at most          *)
(* MaxUpsets.                                                              *)
(* Digests are the states they cover, with their cursor.                   *)
(***************************************************************************)
EXTENDS Publisher

CONSTANTS LimitTx, Fits,  \* limitTx; how many transactions the byte limit lets through
          MaxRounds,      \* 256 in the code
          MaxUpsets

ASSUME DigestAssumption ==
  LimitTx \in Nat /\ Fits \subseteq Nat \ {0} /\ MaxRounds \in Nat /\ MaxUpsets \in Nat

VARIABLES client,  \* the fields of the client
          task,    \* the validation or recovery in progress
          upsets   \* malformed frames and restarts so far

digestVars == <<src, client, task, upsets>>

NoTask == [op |-> "none"]

(* Between two rounds of collectFromCursor. *)
TaskAt(op, from, txs, cursor, rounds) ==
  [op |-> op, from |-> from, txs |-> txs, cursor |-> cursor, rounds |-> rounds]

IdsOfState(state) == {state[i].tx : i \in DOMAIN state}

(* initializeDurableState: also what a restart begins with. *)
InitialState(state, cursor) ==
  [durable |-> state, durableCursor |-> cursor, candidate |-> state, candidateCursor |-> cursor,
   pollValidated |-> cursor, seen |-> IdsOfState(state), needsPoll |-> FALSE]

DigestInit == /\ client = InitialState(<<>>, 0)
              /\ task = NoTask
              /\ upsets = 0

-----------------------------------------------------------------------------
(* ingestSubscribeTxBundles, one bundle: after one that needs a poll the   *)
(* rest of the call is skipped, as a further call would be.                *)

Frames == {Delta(0, Visible)[i] : i \in DOMAIN Visible}

(* Mutant: a frame from beyond the next position is taken. *)
IsNext_Gap(frame) ==
  frame.cursor > client.candidateCursor /\ frame.tx \notin client.seen

(* evaluateTransportDelta *)
IsNext(frame) ==
  frame.cursor = client.candidateCursor + 1 /\ frame.tx \notin client.seen

IsOld(frame) ==
  frame.cursor <= client.candidateCursor /\ frame.tx \in client.seen

ApplyFrame(frame) ==
  /\ ~client.needsPoll
  /\ IsNext(frame)
  /\ client' = [client EXCEPT !.candidate = Append(@, frame),
                              !.seen = @ \cup {frame.tx},
                              !.candidateCursor = frame.cursor]
  /\ UNCHANGED <<task, upsets>>

DistrustFrame(frame) ==
  /\ ~client.needsPoll
  /\ ~IsNext(frame) /\ ~IsOld(frame)
  /\ client' = [client EXCEPT !.needsPoll = TRUE]
  /\ UNCHANGED <<task, upsets>>

DamagedFrame ==
  /\ ~client.needsPoll
  /\ upsets < MaxUpsets
  /\ client' = [client EXCEPT !.needsPoll = TRUE]
  /\ upsets' = upsets + 1
  /\ UNCHANGED task

-----------------------------------------------------------------------------
(* validateAndCommit, recoverByFullPoll: each polls in rounds, one await per *)
(* round, and decides when a round brings nothing.                           *)

StartValidate ==
  /\ task = NoTask
  /\ task' = TaskAt("validate", client.durableCursor, <<>>, client.durableCursor, 0)
  /\ UNCHANGED <<client, upsets>>

StartRecover ==
  /\ task = NoTask
  /\ client.needsPoll
  /\ task' = TaskAt("recover", 0, <<>>, 0, 0)
  /\ UNCHANGED <<client, upsets>>

(* collectFromCursor *)
Collect ==
  /\ task # NoTask
  /\ task.rounds < MaxRounds
  /\ \E fits \in Fits :
       LET pulled == SyncPull(src, Hidden, task.cursor, LimitTx, fits) IN
       /\ pulled.txs # <<>>
       /\ task' = TaskAt(task.op, task.from, task.txs \o pulled.txs, pulled.after, task.rounds + 1)
  /\ UNCHANGED <<client, upsets>>

Collected(op) ==
  /\ task.op = op
  /\ \/ task.rounds = MaxRounds
     \/ SyncPull(src, Hidden, task.cursor, LimitTx, 1).txs = <<>>

Rollback(c) ==
  [c EXCEPT !.candidate = c.durable, !.candidateCursor = c.durableCursor,
            !.seen = IdsOfState(c.durable), !.needsPoll = TRUE]

(* The polled state builds on the durable state of now, the poll on that of  *)
(* when it began.                                                            *)
PollConfirms ==
  /\ ~client.needsPoll
  /\ client.candidateCursor = task.cursor
  /\ client.candidate = client.durable \o task.txs

(* Mutant: a failed validation leaves the candidate as it is. *)
ValidateFails_KeepsCandidate ==
  /\ Collected("validate")
  /\ ~PollConfirms
  /\ client' = [client EXCEPT !.pollValidated = task.cursor]
  /\ task' = NoTask
  /\ UNCHANGED upsets

ValidateCommits ==
  /\ Collected("validate")
  /\ PollConfirms
  /\ client' = [client EXCEPT !.durable = client.candidate,
                              !.durableCursor = client.candidateCursor,
                              !.pollValidated = task.cursor]
  /\ task' = NoTask
  /\ UNCHANGED upsets

(* Not caught up with the candidate, or not equal to it. *)
ValidateFails ==
  /\ Collected("validate")
  /\ ~PollConfirms
  /\ client' = Rollback([client EXCEPT !.pollValidated = task.cursor])
  /\ task' = NoTask
  /\ UNCHANGED upsets

RecoverEnds ==
  /\ Collected("recover")
  /\ client' = [client EXCEPT !.candidate = task.txs, !.candidateCursor = task.cursor,
                              !.pollValidated = task.cursor,
                              !.seen = IdsOfState(task.txs), !.needsPoll = FALSE]
  /\ task' = NoTask
  /\ UNCHANGED upsets

(* The process ends; the next one begins with the durable state. *)
DigestRestart ==
  /\ upsets < MaxUpsets
  /\ client' = InitialState(client.durable, client.durableCursor)
  /\ task' = NoTask
  /\ upsets' = upsets + 1

DigestPoll == Collect \/ ValidateCommits \/ ValidateFails \/ RecoverEnds

DigestStep ==
  \/ \E frame \in Frames : ApplyFrame(frame) \/ DistrustFrame(frame)
  \/ DamagedFrame
  \/ StartValidate \/ StartRecover
  \/ DigestPoll
  \/ DigestRestart

DurableIds == [i \in DOMAIN client.durable |-> client.durable[i].tx]

-----------------------------------------------------------------------------

(* Whatever the stream did, the candidate the client shows is the beginning  *)
(* of the visible log, without a hole, at least as long as the durable       *)
(* state, and the set of ids that decides about duplicates is that of the    *)
(* candidate (evaluateTransportDelta, rollbackCandidateToDurable).           *)
CandidateSound ==
  /\ client.candidate = SubSeq(Delta(0, Visible), 1, client.candidateCursor)
  /\ client.durable = SubSeq(client.candidate, 1, client.durableCursor)
  /\ client.seen = IdsOfState(client.candidate)
=============================================================================
