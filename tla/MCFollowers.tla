----------------------------- MODULE MCFollowers ------------------------------
(***************************************************************************)
(* The followers of one log, for TLC.  One of them is deployed beside the  *)
(* publisher, so that their states do not multiply: the digest client, the *)
(* passive replica, the notes replica or mesh-app watch; or the IndexedDB  *)
(* store is used on its own, with compaction.                              *)
(***************************************************************************)
EXTENDS DigestClient, Replica, NotesReplica, TLC
LOCAL INSTANCE SequencesExt

CONSTANTS t1, t2, t3, t4, note1, note2, a, b, DbCutoffs,
          MetaTxs  \* the transactions that also carry a meta event

VARIABLE who

Command(tx, type, note, text, actor, mask) ==
  [tx |-> tx, type |-> type, note |-> note, text |-> text, actor |-> actor, mask |-> mask]

(* In this order: bob sees all but the second. *)
Script == <<Command(t1, "created", note1, a, "alice", {}),
            Command(t2, "updated", note1, a, "alice", None),
            Command(t3, "updated", note1, b, "bob", None),
            Command(t4, "created", note2, b, "carol", {"carol", "alice"})>>

Commands  == {Script[i] : i \in DOMAIN Script}
Principals == {"alice", "bob", "carol"}
HiddenFromBob == MaskedFor("bob")

DbRequest(tx, meta, graph) ==
  [kind |-> "append", tx |-> tx, slot |-> tx, hash |-> tx,
   n |-> [s \in Streams |-> IF s = "meta" THEN meta ELSE graph], base |-> None]

DbRequests == {DbRequest(t1, 0, 1), DbRequest(t2, 1, 2), DbRequest(t3, 1, 0),
               [DbRequest(t4, 1, 1) EXCEPT !.base = [s \in Streams |-> 1]]}

vars == <<src, client, task, upsets, db, checkpoint, rep, refusals, faults,
          sub, mode, replica, watch, stops, who>>

digestRest  == <<db, checkpoint, rep, refusals, faults, sub, mode, replica, watch, stops>>
replicaRest == <<client, task, upsets, sub, mode, replica, watch, stops>>
notesRest   == <<client, task, upsets, db, checkpoint, rep, refusals, faults>>

Init ==
  /\ who \in {"digest", "replica", "notes", "watch", "indexeddb"}
  /\ PublisherInit /\ DigestInit /\ ReplicaInit /\ HttpInit
  /\ IF who = "watch" THEN WatchInit ELSE NotesInit

PublishNext ==
  /\ who # "indexeddb" /\ Len(src.txIndex) < Len(Script)
  /\ LET c == Script[Len(src.txIndex) + 1] IN
     Publish([NoteBundle(c) EXCEPT !.n["meta"] = IF c.tx \in MetaTxs THEN 1 ELSE 0])
  /\ UNCHANGED <<digestRest, client, task, upsets>>

Digest  == who = "digest" /\ UNCHANGED <<src, digestRest>> /\ DigestStep
Replicate == who = "replica" /\ UNCHANGED <<src, replicaRest>> /\ ReplicaStep
Notes   == who \in {"notes", "watch"} /\ UNCHANGED notesRest /\ NotesStep
Store   == /\ who = "indexeddb"
           /\ (\E r \in DbRequests : DbWrite(r)) \/ (\E c \in DbCutoffs : DbCompact(c)) \/ DbDelete
           /\ UNCHANGED <<src, replicaRest, checkpoint, rep, refusals, faults>>

Next == (PublishNext \/ Digest \/ Replicate \/ Notes \/ Store) /\ UNCHANGED who

Safety == Init /\ [][Next]_vars

(* Each process goes on as long as it can.  The digest client's caller       *)
(* validates, and recovers, not only validates again, when it is told to; a  *)
(* source that is asked again and again is reachable again and again.        *)
Fairness ==
  /\ WF_vars(who = "digest" /\ UNCHANGED <<src, digestRest, who>> /\ DigestPoll)
  /\ WF_vars(who = "digest" /\ UNCHANGED <<src, digestRest, who>> /\ StartValidate)
  /\ SF_vars(who = "digest" /\ UNCHANGED <<src, digestRest, who>> /\ StartRecover)
  /\ \A w \in Replicator :
       WF_vars(who = "replica" /\ UNCHANGED <<src, replicaRest, who>> /\ ReplicatorStep(w))
  /\ WF_vars(who = "notes" /\ UNCHANGED <<notesRest, who>> /\ PollLoop)
  /\ SF_vars(who = "notes" /\ UNCHANGED <<notesRest, who>> /\ PollReached)

Spec == Safety /\ Fairness

Copied == CASE who = "digest" -> DurableIds [] who = "replica" -> SinkIds [] OTHER -> <<>>

Follows == INSTANCE Follower WITH Tx <- TxId, log <- VisibleIds, copy <- Copied

-----------------------------------------------------------------------------

(* The durable state of the digest client and the sink of the replica are    *)
(* copies of what the principal sees, that only grow at their end: through   *)
(* lost and repeated frames, rolled back candidates, damaged bundles, racing *)
(* replicators and restarts (validateAndCommit, replicateOnce).              *)
ImplementsFollower == Follows!Spec

(* They reach the end of the log, and so does the notes replica.             *)
CatchesUp ==
  <>[](/\ who \in {"digest", "replica"} => Copied = VisibleIds
       /\ who = "notes" => replica.applied = VisibleIds)

(* What the gateway reads of a store is whole, whatever is hidden from the   *)
(* principal and whatever was compacted.                                     *)
GatewayReadsWhole ==
  \A hid \in SUBSET {db.space.txIndex[i].tx : i \in DOMAIN db.space.txIndex} :
    ReadsWhole(db.space, hid)
=============================================================================
