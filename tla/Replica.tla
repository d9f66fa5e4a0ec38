------------------------------ MODULE Replica -------------------------------
(***************************************************************************)
(* PassiveReplicator: it copies the transactions a principal can see into  *)
(* a second store, bundle by bundle, and saves how far it came.  Several   *)
(* replicators may work on one sink and one checkpoint; a process can stop *)
(* at any await, and its checkpoints are kept or lost with it, as the      *)
(* store of checkpoints is a file or the one in memory.  The sink is an    *)
(* IndexedDB store; a replicated transaction has a slot of its own, named  *)
(* by its id, and the hash is what it covers: the bundle.  A bundle may be *)
(* damaged between source and sink, which its canonical hash shows.        *)
(***************************************************************************)
EXTENDS Publisher, IndexedDb

CONSTANTS Replicator,
          PullLimit,       \* limit of replicateOnce
          MaxReplicaFaults

ASSUME ReplicaAssumption == PullLimit \in Nat /\ MaxReplicaFaults \in Nat

VARIABLES checkpoint,  \* the principal's saved cursor
          rep,         \* what each replicator is doing
          refusals,    \* transactions of which an intact bundle was refused
          faults

replicaVars == <<src, db, checkpoint, rep, refusals, faults>>

Resting == [at |-> "load", cursor |-> 0, bundles |-> <<>>]

ReplicaInit ==
  /\ DbInit
  /\ checkpoint = 0
  /\ rep = [w \in Replicator |-> Resting]
  /\ refusals = {}
  /\ faults = 0

Goto(w, at, cursor, bundles) ==
  rep' = [rep EXCEPT ![w] = [at |-> at, cursor |-> cursor, bundles |-> bundles]]

Payload(evs) == [s \in Streams |-> [i \in DOMAIN evs[s] |-> evs[s][i].n]]

-----------------------------------------------------------------------------
(* replicateOnce, again and again (replicateUntilCaughtUp) *)

Load(w) ==
  /\ rep[w].at = "load"
  /\ Goto(w, "pull", checkpoint, <<>>)
  /\ UNCHANGED <<db, checkpoint, refusals, faults>>

(* EventStoreReplicaSource.pull *)
Pull(w) ==
  /\ rep[w].at = "pull"
  /\ LET txs == ReadPrincipalTxRange(src, Hidden, rep[w].cursor, PullLimit).txs IN
     /\ txs # <<>>
     /\ \E hurt \in {0} \cup (IF faults < MaxReplicaFaults THEN DOMAIN txs ELSE {}) :
          /\ faults' = faults + Least(hurt, 1)
          /\ Goto(w, "read", rep[w].cursor,
                  [i \in DOMAIN txs |-> [tx |-> txs[i].tx, cursor |-> rep[w].cursor + i,
                                         payload |-> Payload(txs[i].ev), intact |-> i # hurt]])
  /\ UNCHANGED <<db, checkpoint, refusals>>

(* Nothing new: replicateUntilCaughtUp ends, and is called again later. *)
PullsNothing(w) ==
  /\ rep[w].at = "pull"
  /\ ReadPrincipalTxRange(src, Hidden, rep[w].cursor, PullLimit).txs = <<>>
  /\ Goto(w, "load", 0, <<>>)
  /\ UNCHANGED <<db, checkpoint, refusals, faults>>

First(w) == Head(rep[w].bundles)

(* EventStoreReplicaSink.apply: a damaged bundle is refused, a stored         *)
(* transaction compared with the bundle, an unknown one appended after the   *)
(* await.                                                                    *)
Stored(tx) == DbReadTx(db, tx)

(* Mutant: the stored events are compared with their numbers. *)
SameBundle_Numbered(b) ==
  \A s \in Streams : \A i \in DOMAIN Stored(b.tx)[s] : Stored(b.tx)[s][i].seq = b.payload[s][i]

SameBundle(b) == Payload(Stored(b.tx)) = b.payload

SinkUnknown(w) ==
  /\ rep[w].at = "read"
  /\ First(w).intact /\ Stored(First(w).tx) = None
  /\ Goto(w, "append", rep[w].cursor, rep[w].bundles)
  /\ UNCHANGED <<db, checkpoint, refusals, faults>>

(* buildStableReceipt: the transaction and its index entry are read again. *)
SinkKnown(w) ==
  /\ rep[w].at = "read"
  /\ First(w).intact /\ Stored(First(w).tx) # None /\ SameBundle(First(w))
  /\ Goto(w, "save", First(w).cursor, rep[w].bundles)
  /\ UNCHANGED <<db, checkpoint, refusals, faults>>

(* Anything but "committed" ends the round. *)
SinkDiverges(w) ==
  /\ rep[w].at = "read"
  /\ First(w).intact => Stored(First(w).tx) # None /\ ~SameBundle(First(w))
  /\ refusals' = IF First(w).intact THEN refusals \cup {First(w).tx} ELSE refusals
  /\ Goto(w, "load", 0, <<>>)
  /\ UNCHANGED <<db, checkpoint, faults>>

(* The append the sink makes of a bundle. *)
ReplicaRequest(b) ==
  [kind |-> "append", tx |-> b.tx, slot |-> b.tx, hash |-> <<b.tx, b.payload>>,
   n |-> [s \in Streams |-> Len(b.payload[s])], base |-> None]

(* Mutant: every append of the replicator is under a slot of its own. *)
SinkAppend_NoSlot(w) ==
  /\ rep[w].at = "append"
  /\ db' = DbAppend(db, ReplicaRequest(First(w)))
  /\ Goto(w, "save", First(w).cursor, rep[w].bundles)
  /\ UNCHANGED <<checkpoint, refusals, faults>>

(* Committed now, or before by another replicator: the slot answers. *)
SinkAppend(w) ==
  /\ rep[w].at = "append"
  /\ LET r == ReplicaRequest(First(w)) IN
     IF IsReplay(db.space, r) THEN db' = db ELSE DbWrite(r)
  /\ Goto(w, "save", First(w).cursor, rep[w].bundles)
  /\ UNCHANGED <<checkpoint, refusals, faults>>

(* Mutant: the cursor of the whole pull is saved with its first bundle. *)
Save_WholePull(w) ==
  /\ rep[w].at = "save"
  /\ checkpoint' = rep[w].bundles[Len(rep[w].bundles)].cursor
  /\ LET rest == Tail(rep[w].bundles) IN
     Goto(w, IF rest = <<>> THEN "load" ELSE "read", IF rest = <<>> THEN 0 ELSE rep[w].cursor, rest)
  /\ UNCHANGED <<db, refusals, faults>>

Save(w) ==
  /\ rep[w].at = "save"
  /\ checkpoint' = First(w).cursor
  /\ LET rest == Tail(rep[w].bundles) IN
     Goto(w, IF rest = <<>> THEN "load" ELSE "read", IF rest = <<>> THEN 0 ELSE rep[w].cursor, rest)
  /\ UNCHANGED <<db, refusals, faults>>

(* The process with all its replicators ends; the sink stays. *)
ReplicaCrash ==
  /\ faults < MaxReplicaFaults
  /\ faults' = faults + 1
  /\ rep' = [w \in Replicator |-> Resting]
  /\ checkpoint' \in {0, checkpoint}
  /\ UNCHANGED <<db, refusals>>

ReplicatorStep(w) ==
  \/ Load(w) \/ Pull(w) \/ PullsNothing(w)
  \/ SinkUnknown(w) \/ SinkKnown(w) \/ SinkDiverges(w) \/ SinkAppend(w)
  \/ Save(w)

ReplicaStep == ReplicaCrash \/ \E w \in Replicator : ReplicatorStep(w)

SinkIds == [i \in DOMAIN db.space.txIndex |-> db.space.txIndex[i].tx]

-----------------------------------------------------------------------------

(* What was saved as done is in the sink, whichever replicator saved it and  *)
(* whatever was lost: no checkpoint, and no position a replicator has        *)
(* reached, is ahead of the sink.                                            *)
CheckpointBacked ==
  /\ checkpoint <= Len(db.space.txIndex)
  /\ \A w \in Replicator : rep[w].cursor <= Len(db.space.txIndex)

(* An intact bundle is never answered as a divergence: neither when it is    *)
(* delivered again after a crash, nor when two replicators race.             *)
NoFalseDivergence == refusals = {}
=============================================================================
