-------------------------------- MODULE TxLog --------------------------------
(***************************************************************************)
(* What a local event store promises a writer, whatever its medium: a log  *)
(* of transactions that only grows at its end, one outcome per idempotency *)
(* slot, fixed when the transaction enters the log, and no confirmation    *)
(* that is not backed by the log.                                          *)
(***************************************************************************)
EXTENDS Integers, Sequences

CONSTANTS Tx, SlotName, Digest

VARIABLES log,      \* the committed transactions, in order
          outcome,  \* what each slot committed: transaction, digest and place in the log
          told      \* the outcomes callers have been given

LogInit ==
  /\ log = <<>>
  /\ outcome = {}
  /\ told = {}

(* A transaction enters the log under a slot that has none. *)
Commit(k) ==
  /\ \A o \in outcome : o.slot # k
  /\ \E t \in Tx, d \in Digest :
       /\ log' = Append(log, t)
       /\ outcome' = outcome \cup {[slot |-> k, tx |-> t, digest |-> d, place |-> Len(log) + 1]}
  /\ UNCHANGED told

(* A caller is given the outcome of its slot: after its commit, or on a retry. *)
Confirm(k) ==
  /\ \E o \in outcome : o.slot = k /\ told' = told \cup {o}
  /\ UNCHANGED <<log, outcome>>

LogNext == \E k \in SlotName : Commit(k) \/ Confirm(k)

logVars == <<log, outcome, told>>

LogSpec == LogInit /\ [][LogNext]_logVars
=============================================================================
