------------------------------ MODULE MCRuntime -------------------------------
(* Instances of Runtime for TLC. *)
EXTENDS Runtime, TLC

CONSTANTS t1, t2, t3

(* Each policy hides another transaction; none hides nothing. *)
HiddenFrom == [s \in Scope \cup {Unnamed} |-> CASE s = "acl" -> {t2} [] s = "secret" -> {t1} [] OTHER -> {}]

(* Two transactions may be committed before a third, in this order. *)
Order == <<t1, t2, t3>>

Request(tx) == [kind |-> "append", tx |-> tx, slot |-> tx, hash |-> tx,
                n |-> [s \in Streams |-> IF s = "graph" THEN 1 ELSE 0], base |-> None]

WritesNext(r) == /\ Len(src[r].txIndex) < Len(Order)
                 /\ Writes(r, Request(Order[Len(src[r].txIndex) + 1]))

Next ==
  \/ \E r \in Root : Starts(r) \/ StartStep(r) \/ WritesNext(r) \/ Stops(r)
  \/ \E c \in Reader : (\E r \in Root : Reads(c, r)) \/ ReadsDelta(c) \/ ReadReturns(c)
  \/ Exits

Safety == RuntimeInit /\ [][Next]_runtimeVars

(* A runtime that is not started is started, and what start awaits answers. *)
Spec == Safety /\ \A r \in Root : WF_runtimeVars(Starts(r)) /\ WF_runtimeVars(StartStep(r))
=============================================================================
