------------------------------- MODULE MCKernel -------------------------------
(* An instance of Kernel for TLC. *)
EXTENDS Kernel, TLC

CONSTANTS t1, t2, t3, k1, k2, k3, p1, p2

CommandOf(id, slot, payload, token) ==
  [id |-> id, slot |-> slot, payload |-> payload, base |-> token]

(* Two commands on the root; one on the first's transaction; the first's    *)
(* slot with another base; its id under another slot; a malformed one.      *)
Commands ==
  {CommandOf(t1, k1, p1, "root"),
   CommandOf(t2, k2, p2, "root"),
   CommandOf(t3, k3, p1, t1),
   CommandOf(t2, k1, p1, t1),
   CommandOf(t1, k2, p1, None),
   CommandOf(t3, k3, None, None)}

Hashes == [payload : Payload, base : Tokens \cup {None}] \cup {[payload |-> None, base |-> None]}

(* The executions are interchangeable. *)
Executors == Permutations(Executor)
=============================================================================
