------------------------------ MODULE Follower ------------------------------
(***************************************************************************)
(* What a follower of a log promises.  The log grows at its end, one       *)
(* transaction at a time; the copy is always a prefix of it, and only      *)
(* becomes longer.                                                         *)
(***************************************************************************)
EXTENDS Naturals, Sequences

CONSTANT Tx
VARIABLES log, copy

Init == log = <<>> /\ copy = <<>>

Grow == /\ \E t \in Tx : log' = Append(log, t)
        /\ copy' = copy

(* One or several transactions at a time: more of the log is copied.         *)
Copy == /\ \E n \in Len(copy) .. Len(log) : copy' = SubSeq(log, 1, n)
        /\ log' = log

Next == Grow \/ Copy

Spec == Init /\ [][Next]_<<log, copy>>
=============================================================================
