----------------------------- MODULE MCFileStore -----------------------------
(* Instances of FileStore for TLC. *)
EXTENDS FileStore, TLC

CONSTANTS t1, t2, t3, k1, k2, k3, h1, h2

N(m, g) == [s \in Streams |-> IF s = "meta" THEN m ELSE g]

AppendOf(tx, slot, hash, n, base) ==
  [kind |-> "append", tx |-> tx, slot |-> slot, hash |-> hash, n |-> n, base |-> base]

CompactAt(k) == [kind |-> "compact", cutoff |-> k]

(* Transactions with one and with several events on each stream; the same   *)
(* slot with another payload; an empty bundle; one that must follow t1.     *)
MixedRequests ==
  {AppendOf(t1, k1, h1, N(1, 2), None),
   AppendOf(t2, k2, h1, N(2, 1), None),
   AppendOf(t2, k2, h2, N(0, 1), None),
   AppendOf(t3, k3, h2, N(0, 0), None),
   AppendOf(t3, k3, h1, N(1, 1), N(1, 2))}

(* With compaction: cut before the second entry. *)
CompactingRequests ==
  {AppendOf(t1, k1, h1, N(1, 2), None),
   AppendOf(t2, k2, h1, N(0, 1), None),
   CompactAt(2)}
=============================================================================
