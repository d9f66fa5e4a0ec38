----------------------------- MODULE Publisher ------------------------------
(***************************************************************************)
(* The log that others follow: a graph space to which applications append, *)
(* and what one principal sees of it.                                      *)
(***************************************************************************)
EXTENDS Gateway

CONSTANT Hidden  \* the transactions the policy hides from the principal

VARIABLE src

PublisherInit == src = EmptySpace

Publish(r) == Commits(src, r) /\ src' = AppendTx(src, r)

Visible == VisibleTxs(src, Hidden)

VisibleIds == [i \in DOMAIN Visible |-> Visible[i].tx]
=============================================================================
