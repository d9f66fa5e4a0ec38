----------------------------- MODULE MCExplorer ------------------------------
(* A graph server and one explorer, for TLC: how the explorer follows the    *)
(* server, or what the server does alone, with purges, or what its user does, *)
(* who then has a server that is followed.                                    *)
EXTENDS Explorer, Editor, TLC

CONSTANTS n1, n2, l1, a, b, MaxCommands, MaxSnapshots,
          Script,  \* what is done to the project, in this order
          Looks    \* at which of "following", "serving", "editing"

VARIABLE looksAt

(* One node with a link to itself, and a file with that node and another. *)
OneNode == {[nodes |-> {[id |-> <<0>>, label |-> b]},
             links |-> {[id |-> <<7>>, source |-> <<0>>, target |-> <<0>>]}]}

TwoNodes == [nodes |-> <<[id |-> <<0>>, label |-> a], [id |-> <<9>>, label |-> b]>>,
             links |-> <<[id |-> <<8>>, source |-> <<0>>, target |-> <<9>>]>>]

(* A snapshot every other event, the last one kept. *)
EveryOther == [everyN |-> 2, keep |-> 1, maxEvents |-> 1]
Seldom     == [everyN |-> 9, keep |-> 9, maxEvents |-> 9]

Node(id, label) == [type |-> "node.created", id |-> id, label |-> label]

Lifecycle ==
  <<Node(n1, a),
    [type |-> "link.created", link |-> [id |-> l1, source |-> n1, target |-> n1]],
    [type |-> "node.deleted", id |-> n1],
    [type |-> "node.label.updated", id |-> n1, label |-> b]>>

(* More commands than there are nodes and links. *)
LabelTwice == <<Node(n1, a), [type |-> "node.label.updated", id |-> n1, label |-> b]>>

(* One command on the fork, whatever it starts with. *)
OnFork == Node(n2, b)

(* A store to which the events were submitted, one after the other. *)
SubmitAll(sp, events) ==
  LET after[i \in 0 .. Len(events)] == IF i = 0 THEN sp ELSE Submit(after[i - 1], events[i])
  IN  after[Len(events)]

(* A page is what the gateway answers, whatever the cursor. *)
ASSUME PagesAreRead ==
  \A k \in 0 .. Len(Script), cursor \in 0 .. 5, cut \in 1 .. 3 :
    LET sp     == Compact(SubmitAll(EmptySpace, SubSeq(Script, 1, k)), cut)
        page   == Page(sp, cursor, 2)
        pulled == SyncPull(sp, {}, cursor, 2, 2)
        polled == SyncPoll(sp, {}, [Origin EXCEPT !["graph"] = cursor], [x \in Streams |-> 2], 2)
    IN  /\ pulled.after = cursor + Len(page) /\ polled.after["graph"] = cursor + Len(page)
        /\ page = [i \in DOMAIN pulled.txs |-> pulled.txs[i].tx]
        /\ page = [i \in DOMAIN polled.out["graph"] |-> polled.out["graph"][i].tx]

(* The server alone gets the whole script, and one more snapshot. *)
CommandBound  == IF looksAt = "serving" THEN Len(Script) ELSE MaxCommands
SnapshotBound == IF looksAt = "serving" THEN MaxSnapshots + 1 ELSE MaxSnapshots

CommandNext ==
  \/ /\ Committed(stores[Main]) < CommandBound
     /\ Commands(Main, Script[Committed(stores[Main]) + 1])
  \/ \E p \in Project \ {Main} :
       /\ catalog[p] # None /\ \A i \in DOMAIN History(stores[p]) : History(stores[p])[i] # OnFork
       /\ Commands(p, OnFork)

Snapshots(p) == Len(Record(p).snapshots)

JobStep(w) ==
  \/ ReadsView(w)
  \/ ForkCopies(w) \/ ForkSets(w, IsFollowed(w))
  \/ ChoosesCut(w) \/ Compacts(w) \/ RecordsPurge(w)

ServerNext ==
  /\ \/ CommandNext
     \/ \E p \in Project : catalog[p] # None /\ Snapshots(p) < SnapshotBound /\ CreatesSnapshot(p)
     \/ Committed(stores[Main]) = 0 /\ ui.session = 0 /\ SetsPolicy(Main, Seldom)
     \/ /\ looksAt = "following"
        /\ \E q \in Project \ {Main}, i \in 1 .. 2 : catalog[q] = None /\ ForkBegins(Main, q, i)
     \/ looksAt = "serving" /\ \E p \in Project : PurgeBegins(p)
     \/ \E w \in Worker : JobStep(w)
  /\ UNCHANGED uiVars

(* With the other policy the explorer is not looked at. *)
ExplorerNext ==
  \/ /\ looksAt = "following" /\ Record(Main).policy = EveryOther
     /\ \E p \in Project, isReloaded \in BOOLEAN :
          (p = Main \/ catalog[p] # None) /\ Connects(p, isReloaded)
  \/ \E s \in Session : SessionStep(s) \/ LosesSnapshot(s) \/ PollFails(s) \/ StreamBreaks(s)
  \/ ServerStops

(* What happens after a mishap is not looked at, except what the server     *)
(* does after purges, and what the explorer does after an answer to a       *)
(* session that is over or when the fork it follows has been made.          *)
FollowNext ==
  \/ mishaps \subseteq {"purge", "repeated purge"} /\ ServerNext
  \/ \E w \in Worker : SealsFor(w)
  \/ mishaps \subseteq {"superseded session", "half-made fork"} /\ ExplorerNext

followVars == <<serverVars, uiVars>>

vars == <<followVars, edit, looksAt>>

Next ==
  \/ looksAt \in {"following", "serving"} /\ FollowNext /\ UNCHANGED <<edit, looksAt>>
  \/ looksAt = "editing" /\ EditStep /\ UNCHANGED <<followVars, looksAt>>

Init == ServerInit /\ ExplorerInit /\ EditInit /\ looksAt \in Looks

(* Which worker serves a request makes no difference. *)
AnyWorker == Permutations(Worker)

Safety == Init /\ [][Next]_vars

(* The server answers, and the current session goes on. *)
Fairness ==
  /\ \A w \in Worker : WF_followVars((JobStep(w) /\ UNCHANGED uiVars) \/ SealsFor(w))
  /\ WF_followVars(\E s \in Session :
       IsCurrent(s) /\ (SessionStep(s) \/ (IsForgotten(s) /\ LosesSnapshot(s))))

Spec == Safety /\ Fairness
=============================================================================
