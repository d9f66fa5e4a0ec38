-------------------------------- MODULE Graph --------------------------------
(***************************************************************************)
(* The graph that the graph server and its explorers draw from graph       *)
(* events: nodes with a label, links between two nodes.  Both sides apply  *)
(* events alike; only what is shown leaves out links without their ends.   *)
(***************************************************************************)
EXTENDS Sequences, Naturals, FiniteSets

EmptyGraph == [nodes |-> {}, links |-> {}]

NodeIds(g) == {n.id : n \in g.nodes}

Without(xs, id) == {x \in xs : x.id # id}

WithNode(g, id, label) ==
  [g EXCEPT !.nodes = Without(@, id) \cup {[id |-> id, label |-> label]}]

ApplyGraphEvent(g, e) ==
  CASE e.type = "node.created" -> WithNode(g, e.id, e.label)
    [] e.type = "node.label.updated" -> IF e.id \in NodeIds(g) THEN WithNode(g, e.id, e.label) ELSE g
    [] e.type = "node.deleted" -> [nodes |-> Without(g.nodes, e.id),
                                   links |-> {l \in g.links : e.id \notin {l.source, l.target}}]
    [] e.type = "link.created" -> [g EXCEPT !.links = Without(@, e.link.id) \cup {e.link}]
    [] e.type = "link.deleted" -> [g EXCEPT !.links = Without(@, e.id)]

ApplyGraphEvents(g, events) ==
  LET after[i \in 0 .. Len(events)] == IF i = 0 THEN g ELSE ApplyGraphEvent(after[i - 1], events[i])
  IN  after[Len(events)]

(* What is drawn, exported and put into a snapshot: no dangling links. *)
Shown(g) == [g EXCEPT !.links = {l \in @ : {l.source, l.target} \subseteq NodeIds(g)}]

(* Elements in some order (the provers know nothing of SetToSeq). *)
InOrder(S) ==
  CHOOSE f \in [1 .. Cardinality(S) -> S] : \A i, j \in 1 .. Cardinality(S) : f[i] = f[j] => i = j

(* The events that draw a graph anew: hydrating a store, forking a project. *)
EventsOf(g) ==
  InOrder({[type |-> "node.created", id |-> n.id, label |-> n.label] : n \in g.nodes})
  \o InOrder({[type |-> "link.created", link |-> l] : l \in g.links})
=============================================================================
