------------------------------- MODULE Editor --------------------------------
(***************************************************************************)
(* What a user does to the graph in Mesh Explorer: UndoRedoManager, the    *)
(* actions it is given, which each send one command to the server and wait *)
(* for the answer, and the import of a file, which sends one by one what   *)
(* is not there.  The explorer decides from the graph it draws, which the  *)
(* synchronisation brings up to that of the server some time later.        *)
(*                                                                         *)
(* One gesture at a time: the next begins when the last has ended.  A      *)
(* command may fail, and nobody knows then whether it was committed.       *)
(* Ids are sequences: <<k>> for the k-th gesture, longer for renamed ones. *)
(***************************************************************************)
EXTENDS Graph

CONSTANTS Label,
          File,         \* [nodes, links], sequences: what can be imported
          StartGraphs,  \* what the project may have when the explorer opens it
          MaxGestures

(* parseExportedGraph: links are between nodes of the file. *)
Parses(file) ==
  \A i \in DOMAIN file.links :
    {file.links[i].source, file.links[i].target} \subseteq {file.nodes[j].id : j \in DOMAIN file.nodes}

(* Ids are drawn at random: those there were, in the project and the file,   *)
(* are no gesture's.                                                         *)
OldId == {id \in Seq(Nat) : id # <<>> /\ \A k \in 1 .. MaxGestures : id # <<k>>}

AnyLabel == Label \cup {File.nodes[i].label : i \in DOMAIN File.nodes}
                  \cup UNION {{n.label : n \in g.nodes} : g \in StartGraphs}

OldNode == [id : OldId, label : AnyLabel]
OldLink == [id : OldId, source : OldId, target : OldId]

(* nodesById and linksById: an id names one node, or link. *)
IsKeyed(xs) == IsFiniteSet(xs) /\ \A x, y \in xs : x.id = y.id => x = y

(* exportGraphFromState writes what those maps hold. *)
HasOnce(xs) == \A i, j \in DOMAIN xs : xs[i].id = xs[j].id => i = j

ASSUME EditConstants ==
  /\ MaxGestures \in Nat
  /\ File \in [nodes : Seq(OldNode), links : Seq(OldLink)] /\ Parses(File)
  /\ HasOnce(File.nodes) /\ HasOnce(File.links)
  /\ StartGraphs \subseteq [nodes : SUBSET OldNode, links : SUBSET OldLink]
  /\ \A g \in StartGraphs : IsKeyed(g.nodes) /\ IsKeyed(g.links)

VARIABLE edit

Resting == [does |-> "nothing"]

(* graph is the server's, shown the explorer's.  hurt says what the last     *)
(* failure has left half done, and base what the empty stacks stand for.     *)
EditInit ==
  \E g \in StartGraphs :
    edit = [graph |-> g, shown |-> g, undo |-> <<>>, redo |-> <<>>, doing |-> Resting,
            made |-> 0, hurt |-> "nothing", base |-> g]

NodeCreated(n) == [type |-> "node.created", id |-> n.id, label |-> n.label]
LinkCreated(l) == [type |-> "link.created", link |-> l]
Deleted(type, x) == [type |-> type, id |-> x.id]
Relabelled(n, label) == [type |-> "node.label.updated", id |-> n.id, label |-> label]

NodesCreated(nodes) == [i \in DOMAIN nodes |-> NodeCreated(nodes[i])]
LinksCreated(links) == [i \in DOMAIN links |-> LinkCreated(links[i])]
NodesDeleted(nodes) == [i \in DOMAIN nodes |-> Deleted("node.deleted", nodes[i])]
LinksDeleted(links) == [i \in DOMAIN links |-> Deleted("link.deleted", links[i])]

Item(redo, undo) == [redo |-> redo, undo |-> undo]

(* What is drawn is what there is, with no link without its ends.            *)
IsUpToDate == edit.shown = edit.graph /\ edit.shown = Shown(edit.shown)

(* A half done undo or redo is to be done again before anything else, and    *)
(* what is recorded is recorded from the graph as it is.                     *)
Begins(does, todo, rest) ==
  /\ edit.doing = Resting /\ edit.made < MaxGestures
  /\ edit' = [edit EXCEPT
       !.doing = [does |-> does, todo |-> todo, rest |-> rest, isCurrent |-> IsUpToDate],
       !.made = @ + 1,
       !.hurt = IF @ \in {"nothing", does} /\ (does = "record" => edit.shown = edit.graph)
                  THEN @ ELSE "for good"]

Records(item) == Begins("record", item.redo, item)

-----------------------------------------------------------------------------
(* addNode, createLinkFromDraft, requestRename, requestDelete *)

Fresh == <<edit.made + 1>>

AddsNode(label) ==
  LET n == [id |-> Fresh, label |-> label]
  IN  Records(Item(<<NodeCreated(n)>>, <<Deleted("node.deleted", n)>>))

DrawsLink(source, target) ==
  LET l == [id |-> Fresh, source |-> source, target |-> target]
  IN  Records(Item(<<LinkCreated(l)>>, <<Deleted("link.deleted", l)>>))

Renames(n, label) ==
  /\ label # n.label
  /\ Records(Item(<<Relabelled(n, label)>>, <<Relabelled(n, n.label)>>))

IsIncident(l, nodes) == {l.source, l.target} \cap {n.id : n \in nodes} # {}

(* buildMultiDeletePlan: a link at a deleted node goes with it. *)
ExplicitLinks(nodes, links) == {l \in links : ~IsIncident(l, nodes)}

(* Mutant: only the links that were selected come back. *)
Deletes_SelectedBack(nodes, links) ==
  LET ns == InOrder(nodes)
      ls == InOrder(ExplicitLinks(nodes, links))
  IN  /\ nodes \cup links # {}
      /\ Records(Item(NodesDeleted(ns) \o LinksDeleted(ls), NodesCreated(ns) \o LinksCreated(ls)))

(* recordMultiDelete: all links come back with an undo. *)
Deletes(nodes, links) ==
  LET implicit == {l \in edit.shown.links : IsIncident(l, nodes)}
      explicit == ExplicitLinks(nodes, links)
      ns       == InOrder(nodes)
  IN  /\ nodes \cup links # {}
      /\ Records(Item(NodesDeleted(ns) \o LinksDeleted(InOrder(explicit)),
                      NodesCreated(ns) \o LinksCreated(InOrder(implicit \cup explicit))))

-----------------------------------------------------------------------------
(* UndoRedoManager.undo, redo: the item is taken off when all is done. *)

Top(stack) == stack[Len(stack)]

Popped(stack) == SubSeq(stack, 1, Len(stack) - 1)

Undoes == edit.undo # <<>> /\ Begins("undo", Top(edit.undo).undo, <<>>)

Redoes == edit.redo # <<>> /\ Begins("redo", Top(edit.redo).redo, <<>>)

-----------------------------------------------------------------------------
(* importGraph and clearGraph *)

(* With "merge" what is drawn already is left as it is, with "add" it gets   *)
(* another id.                                                               *)
ImportedId(i, id, mode, ids) == IF mode = "add" /\ id \in ids THEN Append(id, i) ELSE id

(* The id of the i-th: what is imported is there for the next. *)
GivenId(i, xs, mode, ids) ==
  LET existing[k \in 0 .. Len(xs)] ==
        IF k = 0 THEN ids ELSE existing[k - 1] \cup {ImportedId(k, xs[k].id, mode, existing[k - 1])}
  IN  ImportedId(i, xs[i].id, mode, existing[i - 1])

LinkIds(g) == {l.id : l \in g.links}

(* nodeIdMap *)
NodeIdFor(mode, g, id) ==
  IF \E i \in DOMAIN File.nodes : File.nodes[i].id = id
    THEN GivenId(CHOOSE i \in DOMAIN File.nodes : File.nodes[i].id = id, File.nodes, mode, NodeIds(g))
    ELSE id

Imported(mode, g) ==
  LET idOf(id) == NodeIdFor(mode, g, id)
  IN  [nodes |-> [i \in DOMAIN File.nodes |-> [File.nodes[i] EXCEPT !.id = idOf(@)]],
       links |-> [i \in DOMAIN File.links |->
                    [id |-> GivenId(i, File.links, mode, LinkIds(g)),
                     source |-> idOf(File.links[i].source), target |-> idOf(File.links[i].target)]]]

(* Mutant: a link is left out unless this import created its ends. *)
ImportEvents_OwnEnds(mode, g) ==
  LET wanted == Imported(mode, g)
      Misses(x) == mode = "merge" => x.id \notin NodeIds(g)
      nodes == SelectSeq(wanted.nodes, Misses)
      Has(l) == {l.source, l.target} \subseteq {nodes[i].id : i \in DOMAIN nodes}
  IN  NodesCreated(nodes) \o LinksCreated(SelectSeq(wanted.links, Has))

(* Those of xs that are not there yet, in their order. *)
Missing(xs, ids) ==
  LET upTo[i \in 0 .. Len(xs)] ==
        IF i = 0 THEN <<>>
        ELSE IF xs[i].id \in ids THEN upTo[i - 1] ELSE Append(upTo[i - 1], xs[i])
  IN  upTo[Len(xs)]

ImportEvents(mode, g) ==
  LET wanted == Imported(mode, g)
      kept(ids) == IF mode = "merge" THEN ids ELSE {}
  IN  NodesCreated(Missing(wanted.nodes, kept(NodeIds(g))))
      \o LinksCreated(Missing(wanted.links, kept(LinkIds(g))))

Imports(mode) == Begins("import", ImportEvents(mode, edit.shown), Imported(mode, edit.shown))

(* "import" clears the graph first; a clear forgets the stacks at once, this *)
(* one when it is done.                                                      *)
ClearEvents == NodesDeleted(InOrder(edit.shown.nodes))

Replaces == Begins("replace", ClearEvents, <<>>)

Clears ==
  /\ edit.doing = Resting /\ edit.made < MaxGestures
  /\ edit' = [edit EXCEPT !.undo = <<>>, !.redo = <<>>, !.made = @ + 1,
       !.doing = [does |-> "clear", todo |-> ClearEvents, rest |-> <<>>, isCurrent |-> TRUE]]

-----------------------------------------------------------------------------

Sends ==
  /\ edit.doing # Resting /\ edit.doing.todo # <<>>
  /\ edit' = [edit EXCEPT !.graph = ApplyGraphEvent(@, Head(edit.doing.todo)), !.doing.todo = Tail(@)]

(* The answer is an error, or none comes: the gesture is over.               *)
CommandFails ==
  /\ edit.doing # Resting /\ edit.doing.todo # <<>>
  /\ \E g \in {edit.graph, ApplyGraphEvent(edit.graph, Head(edit.doing.todo))} :
       LET does == edit.doing.does IN
       edit' = [edit EXCEPT !.graph = g, !.doing = Resting,
                  !.base = IF does \in {"clear", "refill"} THEN g ELSE @,
                  !.hurt = IF does \in {"clear", "refill"} THEN "nothing"
                           ELSE IF does \in {"undo", "redo"} /\ @ \in {"nothing", does} THEN does
                           ELSE "for good"]

(* The gesture is over, with what it does to the stacks.                     *)
Ends(does, undo, redo) ==
  /\ edit.doing.does = does /\ edit.doing.todo = <<>>
  /\ edit' = [edit EXCEPT !.doing = Resting, !.undo = undo, !.redo = redo,
       !.base = IF does \in {"clear", "refill"} THEN edit.graph ELSE @,
       !.hurt = IF does \in {"clear", "refill"} \/ @ = does THEN "nothing"
                ELSE IF does = "import" THEN "for good" ELSE @]

EndsRecord == Ends("record", Append(edit.undo, edit.doing.rest), <<>>)
EndsUndo   == edit.doing.does = "undo" /\ Ends("undo", Popped(edit.undo), Append(edit.redo, Top(edit.undo)))
EndsRedo   == edit.doing.does = "redo" /\ Ends("redo", Append(edit.undo, Top(edit.redo)), Popped(edit.redo))
EndsImport == \E does \in {"import", "refill", "clear"} : Ends(does, edit.undo, edit.redo)

(* What was cleared for an import is filled again. *)
Refills ==
  /\ edit.doing.does = "replace" /\ edit.doing.todo = <<>>
  /\ edit' = [edit EXCEPT !.undo = <<>>, !.redo = <<>>,
       !.doing = [does |-> "refill", todo |-> ImportEvents("import", edit.shown),
                  rest |-> Imported("import", edit.shown), isCurrent |-> TRUE]]

(* The explorer comes to draw what the server has (Explorer!ExplorerAgrees). *)
Syncs == edit.shown # edit.graph /\ edit' = [edit EXCEPT !.shown = edit.graph]

EditStep ==
  \/ \E label \in Label : AddsNode(label) \/ \E n \in edit.shown.nodes : Renames(n, label)
  \/ \E source, target \in NodeIds(edit.shown) : DrawsLink(source, target)
  \/ \E nodes \in SUBSET edit.shown.nodes, links \in SUBSET edit.shown.links : Deletes(nodes, links)
  \/ Undoes \/ Redoes
  \/ (\E mode \in {"merge", "add"} : Imports(mode)) \/ Replaces \/ Clears
  \/ Sends \/ CommandFails
  \/ EndsRecord \/ EndsUndo \/ EndsRedo \/ EndsImport \/ Refills
  \/ Syncs

-----------------------------------------------------------------------------

(* The items of a stack undone, or done again, from its top down. *)
Undone(g, stack) ==
  LET after[i \in 0 .. Len(stack)] ==
        IF i = 0 THEN g ELSE ApplyGraphEvents(after[i - 1], stack[Len(stack) + 1 - i].undo)
  IN  after[Len(stack)]

Redone(g, stack) ==
  LET after[i \in 0 .. Len(stack)] ==
        IF i = 0 THEN g ELSE ApplyGraphEvents(after[i - 1], stack[Len(stack) + 1 - i].redo)
  IN  after[Len(stack)]

Turned(stack) == [i \in 1 .. Len(stack) |-> stack[Len(stack) + 1 - i]]

(* Undoing everything leads back to where the stacks began, and redoing      *)
(* everything and undoing that leads back here, also after an undo or a redo *)
(* failed half way, if it was tried again (recordMultiDelete, undo, redo).   *)
UndoRestores ==
  edit.doing = Resting /\ edit.hurt = "nothing" =>
    /\ Undone(edit.graph, edit.undo) = edit.base
    /\ Undone(Redone(edit.graph, edit.redo), Turned(edit.redo)) = edit.graph

(* An import that has ended without an error has brought all of the file,    *)
(* with its links, also when it is the second try after one that failed half *)
(* way, if the explorer drew the graph as it was when it began, with no link *)
(* without its ends (importGraph).                                           *)
ImportWhole ==
  edit.doing # Resting /\ edit.doing.does \in {"import", "refill"}
      /\ edit.doing.todo = <<>> /\ edit.doing.isCurrent =>
    LET wanted == edit.doing.rest IN
    /\ \A i \in DOMAIN wanted.nodes : wanted.nodes[i].id \in NodeIds(edit.graph)
    /\ \A i \in DOMAIN wanted.links : wanted.links[i].id \in {l.id : l \in Shown(edit.graph).links}
=============================================================================
