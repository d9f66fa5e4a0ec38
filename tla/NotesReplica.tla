---------------------------- MODULE NotesReplica ----------------------------
(***************************************************************************)
(* The notes applications over the HTTP gateway.  The notes server masks   *)
(* what a principal writes for the others.  The notes replica follows with *)
(* two loops, one polling and one reading the stream, that move one cursor *)
(* and feed one map of notes, in which a change that was seen is dropped.  *)
(* mesh-app watch only reads the stream, and prints.                       *)
(*                                                                         *)
(* The replica writes its cursor to a file and reads it when it starts,    *)
(* but bootstrapState ignores it and begins at 0: the file is left out.    *)
(***************************************************************************)
EXTENDS SyncHttp

CONSTANTS NoteCommands,  \* [tx, type, note, text, actor, mask] : what users ask of the server
          Users, NoteLimit, MaxStops

ASSUME NotesConstants == NoteLimit \in Nat \ {0} /\ MaxStops \in Nat

VARIABLES replica,  \* the replica's process
          watch,    \* the process of mesh-app watch
          stops

httpVars  == <<src, sub, mode>>
notesVars == <<httpVars, replica, watch, stops>>

-----------------------------------------------------------------------------
(* The notes server: a command masks its event for all others, or for those  *)
(* the creator of a note lists.                                              *)

MaskForOtherPrincipal(actor) == Users \ {actor}

ToMaskAcl(c) ==
  IF c.type = "created" /\ c.mask # None THEN c.mask \ {c.actor} ELSE MaskForOtherPrincipal(c.actor)

MaskedFor(principal) == {c.tx : c \in {d \in NoteCommands : principal \in ToMaskAcl(d)}}

(* submitNoteCommand: fresh ids, one graph event. *)
NoteBundle(c) == [kind |-> "append", tx |-> c.tx, slot |-> c.tx, hash |-> c.tx,
                  n |-> [s \in Streams |-> IF s = "graph" THEN 1 ELSE 0], base |-> None]

CommandOfTx(tx) == CHOOSE c \in NoteCommands : c.tx = tx

-----------------------------------------------------------------------------
(* applyGraphEvents.  notes maps the notes there are to text and deletion.   *)

Key(c) == <<c.type, c.note, c.text>>

NoNotes == [x \in {} |-> None]

ApplyEvent(notes, c) ==
  LET is(text, deleted) == [text |-> text, deleted |-> deleted] IN
  IF c.type = "created"
    THEN [x \in DOMAIN notes \cup {c.note} |->
            IF x = c.note THEN is(c.text, FALSE) ELSE notes[x]]
  ELSE IF c.note \notin DOMAIN notes THEN notes
  ELSE [notes EXCEPT ![c.note] =
          IF c.type = "deleted" THEN is(@.text, TRUE)
          ELSE is(IF c.text = None THEN @.text ELSE c.text, @.deleted)]

ApplyUnseen(r, tx) ==
  LET c == CommandOfTx(tx) IN
  IF Key(c) \in r.seen THEN r
  ELSE [r EXCEPT !.seen = @ \cup {Key(c)}, !.notes = ApplyEvent(@, c),
                 !.applied = Append(@, tx)]

ApplyGraphEvents(r, txs) ==
  LET after[i \in 0 .. Len(txs)] == IF i = 0 THEN r ELSE ApplyUnseen(after[i - 1], txs[i].tx)
  IN  after[Len(txs)]

(* GET /notes: readVisibleNotes *)
ServerNotes(ids) ==
  LET after[i \in 0 .. Len(ids)] ==
        IF i = 0 THEN NoNotes ELSE ApplyEvent(after[i - 1], CommandOfTx(ids[i]))
  IN  after[Len(ids)]

-----------------------------------------------------------------------------
(* startReplica: bootstrap, then the two loops. *)

NoPoll == [is |-> "idle"]

Starting == [phase |-> "bootstrap", cursor |-> 0, seen |-> {}, notes |-> NoNotes,
             applied |-> <<>>, poll |-> NoPoll]

NotesInit == replica = Starting /\ watch = [alive |-> FALSE, from |-> 0, printed |-> <<>>] /\ stops = 0

WatchInit == /\ replica = [Starting EXCEPT !.phase = "off"]
             /\ watch = [alive |-> TRUE, from |-> 0, printed |-> <<>>]
             /\ stops = 0

(* bootstrapState: an answer that is not ok ends it like one without news. *)
Bootstrap ==
  /\ replica.phase = "bootstrap"
  /\ LET pulled == HandleSyncPull(replica.cursor, NoteLimit, NoteLimit) IN
     replica' = IF pulled.txs = <<>> THEN [replica EXCEPT !.phase = "running"]
                ELSE [ApplyGraphEvents(replica, pulled.txs) EXCEPT !.cursor = pulled.after]
  /\ UNCHANGED <<httpVars, watch, stops>>

BootstrapRefused ==
  /\ replica.phase = "bootstrap"
  /\ replica' = [replica EXCEPT !.phase = "running"]
  /\ UNCHANGED <<httpVars, watch, stops>>

(* pollLoop: the cursor the request carries, the answer, and what is done    *)
(* with it are three moments.  A refused request answers with no events and  *)
(* the cursor it carried; a broken one is caught.                            *)
Poll ==
  /\ replica.phase = "running" /\ replica.poll = NoPoll
  /\ replica' = [replica EXCEPT !.poll = [is |-> "sent", from |-> replica.cursor]]
  /\ UNCHANGED <<httpVars, watch, stops>>

PollServed ==
  /\ replica.poll.is = "sent"
  /\ LET from == replica.poll.from IN
     \E answer \in {HandleSyncPull(from, NoteLimit, NoteLimit), [txs |-> <<>>, after |-> from]} :
       replica' = [replica EXCEPT !.poll = [is |-> "answered", answer |-> answer]]
  /\ UNCHANGED <<httpVars, watch, stops>>

PollBroken ==
  /\ replica.poll.is = "sent"
  /\ replica' = [replica EXCEPT !.poll = NoPoll]
  /\ UNCHANGED <<httpVars, watch, stops>>

(* Mutant: the answer moves the cursor and its events are not applied. *)
PollAnswered_Unapplied ==
  /\ replica.poll.is = "answered"
  /\ replica' = [replica EXCEPT !.poll = NoPoll, !.cursor = replica.poll.answer.after]
  /\ UNCHANGED <<httpVars, watch, stops>>

PollAnswered ==
  /\ replica.poll.is = "answered"
  /\ LET answer == replica.poll.answer
         done   == [replica EXCEPT !.poll = NoPoll]
     IN  replica' = IF answer.after = replica.cursor THEN done
                    ELSE [ApplyGraphEvents(done, answer.txs) EXCEPT !.cursor = answer.after]
  /\ UNCHANGED <<httpVars, watch, stops>>

(* sseLoop *)
ReplicaSubscribes ==
  /\ replica.phase = "running"
  /\ SubscribeFrom(replica.cursor)
  /\ UNCHANGED <<src, replica, watch, stops>>

ReplicaReadsBundles ==
  /\ replica.phase = "running" /\ HasFrame("txBundles")
  /\ replica' = ApplyGraphEvents(replica, Head(sub.frames).txs)
  /\ ReadFrame
  /\ UNCHANGED <<src, watch, stops>>

ReplicaReadsCursor ==
  /\ replica.phase = "running" /\ HasFrame("cursor")
  /\ replica' = [replica EXCEPT !.cursor = Greatest(@, Head(sub.frames).cursor)]
  /\ ReadFrame
  /\ UNCHANGED <<src, watch, stops>>

(* stopReplica or a crash, and the next start. *)
ReplicaRestarts ==
  /\ replica.phase # "off" /\ stops < MaxStops
  /\ replica' = Starting
  /\ sub' = NoStream
  /\ stops' = stops + 1
  /\ UNCHANGED <<src, mode, watch>>

-----------------------------------------------------------------------------
(* mesh-app watch: every frame is printed, a cursor frame moves from.  A     *)
(* stream that ends is followed by the next; an error of it is not caught    *)
(* and ends the process, and the user starts it anew.  printed has what was  *)
(* printed, in the order of its first time.                                  *)

Unprinted(txs) ==
  LET new[i \in Nat] ==
        IF i = 0 THEN <<>>
        ELSE IF \A j \in DOMAIN watch.printed : watch.printed[j] # txs[i]
          THEN Append(new[i - 1], txs[i]) ELSE new[i - 1]
  IN  new[Len(txs)]

WatchSubscribes ==
  /\ watch.alive
  /\ SubscribeFrom(watch.from)
  /\ UNCHANGED <<src, replica, watch, stops>>

WatchPrints ==
  /\ watch.alive /\ HasFrame("txBundles")
  /\ watch' = [watch EXCEPT !.printed = @ \o Unprinted(Head(sub.frames).txs)]
  /\ ReadFrame
  /\ UNCHANGED <<src, replica, stops>>

WatchMoves ==
  /\ watch.alive /\ HasFrame("cursor")
  /\ watch' = [watch EXCEPT !.from = Head(sub.frames).cursor]
  /\ ReadFrame
  /\ UNCHANGED <<src, replica, stops>>

WatchDies ==
  /\ watch.alive /\ sub.is # "off" /\ stops < MaxStops
  /\ watch' = [alive |-> TRUE, from |-> 0, printed |-> <<>>]
  /\ sub' = NoStream
  /\ stops' = stops + 1
  /\ UNCHANGED <<src, replica, mode>>

-----------------------------------------------------------------------------

Transport == /\ StreamRound \/ BreakStream \/ \E m \in Modes : SetMode(m)
             /\ UNCHANGED <<src, replica, watch, stops>>

PollReached ==
  /\ replica.poll.is = "sent"
  /\ replica' = [replica EXCEPT !.poll =
       [is |-> "answered", answer |-> HandleSyncPull(replica.poll.from, NoteLimit, NoteLimit)]]
  /\ UNCHANGED <<httpVars, watch, stops>>

PollLoop == Bootstrap \/ Poll \/ PollServed \/ PollAnswered

NotesStep ==
  \/ Bootstrap \/ BootstrapRefused \/ Poll \/ PollServed \/ PollBroken \/ PollAnswered
  \/ ReplicaSubscribes \/ ReplicaReadsBundles \/ ReplicaReadsCursor \/ ReplicaRestarts
  \/ WatchSubscribes \/ WatchPrints \/ WatchMoves \/ WatchDies
  \/ Transport

-----------------------------------------------------------------------------

(* The two loops race for one cursor and may move it back, but what it says  *)
(* has been applied, each change once and in the order of the log, and the   *)
(* notes are those GET /notes returned when the log was that long            *)
(* (applyGraphEvents against readVisibleNotes).                              *)
NotesAgree ==
  /\ replica.cursor <= Len(replica.applied)
  /\ replica.applied = SubSeq(VisibleIds, 1, Len(replica.applied))
  /\ replica.notes = ServerNotes(replica.applied)

(* However often the stream broke, watch printed every transaction up to     *)
(* where it resumes, and none before those that precede it.                  *)
WatchComplete ==
  /\ watch.from <= Len(watch.printed)
  /\ watch.printed = SubSeq(Delta(0, Visible), 1, Len(watch.printed))
=============================================================================
