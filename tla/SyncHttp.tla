------------------------------ MODULE SyncHttp ------------------------------
(***************************************************************************)
(* The gateway behind HTTP: SyncHttpReferenceServer answers one request    *)
(* per operation and writes syncSubscribe as a stream of frames, and       *)
(* MeshTransportProxy may stand before it, which forwards everything but   *)
(* treats subscriptions according to its mode.                             *)
(*                                                                         *)
(* One subscriber.  Its stream is off, open or hung; an open one has the   *)
(* position of its generator and the frames written and not yet read, at   *)
(* most those of one round.  A request that fails on the way has no        *)
(* effect; one that is refused gets an answer that is not ok.              *)
(***************************************************************************)
EXTENDS Publisher

CONSTANTS StreamLimit, StreamFits  \* limitTx of a subscription; the byte limit

ASSUME HttpConstants == StreamLimit \in Nat /\ StreamFits \subseteq Nat \ {0}

VARIABLES sub,  \* the subscriber's stream
          mode  \* of the proxy

Modes == {"pass", "fail", "hang", "close"}

NoStream == [is |-> "off", at |-> 0, frames |-> <<>>]

HttpInit == sub = NoStream /\ mode = "pass"

-----------------------------------------------------------------------------
(* handleSyncPull, behind parsePrincipal and matchPath *)

HandleSyncPull(from, limit, fits) == SyncPull(src, Hidden, from, limit, fits)

(* handleSyncSubscribe: what the proxy makes of the request.               *)
SubscribeFrom(cursor) ==
  /\ sub.is = "off"
  /\ mode # "fail"
  /\ sub' = [is |-> IF mode = "hang" THEN "hung" ELSE "open", at |-> cursor, frames |-> <<>>]
  /\ mode' = mode

(* One round of syncSubscribe: the bundles, then the cursor.               *)
(* Mutant: the cursor is written before the bundles.                       *)
StreamRound_CursorFirst ==
  /\ sub.is = "open" /\ sub.frames = <<>>
  /\ \E fits \in StreamFits :
       LET pulled == SyncPull(src, Hidden, sub.at, StreamLimit, fits) IN
       /\ pulled.txs # <<>>
       /\ sub' = [sub EXCEPT !.at = pulled.after,
                             !.frames = <<[kind |-> "cursor", cursor |-> pulled.after],
                                          [kind |-> "txBundles", txs |-> pulled.txs]>>]
  /\ mode' = mode

StreamRound ==
  /\ sub.is = "open" /\ sub.frames = <<>>
  /\ \E fits \in StreamFits :
       LET pulled == SyncPull(src, Hidden, sub.at, StreamLimit, fits) IN
       /\ pulled.txs # <<>>
       /\ sub' = [sub EXCEPT !.at = pulled.after,
                             !.frames = <<[kind |-> "txBundles", txs |-> pulled.txs],
                                          [kind |-> "cursor", cursor |-> pulled.after]>>]
  /\ mode' = mode

ReadFrame == sub' = [sub EXCEPT !.frames = Tail(@)] /\ mode' = mode

HasFrame(kind) == sub.frames # <<>> /\ Head(sub.frames).kind = kind

(* The connection breaks, the server stops, or the proxy's timer closes it. *)
BreakStream == sub.is # "off" /\ sub' = NoStream /\ mode' = mode

(* setMode: any mode but pass ends the streams there are, hung ones too.   *)
SetMode(m) ==
  /\ m # mode
  /\ mode' = m
  /\ sub' = IF m = "pass" THEN sub ELSE NoStream
=============================================================================
