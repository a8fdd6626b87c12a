------------------------------ MODULE MCHandler ------------------------------
(* The commands of a connection, the requests made on it and its dial loop *)
(* side by side, one of them in use, each with the fairness that its       *)
(* scheduling justifies: what must happen in the end.                      *)
EXTENDS Integers, TLC

CONSTANTS
  a, c,      \* a request() and a requestMany()
  A, B, C    \* two configured servers and one that is gossiped

VARIABLES
  closed, connected, connectedOnce, infoReceived, dialing, transport, epoch, outbound,
  flushQueued, pongs, sidCounter, subs, connDrain, drainSet, noMorePublishing,
  c2s, s2c, srv, flushed, pubs, flushes, msgs, unsubs, recent, owed, served, limit,
  rq_closed, rq_draining, rq_epoch, rq_mux, rq_muxSub, rq_inbox, rq_count, rq_req,
  rq_s2c, rq_frames,
  dl_options, dl_servers, dl_current, dl_firstSelect, dl_gossiped, dl_reconnects,
  dl_recent, dl_loop, dl_altsLeft, dl_doomed, dl_online, dl_connectedOnce, dl_closed,
  dl_abortReconnect, dl_lastError, dl_tries, dl_inARow,
  part                  \* which of them is in use

(* One subscription that is read with an iterator, a flush(), a reconnect. *)
P ==
  INSTANCE Protocol WITH
    MaxSubs <- 1, Iter <- {1}, Timed <- {}, Maxes <- {0}, MaxFlushes <- 1, PendingLimit <- 2,
    MaxPubs <- 0, MaxMsgs <- 0, MaxUnsubs <- 1, MaxEpochs <- 2

(* One request() and one requestMany(), over two connections.              *)
Rq ==
  INSTANCE Requests WITH
    One <- {a}, Many <- {c}, NoMux <- {}, Strategy <- c :> "jitterTimer",
    MaxMessages <- c :> 1, Subject <- [r \in {a, c} |-> "s"], MaxFrames <- 2, MaxEpochs <- 2,
    closed <- rq_closed, draining <- rq_draining, epoch <- rq_epoch, mux <- rq_mux,
    muxSub <- rq_muxSub, inbox <- rq_inbox, count <- rq_count, req <- rq_req,
    s2c <- rq_s2c, frames <- rq_frames

(* Each server has two addresses. With a limit, without and with patience  *)
(* at first, and when the loop may not start again; without a limit, with  *)
(* reconnects, and in a first loop that goes on while gossip adds and      *)
(* drops the third server.                                                 *)
Limited ==
  [maxReconnectAttempts |-> 2, waitOnFirstConnect |-> FALSE,
   ignoreAuthErrorAbort |-> FALSE, reconnect |-> TRUE, ignoreClusterUpdates |-> TRUE]
Patient ==
  [Limited EXCEPT !.maxReconnectAttempts = -1, !.waitOnFirstConnect = TRUE,
                  !.ignoreAuthErrorAbort = TRUE]
LoopOptions ==
  {Limited, [Limited EXCEPT !.waitOnFirstConnect = TRUE], [Limited EXCEPT !.reconnect = FALSE],
   Patient, [Patient EXCEPT !.reconnect = FALSE, !.ignoreClusterUpdates = FALSE]}

DL ==
  INSTANCE Reconnect WITH
    Listens <- <<A, B, C>>, Configured <- <<A, B>>, Options <- LoopOptions,
    Alts <- 2, CountCap <- 2,
    options <- dl_options, servers <- dl_servers, current <- dl_current,
    firstSelect <- dl_firstSelect, gossiped <- dl_gossiped, reconnects <- dl_reconnects,
    recent <- dl_recent, loop <- dl_loop, altsLeft <- dl_altsLeft, doomed <- dl_doomed,
    online <- dl_online, connectedOnce <- dl_connectedOnce, closed <- dl_closed,
    abortReconnect <- dl_abortReconnect, lastError <- dl_lastError, tries <- dl_tries,
    inARow <- dl_inARow

protocolVars ==
  <<closed, connected, connectedOnce, infoReceived, dialing, transport, epoch, outbound,
    flushQueued, pongs, sidCounter, subs, connDrain, drainSet, noMorePublishing,
    c2s, s2c, srv, flushed, pubs, flushes, msgs, unsubs, recent, owed, served, limit>>
requestVars ==
  <<rq_closed, rq_draining, rq_epoch, rq_mux, rq_muxSub, rq_inbox, rq_count, rq_req,
    rq_s2c, rq_frames>>
loopVars ==
  <<dl_options, dl_servers, dl_current, dl_firstSelect, dl_gossiped, dl_reconnects,
    dl_recent, dl_loop, dl_altsLeft, dl_doomed, dl_online, dl_connectedOnce, dl_closed,
    dl_abortReconnect, dl_lastError, dl_tries, dl_inARow>>
vars == <<protocolVars, requestVars, loopVars, part>>

(* No fair step is enabled in a part that is not in use.                   *)
MCInit ==
  /\ Rq!Init
  /\ \/ part = "protocol" /\ P!Init /\ DL!Unused
     \/ part = "requests" /\ P!Unused /\ DL!Unused
     \/ part = "loop" /\ P!Unused /\ DL!Init
MCNext ==
  \/ part = "protocol" /\ P!Next /\ UNCHANGED <<requestVars, loopVars, part>>
  \/ part = "requests" /\ Rq!Next /\ UNCHANGED <<protocolVars, loopVars, part>>
  \/ part = "loop" /\ DL!Next /\ UNCHANGED <<protocolVars, requestVars, part>>
MCSpec ==
  MCInit /\ [][MCNext]_vars /\ P!Fairness /\ Rq!Fairness /\ DL!Fairness
----------------------------------------------------------------------------
(* Every flush(), every drain of a subscription and drain() of the         *)
(* connection settle, over a reconnect in between (protocol.ts).           *)
CallsSettle == P!CallsSettle

(* Every request() and requestMany() on the mux comes to an end, whatever  *)
(* the server answers and however often the connection is lost             *)
(* (request.ts, nats.ts request(), requestMany()).                         *)
Settles == Rq!Settles

(* With a limit a dial loop ends, connected or not, though every dial may  *)
(* fail, except where the limit is set aside (waitOnFirstConnect, at       *)
(* first) or gossip brings a removed server back; and close() ends it      *)
(* whatever the limit (protocol.ts dialLoop(), dodialLoop()).              *)
LoopEnds == DL!LoopEnds

(* A dial loop that fails for ever comes back to every server that stays   *)
(* in the pool, while gossip adds and drops the third (servers.ts          *)
(* selectServer(), update()).                                              *)
NoServerStarves == DL!NoServerStarves
=============================================================================
