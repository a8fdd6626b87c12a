------------------------------- MODULE Protocol -------------------------------
(***************************************************************************)
(* The protocol handler of the client (nats-base-client/protocol.ts) and   *)
(* the calls of NatsConnectionImpl that reach it (nats-base-client/        *)
(* nats.ts): the outbound buffer, the queue of pending PONGs, the          *)
(* subscription table, drain and close, across connections that are lost   *)
(* and dialled again.                                                      *)
(*                                                                         *)
(* One step is one run of the event loop: a call of the application, a     *)
(* frame handed over by the parser, a timer, a transport notification,     *)
(* each with the promise continuations that run before the next event.     *)
(* The nats-server is external: it handles the commands of a connection in *)
(* order and forgets everything about a connection when it ends.           *)
(***************************************************************************)
EXTENDS Integers, Sequences, FiniteSets

CONSTANTS
  MaxSubs,       \* bound: subscriptions ever made, numbered by their sid
  Iter,          \* the sids whose subscription is read with an iterator
  Timed,         \* the sids whose subscription has a timeout option
  Maxes,         \* the max options and unsubscribe(max) arguments, 0: none
  MaxFlushes,    \* bound: flush() calls of the application
  PendingLimit,  \* options.pendingLimit, in commands
  MaxPubs,       \* bound: publish calls
  MaxMsgs,       \* bound: messages the server delivers
  MaxUnsubs,     \* bound: unsubscribe calls of the application
  MaxEpochs      \* bound: transports created (dials)

Sid == 1..MaxSubs
PubId == 1..MaxPubs

(* Who waits for a PONG: the dial, a flush() call, the drain of a          *)
(* subscription (named by its sid), the last flush of drain().             *)
Connect == <<"connect", 0>>
Final == <<"final", 0>>
DrainOf(s) == <<"drain", s>>
FlushCall(f) == <<"flush", f>>
Tag == {Connect, Final} \cup {DrainOf(s) : s \in Sid}
         \cup {FlushCall(f) : f \in 1..MaxFlushes}

ASSUME ProtocolAssumption ==
  /\ MaxSubs \in Nat /\ MaxPubs \in Nat /\ MaxMsgs \in Nat
  /\ MaxFlushes \in Nat /\ MaxUnsubs \in Nat /\ MaxEpochs \in Nat
  /\ PendingLimit \in Nat \ {0}
  /\ Iter \subseteq Sid /\ Timed \subseteq Sid
  /\ Maxes \subseteq Nat /\ 0 \in Maxes

VARIABLES
  closed,        \* _closed
  connected,     \* connected
  connectedOnce, \* connectedOnce: connect() has returned a connection
  infoReceived,  \* infoReceived
  dialing,       \* connectPromise is not null: a dial loop runs
  transport,     \* the current transport, see TransportState
  epoch,         \* how many transports were made
  outbound,      \* outbound: the commands not yet handed to the transport
  flushQueued,   \* a flushPending microtask is queued
  pongs,         \* pongs: who gets the next PONG
  sidCounter,    \* subscriptions.sidCounter
  subs,          \* the SubscriptionImpl of each sid
  connDrain,     \* progress of drain() on the connection
  drainSet,      \* the subscriptions drain() waits for
  noMorePublishing,
  c2s,           \* commands handed to the transport, not yet processed
  s2c,           \* frames the server sent, not yet parsed
  srv,           \* the server's table of subscriptions of this connection
  flushed,       \* outcome of the promise of each Tag
  pubs,          \* publish calls so far
  flushes,       \* flush() calls so far
  msgs,          \* messages delivered by the server so far
  unsubs,        \* unsubscribe calls so far
  recent,        \* history: publications since the last reset of outbound
  owed,          \* history: recent when the flush of a Tag was called
  served,        \* history: publications the server processed
  limit          \* history: the smallest max requested for a sid, 0: none

client == <<closed, connected, connectedOnce, infoReceived, dialing, transport,
            epoch, outbound, flushQueued, pongs, sidCounter, subs, connDrain,
            drainSet, noMorePublishing>>
history == <<recent, owed, served, limit>>
counters == <<pubs, flushes, msgs, unsubs>>
vars == <<client, c2s, s2c, srv, flushed, counters, history>>

-----------------------------------------------------------------------------
(* Commands and frames. The tag of a PING and of a PONG is not on the      *)
(* wire: it names the caller on whose behalf the PING was written.         *)
SUB(s) == [op |-> "SUB", sid |-> s, max |-> 0, tag |-> Connect]
UNSUB(s, m) == [op |-> "UNSUB", sid |-> s, max |-> m, tag |-> Connect]
PUB(p) == [op |-> "PUB", sid |-> p, max |-> 0, tag |-> Connect]
PING(t) == [op |-> "PING", sid |-> 0, max |-> 0, tag |-> t]
PONG(t) == [op |-> "PONG", sid |-> 0, tag |-> t]
MSG(s) == [op |-> "MSG", sid |-> s, tag |-> Connect]
INFO == [op |-> "INFO", sid |-> 0, tag |-> Connect]

Command ==
  {c \in [op : {"SUB", "UNSUB", "PUB", "PING"}, sid : Nat, max : Nat, tag : Tag] :
     c.op = "PUB" => c.sid \in PubId}
Frame == [op : {"PONG", "MSG", "INFO"}, sid : Nat, tag : Tag]

(* none: before the first dial; connecting: transport.connect() pending;   *)
(* open: the socket is usable; leaving: disconnect() was called and its    *)
(* notification is pending; gone: the socket is closed.                    *)
TransportState == {"none", "connecting", "open", "leaving", "gone"}

Subscription ==
  [listed : BOOLEAN,          \* in Subscriptions.subs
   max : Nat,                 \* max, 0: undefined
   received : Nat,            \* received
   done : BOOLEAN,            \* done, isClosed()
   closing : BOOLEAN,         \* the close function is queued on the iterator
   timer : BOOLEAN,           \* the timeout is armed
   drain : {"no", "pending", "settled"}] \* draining and drained

NewSub(s, m) ==
  [listed |-> TRUE, max |-> m, received |-> 0, done |-> FALSE,
   closing |-> FALSE, timer |-> s \in Timed, drain |-> "no"]

NoSub == [listed |-> FALSE, max |-> 0, received |-> 0, done |-> FALSE,
          closing |-> FALSE, timer |-> FALSE, drain |-> "no"]

ServerSub == [on : BOOLEAN, max : Nat, sent : Nat]
NoInterest == [s \in Sid |-> [on |-> FALSE, max |-> 0, sent |-> 0]]

(* The type invariant: tables, queues and counters of the handler. *)
TypeOK ==
  /\ closed \in BOOLEAN /\ connected \in BOOLEAN /\ connectedOnce \in BOOLEAN
  /\ infoReceived \in BOOLEAN /\ dialing \in BOOLEAN
  /\ transport \in TransportState
  /\ epoch \in Nat /\ sidCounter \in 0..MaxSubs
  /\ outbound \in Seq(Command) /\ c2s \in Seq(Command)
  /\ flushQueued \in BOOLEAN
  /\ pongs \in Seq(Tag)
  /\ s2c \in Seq(Frame)
  /\ subs \in [Sid -> Subscription]
  /\ srv \in [Sid -> ServerSub]
  /\ connDrain \in {"no", "subs", "final", "settled"}
  /\ drainSet \subseteq Sid
  /\ noMorePublishing \in BOOLEAN
  /\ flushed \in [Tag -> {"none", "pending", "resolved", "rejected"}]
  /\ pubs \in 0..MaxPubs /\ flushes \in 0..MaxFlushes /\ msgs \in Nat /\ unsubs \in Nat
  /\ recent \subseteq PubId /\ served \subseteq PubId
  /\ owed \in [Tag -> SUBSET PubId]
  /\ limit \in [Sid -> Nat]

(* new ProtocolHandler(), with the first dialLoop() started by connect(). *)
Init ==
  /\ closed = FALSE /\ connected = FALSE /\ connectedOnce = FALSE
  /\ infoReceived = FALSE /\ dialing = TRUE /\ transport = "none"
  /\ epoch = 0 /\ outbound = <<>> /\ flushQueued = FALSE /\ pongs = <<>>
  /\ sidCounter = 0 /\ subs = [s \in Sid |-> NoSub]
  /\ connDrain = "no" /\ drainSet = {} /\ noMorePublishing = FALSE
  /\ c2s = <<>> /\ s2c = <<>> /\ srv = NoInterest
  /\ flushed = [t \in Tag |-> "none"]
  /\ pubs = 0 /\ flushes = 0 /\ msgs = 0 /\ unsubs = 0
  /\ recent = {} /\ owed = [t \in Tag |-> {}] /\ served = {}
  /\ limit = [s \in Sid |-> 0]

-----------------------------------------------------------------------------
(* Writing. An io value is the outbound buffer, what was handed to the     *)
(* transport, and whether a flushPending microtask is queued; the          *)
(* operators below thread it through the calls one handler makes.          *)
IO == [out |-> outbound, wire |-> c2s, queued |-> flushQueued]

SetIO(io) == outbound' = io.out /\ c2s' = io.wire /\ flushQueued' = io.queued

(* Transport.send: nothing is written once the transport is done. *)
TransportSend(io, cmds) ==
  [io EXCEPT !.wire = IF transport = "open" THEN @ \o cmds ELSE @]

flushPending(io) ==
  IF infoReceived /\ connected
  THEN [TransportSend(io, io.out) EXCEPT !.out = <<>>]
  ELSE io

(* Faulty variant: no flush is queued when the buffer was empty. *)
sendCommand_Unqueued(io, cmd) ==
  LET filled == [io EXCEPT !.out = Append(@, cmd)] IN
  IF Len(filled.out) >= PendingLimit THEN flushPending(filled) ELSE filled

sendCommand(io, cmd) ==
  LET filled == [io EXCEPT !.out = Append(@, cmd)] IN
  CASE io.out = <<>> -> [filled EXCEPT !.queued = TRUE]
    [] io.out # <<>> /\ Len(filled.out) >= PendingLimit -> flushPending(filled)
    [] OTHER -> filled

(* Faulty variant: the PING overtakes the buffer. *)
flushPing_Overtakes(io, t) ==
  IF connected THEN TransportSend(io, <<PING(t)>>)
               ELSE [io EXCEPT !.out = Append(@, PING(t))]

(* flush(): the PING bypasses sendCommand and is flushed at once. *)
flushPing(io, t) == flushPending([io EXCEPT !.out = Append(@, PING(t))])

(* unsub(): silent on a closed connection. *)
unsubIO(io, s, m) == IF closed THEN io ELSE sendCommand(io, UNSUB(s, m))
unsubSub(sub, m) == IF closed THEN sub ELSE [sub EXCEPT !.max = m]

(* SubscriptionImpl.close(): a callback subscription stops at once, an     *)
(* iterator when it gets to the queued function.                           *)
closeSub(s, sub) ==
  IF sub.done THEN sub
  ELSE IF s \in Iter
       THEN [sub EXCEPT !.timer = FALSE, !.closing = TRUE]
       ELSE [sub EXCEPT !.timer = FALSE, !.done = TRUE]

(* Subscriptions.cancel(): close and remove from the table. *)
cancelSub(s, sub) == [closeSub(s, sub) EXCEPT !.listed = FALSE]

(* ProtocolHandler.unsubscribe(): tell the server, and cancel unless more  *)
(* messages are wanted.                                                    *)
unsubscribeSub(s, sub, m) ==
  LET u == unsubSub(sub, m) IN
  IF u.max = 0 \/ u.received >= u.max THEN cancelSub(s, u) ELSE u

(* A set of sids in the order of the table. *)
InOrder(S) == {q \in [1..Cardinality(S) -> S] :
                 \A i, j \in 1..Cardinality(S) : i < j => q[i] < q[j]}
Listed == {s \in Sid : subs[s].listed}

(* sendSubscriptions(): one SUB per listed subscription, straight to the   *)
(* transport.                                                              *)
(* Faulty variant: the last one is left out. *)
sendSubscriptions_ButLast(io, q) ==
  TransportSend(io, [i \in 1..(Len(q) - 1) |-> SUB(q[i])])

sendSubscriptions(io, q) == TransportSend(io, [i \in 1..Len(q) |-> SUB(q[i])])

Smaller(a, b) == IF a = 0 \/ (b # 0 /\ b < a) THEN b ELSE a

-----------------------------------------------------------------------------
(* Calls of the application. connect() hands out the connection after the  *)
(* first dial; _check refuses calls on a closed or draining connection.    *)
link == <<closed, connected, connectedOnce, infoReceived, dialing, transport, epoch>>
draining == connDrain # "no"

subscribe(m) ==
  LET s == sidCounter + 1
      io == sendCommand(IO, SUB(s))
  IN
  /\ connectedOnce /\ ~closed /\ ~draining
  /\ sidCounter < MaxSubs
  /\ sidCounter' = s
  /\ subs' = [subs EXCEPT ![s] = NewSub(s, m)]
  /\ limit' = [limit EXCEPT ![s] = m]
  /\ SetIO(IF m = 0 THEN io ELSE sendCommand(io, UNSUB(s, m)))
  /\ UNCHANGED <<link, pongs, connDrain, drainSet, noMorePublishing, s2c, srv,
                 flushed, counters, recent, owed, served>>

(* unsubscribe(max) by the application. Callers lower a limit they set and *)
(* never raise it.                                                         *)
unsubscribe(s, m) ==
  /\ s <= sidCounter
  /\ unsubs < MaxUnsubs /\ unsubs' = unsubs + 1
  /\ m = 0 \/ limit[s] = 0 \/ m <= limit[s]
  /\ subs' = [subs EXCEPT ![s] = unsubscribeSub(s, @, m)]
  /\ limit' = [limit EXCEPT ![s] = Smaller(@, m)]
  /\ SetIO(unsubIO(IO, s, m))
  /\ UNCHANGED <<link, pongs, sidCounter, connDrain, drainSet, noMorePublishing,
                 s2c, srv, flushed, pubs, flushes, msgs, recent, owed, served>>

(* The bookkeeping of a flush() on behalf of t. *)
pushPong(ts) ==
  /\ pongs' = pongs \o ts
  /\ flushed' = [t \in Tag |-> IF \E i \in 1..Len(ts) : ts[i] = t
                               THEN "pending" ELSE flushed[t]]
  /\ owed' = [t \in Tag |-> IF \E i \in 1..Len(ts) : ts[i] = t
                            THEN recent ELSE owed[t]]

flush ==
  /\ connectedOnce /\ ~closed
  /\ flushes < MaxFlushes /\ flushes' = flushes + 1
  /\ pushPong(<<FlushCall(flushes + 1)>>)
  /\ SetIO(flushPing(IO, FlushCall(flushes + 1)))
  /\ UNCHANGED <<link, sidCounter, subs, connDrain, drainSet, noMorePublishing,
                 s2c, srv, pubs, msgs, unsubs, recent, served, limit>>

publish ==
  /\ connectedOnce /\ ~closed /\ ~noMorePublishing
  /\ pubs < MaxPubs /\ pubs' = pubs + 1
  /\ recent' = recent \cup {pubs + 1}
  /\ SetIO(sendCommand(IO, PUB(pubs + 1)))
  /\ UNCHANGED <<link, pongs, sidCounter, subs, connDrain, drainSet,
                 noMorePublishing, s2c, srv, flushed, flushes, msgs, unsubs,
                 owed, served, limit>>

(* SubscriptionImpl.drain() of each sid of q in turn: UNSUB, then a flush  *)
(* whose outcome, either way, cancels the subscription. A flushPending is  *)
(* queued when the buffer was empty, or is again after the first flush.    *)
(* Faulty variant: flush before UNSUB. *)
drainIO_FlushFirst(io, q) ==
  flushPending([io EXCEPT !.out = @ \o
    [i \in 1..(2 * Len(q)) |-> IF i % 2 = 1 THEN PING(DrainOf(q[(i + 1) \div 2]))
                                            ELSE UNSUB(q[i \div 2], 0)]])

drainCmds(q) ==
  [i \in 1..(2 * Len(q)) |-> IF i % 2 = 1 THEN UNSUB(q[(i + 1) \div 2], 0)
                                          ELSE PING(DrainOf(q[i \div 2]))]

drainIO(io, q) ==
  LET emptied == infoReceived /\ connected /\ Len(q) > 1 IN
  IF q = <<>> THEN io
  ELSE flushPending([io EXCEPT !.out = @ \o drainCmds(q),
                               !.queued = @ \/ io.out = <<>> \/ emptied])

startDrain(sub) == [sub EXCEPT !.drain = "pending", !.max = 0]

drainSub(s) ==
  /\ s <= sidCounter /\ ~closed
  /\ ~subs[s].done /\ subs[s].drain = "no"
  /\ subs' = [subs EXCEPT ![s] = startDrain(@)]
  /\ pushPong(<<DrainOf(s)>>)
  /\ SetIO(drainIO(IO, <<s>>))
  /\ UNCHANGED <<link, sidCounter, connDrain, drainSet, noMorePublishing, s2c,
                 srv, counters, recent, served, limit>>

(* drain() on the connection: drain every listed subscription. A listed    *)
(* subscription that is already done rejects, and with it Promise.all.     *)
ToDrain == {s \in Listed : ~subs[s].done /\ subs[s].drain = "no"}

drain ==
  /\ connectedOnce /\ ~closed /\ ~draining
  /\ connDrain' = IF \E s \in Listed : subs[s].done THEN "settled" ELSE "subs"
  /\ drainSet' = Listed
  /\ subs' = [s \in Sid |-> IF s \in ToDrain THEN startDrain(subs[s]) ELSE subs[s]]
  /\ \E q \in InOrder(ToDrain) :
       /\ pushPong([i \in 1..Len(q) |-> DrainOf(q[i])])
       /\ SetIO(drainIO(IO, q))
  /\ UNCHANGED <<link, sidCounter, noMorePublishing, s2c, srv, counters, recent,
                 served, limit>>

(* drain(), continued when the promise of every subscription has settled. *)
drainFlush ==
  /\ connDrain = "subs"
  /\ \A s \in drainSet : subs[s].drain = "settled"
  /\ connDrain' = "final"
  /\ noMorePublishing' = TRUE
  /\ pushPong(<<Final>>)
  /\ SetIO(flushPing(IO, Final))
  /\ UNCHANGED <<link, sidCounter, subs, drainSet, s2c, srv, counters, recent,
                 served, limit>>

(* _close(): subscriptions are closed but stay listed, the transport is    *)
(* closed without a notification, and the dial loop, if any, ends.         *)
doClose ==
  /\ closed' = TRUE
  /\ transport' = "gone"
  /\ dialing' = FALSE
  /\ subs' = [s \in Sid |-> IF subs[s].listed THEN closeSub(s, subs[s]) ELSE subs[s]]
  /\ c2s' = <<>> /\ s2c' = <<>> /\ srv' = NoInterest

close ==
  /\ connectedOnce /\ ~closed
  /\ doClose
  /\ UNCHANGED <<connected, connectedOnce, infoReceived, epoch, outbound,
                 flushQueued, pongs, sidCounter, connDrain, drainSet,
                 noMorePublishing, flushed, counters, history>>

(* reconnect() of the application, and disconnect() of the heartbeat: the  *)
(* transport stops sending and will notify once its writes are done.       *)
disconnect ==
  /\ connected /\ transport = "open" /\ ~closed
  /\ epoch < MaxEpochs
  /\ transport' = "leaving"
  /\ UNCHANGED <<closed, connected, connectedOnce, infoReceived, dialing, epoch,
                 outbound, flushQueued, pongs, sidCounter, subs, connDrain,
                 drainSet, noMorePublishing, c2s, s2c, srv, flushed, counters,
                 history>>

-----------------------------------------------------------------------------
(* Timers, iterators and microtasks.                                       *)
quiet == <<pongs, sidCounter, connDrain, drainSet, noMorePublishing, s2c, srv,
           flushed, counters, history>>

(* What iterClosed.then runs once an iterator has stopped. *)
stopIter(s, sub) ==
  unsubscribeSub(s, [sub EXCEPT !.done = TRUE, !.closing = FALSE], 0)

(* The timeout option fires: stop(err). An iterator then unsubscribes, a   *)
(* callback subscription only gets the error.                              *)
subTimeout(s) ==
  LET fired == [subs[s] EXCEPT !.timer = FALSE]
      stops == ~fired.done /\ s \in Iter
  IN
  /\ subs[s].timer
  /\ subs' = [subs EXCEPT ![s] = IF stops THEN stopIter(s, fired)
                                          ELSE [fired EXCEPT !.done = TRUE]]
  /\ SetIO(IF stops THEN unsubIO(IO, s, 0) ELSE IO)
  /\ UNCHANGED <<link, quiet>>

(* The iterator reaches the queued close function, or its reader breaks    *)
(* out of the loop: stop(), closed.resolve(), unsubscribe().               *)
iterDone(s) ==
  /\ s \in Iter /\ s <= sidCounter /\ ~subs[s].done
  /\ subs[s].closing \/ subs[s].listed
  /\ subs' = [subs EXCEPT ![s] = stopIter(s, @)]
  /\ SetIO(unsubIO(IO, s, 0))
  /\ UNCHANGED <<link, quiet>>

flushTask ==
  /\ flushQueued
  /\ SetIO([flushPending(IO) EXCEPT !.queued = FALSE])
  /\ UNCHANGED <<link, subs, quiet>>

-----------------------------------------------------------------------------
(* Frames from the server, as the parser hands them over.                  *)
Reading == transport \in {"open", "leaving"} /\ s2c # <<>>

(* processInfo(): the first INFO of a transport sends CONNECT and PING. *)
processInfo ==
  /\ Reading /\ Head(s2c).op = "INFO"
  /\ s2c' = Tail(s2c)
  /\ infoReceived' = TRUE
  /\ c2s' = IF infoReceived THEN c2s ELSE TransportSend(IO, <<PING(Connect)>>).wire
  /\ UNCHANGED <<closed, connected, connectedOnce, dialing, transport, epoch,
                 outbound, flushQueued, pongs, sidCounter, subs, connDrain,
                 drainSet, noMorePublishing, srv, flushed, counters, history>>

(* processMsg(): count, hand to the callback (an iterator's callback also  *)
(* cancels the timeout), unsubscribe at the limit.                         *)
receivedSub(s, sub) ==
  [sub EXCEPT !.received = @ + 1, !.timer = @ /\ s \notin Iter]

(* Faulty variant: one message past the limit. *)
atLimit_Past(sub) == sub.max # 0 /\ sub.received > sub.max
atLimit(sub) == sub.max # 0 /\ sub.received >= sub.max

processMsg ==
  LET s == Head(s2c).sid
      got == receivedSub(s, subs[s])
      full == atLimit(got)
  IN
  /\ Reading /\ Head(s2c).op = "MSG"
  /\ s2c' = Tail(s2c)
  /\ IF subs[s].listed
     THEN /\ subs' = [subs EXCEPT ![s] = IF full THEN unsubscribeSub(s, got, 0)
                                                 ELSE got]
          /\ SetIO(IF full THEN unsubIO(IO, s, 0) ELSE IO)
     ELSE UNCHANGED <<subs, outbound, c2s, flushQueued>>
  /\ UNCHANGED <<link, pongs, sidCounter, connDrain, drainSet, noMorePublishing,
                 srv, flushed, counters, history>>

(* What the continuation of a subscription's drain() does to the table. *)
(* Faulty variant: a subscription already unsubscribed is passed over. *)
settleDrains_Listed(tags) ==
  [s \in Sid |-> IF DrainOf(s) \in tags /\ subs[s].listed
                 THEN [cancelSub(s, subs[s]) EXCEPT !.drain = "settled"]
                 ELSE subs[s]]

settleDrains(tags) ==
  [s \in Sid |-> IF DrainOf(s) \in tags
                 THEN [cancelSub(s, subs[s]) EXCEPT !.drain = "settled"]
                 ELSE subs[s]]

(* processPong() for a flush() or the drain of a subscription. *)
processPong ==
  /\ Reading /\ Head(s2c).op = "PONG"
  /\ pongs # <<>> /\ Head(pongs) \notin {Connect, Final}
  /\ s2c' = Tail(s2c)
  /\ pongs' = Tail(pongs)
  /\ flushed' = [flushed EXCEPT ![Head(pongs)] = "resolved"]
  /\ subs' = settleDrains({Head(pongs)})
  /\ UNCHANGED <<link, outbound, c2s, flushQueued, sidCounter, connDrain,
                 drainSet, noMorePublishing, srv, counters, history>>

(* processPong() for the last flush of drain(), which then closes. *)
drainClose ==
  /\ Reading /\ Head(s2c).op = "PONG"
  /\ pongs # <<>> /\ Head(pongs) = Final
  /\ pongs' = Tail(pongs)
  /\ flushed' = [flushed EXCEPT ![Final] = "resolved"]
  /\ connDrain' = "settled"
  /\ doClose
  /\ UNCHANGED <<connected, connectedOnce, infoReceived, epoch, outbound,
                 flushQueued, sidCounter, drainSet, noMorePublishing, counters,
                 history>>

(* processPong() for the PING of CONNECT, and the rest of dial(). *)
dialDone ==
  /\ Reading /\ Head(s2c).op = "PONG"
  /\ pongs # <<>> /\ Head(pongs) = Connect
  /\ s2c' = Tail(s2c)
  /\ pongs' = Tail(pongs)
  /\ flushed' = [flushed EXCEPT ![Connect] = "resolved"]
  /\ connected' = TRUE /\ connectedOnce' = TRUE /\ dialing' = FALSE
  /\ \E q \in InOrder(Listed) :
       SetIO([TransportSend(sendSubscriptions(IO, q), outbound) EXCEPT !.out = <<>>])
  /\ UNCHANGED <<closed, infoReceived, transport, epoch, sidCounter, subs,
                 connDrain, drainSet, noMorePublishing, srv, counters, history>>

-----------------------------------------------------------------------------
(* Dialling. Which server is dialled, and when the loop gives up, is the   *)
(* subject of module Reconnect.                                            *)
WireDown == c2s' = <<>> /\ s2c' = <<>> /\ srv' = NoInterest
app == <<sidCounter, drainSet, noMorePublishing, counters, served, limit>>

(* prepare(): resetOutbound() drops what was buffered and rejects every    *)
(* pending PONG, whose callers run before the dial goes on; then a new     *)
(* transport starts to connect.                                            *)
prepare ==
  LET rejected == {pongs[i] : i \in 1..Len(pongs)} IN
  /\ dialing /\ ~closed
  /\ transport \in {"none", "gone"}
  /\ epoch < MaxEpochs /\ epoch' = epoch + 1
  /\ outbound' = <<>> /\ recent' = {}
  /\ flushed' = [t \in Tag |-> IF t = Connect THEN "pending"
                               ELSE IF t \in rejected THEN "rejected"
                               ELSE flushed[t]]
  /\ owed' = [owed EXCEPT ![Connect] = {}]
  /\ subs' = settleDrains(rejected)
  /\ connDrain' = IF Final \in rejected THEN "settled" ELSE connDrain
  /\ pongs' = <<Connect>>
  /\ infoReceived' = FALSE
  /\ transport' = "connecting"
  /\ UNCHANGED <<closed, connected, connectedOnce, dialing, flushQueued, c2s,
                 s2c, srv, app>>

connectOk ==
  /\ transport = "connecting"
  /\ transport' = "open"
  /\ c2s' = <<>> /\ s2c' = <<INFO>> /\ srv' = NoInterest
  /\ UNCHANGED <<closed, connected, connectedOnce, infoReceived, dialing, epoch,
                 outbound, flushQueued, pongs, subs, connDrain, flushed, recent,
                 owed, app>>

(* dial() fails: connection refused, the handshake is cut, or its timer    *)
(* fires. The transport is closed without a notification.                  *)
dialFail ==
  /\ dialing /\ transport \in {"connecting", "open"}
  /\ epoch < MaxEpochs
  /\ transport' = "gone"
  /\ WireDown
  /\ UNCHANGED <<closed, connected, connectedOnce, infoReceived, dialing, epoch,
                 outbound, flushQueued, pongs, subs, connDrain, flushed, recent,
                 owed, app>>

(* transport.closed() resolves: disconnected() starts the dial loop. *)
disconnected ==
  /\ connected' = FALSE
  /\ transport' = "gone"
  /\ dialing' = TRUE
  /\ WireDown
  /\ UNCHANGED <<closed, connectedOnce, infoReceived, epoch, outbound,
                 flushQueued, pongs, subs, connDrain, flushed, recent, owed, app>>

socketLost ==
  /\ connected /\ ~closed /\ transport = "open" /\ epoch < MaxEpochs
  /\ disconnected

transportLeft ==
  /\ ~closed /\ transport = "leaving"
  /\ disconnected

(* dialLoop() rejects, or options.reconnect is false: _close(err). *)
giveUp ==
  /\ dialing /\ connectedOnce /\ ~closed /\ transport = "gone"
  /\ doClose
  /\ UNCHANGED <<connected, connectedOnce, infoReceived, epoch, outbound,
                 flushQueued, pongs, connDrain, flushed, recent, owed, app>>

-----------------------------------------------------------------------------
(* The server.                                                             *)
Served == transport \in {"open", "leaving"}

serverSub(e, cmd) ==
  CASE cmd.op = "SUB" /\ ~e.on -> [on |-> TRUE, max |-> 0, sent |-> 0]
    [] cmd.op = "UNSUB" /\ e.on ->
         IF cmd.max = 0 \/ e.sent >= cmd.max
         THEN [on |-> FALSE, max |-> 0, sent |-> 0]
         ELSE [e EXCEPT !.max = cmd.max]
    [] OTHER -> e

serverRecv ==
  LET cmd == Head(c2s) IN
  /\ Served /\ c2s # <<>>
  /\ c2s' = Tail(c2s)
  /\ srv' = [s \in Sid |-> IF cmd.op \in {"SUB", "UNSUB"} /\ cmd.sid = s
                           THEN serverSub(srv[s], cmd) ELSE srv[s]]
  /\ s2c' = IF cmd.op = "PING" THEN Append(s2c, PONG(cmd.tag)) ELSE s2c
  /\ served' = IF cmd.op = "PUB" THEN served \cup {cmd.sid} ELSE served
  /\ UNCHANGED <<client, flushed, counters, recent, owed, limit>>

countMsg(e) ==
  IF e.max # 0 /\ e.sent + 1 >= e.max
  THEN [on |-> FALSE, max |-> 0, sent |-> 0]
  ELSE [e EXCEPT !.sent = @ + 1]

serverMsg(s) ==
  /\ Served /\ srv[s].on
  /\ msgs < MaxMsgs /\ msgs' = msgs + 1
  /\ s2c' = Append(s2c, MSG(s))
  /\ srv' = [srv EXCEPT ![s] = countMsg(@)]
  /\ UNCHANGED <<client, c2s, flushed, pubs, flushes, unsubs, history>>

-----------------------------------------------------------------------------
Next ==
  \/ \E m \in Maxes : subscribe(m)
  \/ \E s \in Sid, m \in Maxes : unsubscribe(s, m)
  \/ flush \/ publish \/ drain \/ drainFlush \/ close \/ disconnect
  \/ \E s \in Sid : drainSub(s) \/ subTimeout(s) \/ iterDone(s) \/ serverMsg(s)
  \/ flushTask \/ processInfo \/ processMsg \/ processPong \/ drainClose \/ dialDone
  \/ prepare \/ connectOk \/ dialFail \/ socketLost \/ transportLeft \/ giveUp
  \/ serverRecv

Spec == Init /\ [][Next]_vars

(* Microtasks run, frames that arrived are parsed, the server answers and  *)
(* a started transport or dial loop goes on. Nothing makes a connection    *)
(* fail or an application call.                                            *)
Fairness ==
  /\ WF_vars(flushTask) /\ WF_vars(drainFlush)
  /\ WF_vars(processInfo \/ processMsg \/ processPong \/ drainClose \/ dialDone)
  /\ WF_vars(serverRecv)
  /\ WF_vars(prepare) /\ WF_vars(connectOk) /\ WF_vars(transportLeft)

(* For compositions: a client that is closed before it has dialled. *)
Unused ==
  /\ closed = TRUE /\ connected = FALSE /\ connectedOnce = FALSE
  /\ infoReceived = FALSE /\ dialing = FALSE /\ transport = "none"
  /\ epoch = 0 /\ outbound = <<>> /\ flushQueued = FALSE /\ pongs = <<>>
  /\ sidCounter = 0 /\ subs = [s \in Sid |-> NoSub]
  /\ connDrain = "no" /\ drainSet = {} /\ noMorePublishing = FALSE
  /\ c2s = <<>> /\ s2c = <<>> /\ srv = NoInterest
  /\ flushed = [t \in Tag |-> "none"]
  /\ pubs = 0 /\ flushes = 0 /\ msgs = 0 /\ unsubs = 0
  /\ recent = {} /\ owed = [t \in Tag |-> {}] /\ served = {} /\ limit = [s \in Sid |-> 0]

-----------------------------------------------------------------------------
(* Safety.                                                                 *)
Marked(e) == e.op \in {"PING", "PONG"}

Tags(q) ==
  LET tags[n \in 0..Len(q)] ==
        IF n = 0 THEN <<>>
        ELSE IF Marked(q[n]) THEN Append(tags[n - 1], q[n].tag) ELSE tags[n - 1]
  IN tags[Len(q)]

(* A PONG settles the promise of the very flush() whose PING it answers:   *)
(* on a usable transport, the PONGs on their way, the PINGs on their way   *)
(* and the PINGs still in outbound are, in this order, the queue pongs.    *)
(* This is what pongs.shift() relies on, with the handshake's PING written *)
(* ahead of PINGs that wait in outbound during a dial.                     *)
PongPairing ==
  (transport = "open" /\ infoReceived)
    => Tags(s2c) \o Tags(c2s) \o Tags(outbound) = pongs

(* PONGs find their flush(), and a resolved flush() is a barrier: every    *)
(* publication made before it since the buffer was last reset has been     *)
(* processed by the server, also for the flush of a drain and for calls    *)
(* made while disconnected.                                                *)
FlushBarrier ==
  PongPairing /\ \A t \in Tag : flushed[t] = "resolved" => owed[t] \subseteq served

Carries(f, s) == f.op = "MSG" /\ f.sid = s
InFlight(s) == Cardinality({i \in 1..Len(s2c) : Carries(s2c[i], s)})
Synced == connected /\ transport = "open" /\ outbound = <<>> /\ c2s = <<>>

(* Once everything written has reached the server, the interest the server *)
(* holds is the client's table, whatever was subscribed, unsubscribed or   *)
(* drained before, during or after a reconnect: a listed subscription that *)
(* is not draining is served until its limit is on its way, and interest   *)
(* without a limit always has a subscription.                              *)
InterestInSync ==
  Synced =>
    \A s \in Sid :
      /\ subs[s].listed /\ subs[s].drain = "no"
           => srv[s].on \/ (limit[s] # 0 /\ subs[s].received + InFlight(s) >= limit[s])
      /\ srv[s].on /\ srv[s].max = 0 => subs[s].listed

(* Commands are never stranded in outbound on a usable connection: a       *)
(* flushPending microtask is queued for them. flush() fills the buffer     *)
(* without queueing one, also during a dial.                               *)
NothingStranded ==
  connected /\ outbound # <<>> => flushQueued

(* No step hands a subscription that is not draining more messages than    *)
(* the smallest limit asked for, though a reconnect does not renew the     *)
(* limit at the server and its count starts again.                         *)
LimitRespected ==
  [][\A s \in Sid :
       (subs'[s].received > subs[s].received /\ limit[s] # 0 /\ subs[s].drain = "no")
         => subs'[s].received <= limit[s]]_vars

(* Draining loses nothing. When the drain of a subscription has settled,   *)
(* the server has dropped its interest and no message for it is still on   *)
(* its way (README: "all pending messages for the subscription have been   *)
(* processed"). A publication the server has not seen when drain() of the  *)
(* connection stops publishing is still ahead of the final PONG: when it   *)
(* closes, all of them were processed unless a reconnect dropped them.     *)
DrainLosesNothing ==
  /\ [](\A s \in Sid : subs[s].drain = "settled" => ~srv[s].on /\ InFlight(s) = 0)
  /\ [][(closed' /\ ~closed /\ flushed'[Final] = "resolved")
          => recent \subseteq served]_vars

-----------------------------------------------------------------------------
(* Liveness, under Fairness and finitely many connection failures.         *)

(* Every flush() settles, unless the connection closes. *)
FlushSettles ==
  \A f \in 1..MaxFlushes :
    flushed[FlushCall(f)] = "pending" ~> (flushed[FlushCall(f)] # "pending" \/ closed)

(* Every drain() of a subscription settles, unless the connection closes:  *)
(* a disconnect counts as the end of the drain. So does a drain() of the   *)
(* connection, which waits for all of them and for a flush.                *)
DrainSettles ==
  /\ \A s \in Sid : subs[s].drain = "pending" ~> (subs[s].drain = "settled" \/ closed)
  /\ (connDrain = "subs") ~> (connDrain = "settled" \/ closed)

(* No caller is left waiting across a reconnect: every flush() and every   *)
(* drain() settles (protocol.ts flush(), drain(), prepare()).              *)
CallsSettle == FlushSettles /\ DrainSettles

-----------------------------------------------------------------------------
(* A statement of the documentation that the code does not keep.           *)

(* "returns a promise that resolves when the drain completes and the       *)
(* connection closes" (core.ts).                                           *)
DrainedMeansClosed == connDrain = "settled" => closed
=============================================================================
