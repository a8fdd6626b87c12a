---------------------------- MODULE ProtocolProofs ----------------------------
(***************************************************************************)
(* Proofs about module Protocol, for any number of subscriptions, flushes, *)
(* publications, messages and connections: its types, that commands are    *)
(* never stranded in the outbound buffer, that limits are respected, and   *)
(* that flush() is a barrier.                                              *)
(***************************************************************************)
EXTENDS Protocol, FiniteSetTheorems, WellFoundedInduction, TLAPS

(* The values the writing operators work on. *)
IOType == [out : Seq(Command), wire : Seq(Command), queued : BOOLEAN]

-----------------------------------------------------------------------------
(* Commands and frames.                                                    *)

(* The commands the handler writes are commands, whatever sid, limit or    *)
(* waiting caller they are written for.                                    *)
LEMMA CommandType ==
  ASSUME NEW s \in Nat, NEW m \in Nat
  PROVE  SUB(s) \in Command /\ UNSUB(s, m) \in Command
BY DEF Command, SUB, UNSUB, Tag, Connect

(* A PUB command is a command when its publication is one of PubId. *)
LEMMA PubType ==
  ASSUME NEW p \in PubId
  PROVE  PUB(p) \in Command
BY DEF Command, PUB, PubId, Tag, Connect

(* A PING is a command for every waiting caller. *)
LEMMA PingType ==
  ASSUME NEW t \in Tag
  PROVE  PING(t) \in Command
BY DEF Command, PING

(* The frames the server sends are frames. *)
LEMMA FrameType ==
  ASSUME NEW s \in Nat, NEW t \in Tag
  PROVE  PONG(t) \in Frame /\ MSG(s) \in Frame /\ INFO \in Frame
BY DEF Frame, PONG, MSG, INFO, Tag, Connect

(* Tags of the drains and of the flush() calls are tags. *)
LEMMA TagType ==
  /\ Connect \in Tag /\ Final \in Tag
  /\ \A s \in Sid : DrainOf(s) \in Tag
  /\ \A f \in 1..MaxFlushes : FlushCall(f) \in Tag
BY DEF Tag

-----------------------------------------------------------------------------
(* The writing operators keep their types.                                 *)

(* The fields of an io value have their types. *)
LEMMA IOParts ==
  ASSUME NEW io \in IOType
  PROVE  /\ io.out \in Seq(Command) /\ io.wire \in Seq(Command)
         /\ io.queued \in BOOLEAN
BY DEF IOType

(* Replacing one of them keeps the type. *)
LEMMA IOFields ==
  ASSUME NEW io \in IOType, NEW q \in Seq(Command)
  PROVE  [io EXCEPT !.out = q] \in IOType /\ [io EXCEPT !.wire = q] \in IOType
BY DEF IOType

(* Queueing a flush keeps a value of IOType in it. *)
LEMMA IOQueued ==
  ASSUME NEW io \in IOType, NEW b \in BOOLEAN
  PROVE  [io EXCEPT !.queued = b] \in IOType
BY DEF IOType

(* Transport.send() keeps the types. *)
LEMMA TransportSendType ==
  ASSUME NEW io \in IOType, NEW cmds \in Seq(Command)
  PROVE  TransportSend(io, cmds) \in IOType
<1> DEFINE w == IF transport = "open" THEN io.wire \o cmds ELSE io.wire
<1>1. io.wire \in Seq(Command)
  BY DEF IOType
<1>2. w \in Seq(Command)
  BY <1>1
<1>3. TransportSend(io, cmds) = [io EXCEPT !.wire = w]
  BY DEF TransportSend
<1> HIDE DEF w
<1> QED
  BY <1>2, <1>3, IOFields

(* flushPending() keeps the types. *)
LEMMA flushPendingType ==
  ASSUME NEW io \in IOType
  PROVE  flushPending(io) \in IOType
<1>1. io.out \in Seq(Command)
  BY DEF IOType
<1>2. TransportSend(io, io.out) \in IOType
  BY <1>1, TransportSendType
<1>3. <<>> \in Seq(Command)
  OBVIOUS
<1>4. [TransportSend(io, io.out) EXCEPT !.out = <<>>] \in IOType
  BY <1>2, <1>3, IOFields
<1> QED
  BY <1>4 DEF flushPending

(* sendCommand() keeps the types. *)
LEMMA sendCommandType ==
  ASSUME NEW io \in IOType, NEW cmd \in Command
  PROVE  sendCommand(io, cmd) \in IOType
<1> DEFINE filled == [io EXCEPT !.out = Append(@, cmd)]
<1>0. Append(io.out, cmd) \in Seq(Command)
  BY DEF IOType
<1>1. filled \in IOType
  BY <1>0, IOFields
<1>2. [filled EXCEPT !.queued = TRUE] \in IOType
  BY <1>1 DEF IOType
<1>3. flushPending(filled) \in IOType
  BY <1>1, flushPendingType
<1> HIDE DEF filled
<1>4. sendCommand(io, cmd) =
        CASE io.out = <<>> -> [filled EXCEPT !.queued = TRUE]
          [] io.out # <<>> /\ Len(filled.out) >= PendingLimit -> flushPending(filled)
          [] OTHER -> filled
  BY DEF sendCommand, filled
<1> QED
  BY <1>1, <1>2, <1>3, <1>4

(* The PING of flush() keeps the types. *)
LEMMA flushPingType ==
  ASSUME NEW io \in IOType, NEW t \in Tag
  PROVE  flushPing(io, t) \in IOType
<1>1. PING(t) \in Command
  BY PingType
<1>2. Append(io.out, PING(t)) \in Seq(Command)
  BY <1>1 DEF IOType
<1>3. [io EXCEPT !.out = Append(io.out, PING(t))] \in IOType
  BY <1>2, IOFields
<1> QED
  BY <1>3, flushPendingType DEF flushPing

(* unsub() keeps the types. *)
LEMMA unsubIOType ==
  ASSUME NEW io \in IOType, NEW s \in Nat, NEW m \in Nat
  PROVE  unsubIO(io, s, m) \in IOType
<1>1. UNSUB(s, m) \in Command
  BY CommandType
<1> QED
  BY <1>1, sendCommandType DEF unsubIO

(* A set of sids in the order of the table is a sequence of sids. *)
LEMMA InOrderType ==
  ASSUME NEW S \in SUBSET Sid, NEW q \in InOrder(S)
  PROVE  q \in Seq(Sid) /\ Len(q) \in Nat /\ \A i \in 1..Len(q) : q[i] \in S
<1>1. IsFiniteSet(Sid)
  BY FS_Interval, ProtocolAssumption DEF Sid
<1>2. Cardinality(S) \in Nat
  BY <1>1, FS_Subset, FS_CardinalityType
<1>3. q \in [1..Cardinality(S) -> S]
  BY DEF InOrder
<1> QED
  BY <1>2, <1>3

(* sendSubscriptions() keeps the types. *)
LEMMA sendSubscriptionsType ==
  ASSUME NEW io \in IOType, NEW q \in Seq(Sid)
  PROVE  sendSubscriptions(io, q) \in IOType
<1>1. ASSUME NEW i \in 1..Len(q)
      PROVE  SUB(q[i]) \in Command
  <2>1. q[i] \in Nat
    <3>1. q[i] \in Sid
      OBVIOUS
    <3> QED
      BY <3>1 DEF Sid
  <2>2. 0 \in Nat
    OBVIOUS
  <2> QED
    BY <2>1, <2>2, CommandType
<1>2. [i \in 1..Len(q) |-> SUB(q[i])] \in Seq(Command)
  BY <1>1
<1> QED
  BY <1>2, TransportSendType DEF sendSubscriptions

(* The UNSUBs and PINGs of drains are a sequence of commands. *)
LEMMA drainCmdsType ==
  ASSUME NEW q \in Seq(Sid)
  PROVE  drainCmds(q) \in Seq(Command)
<1>1. ASSUME NEW i \in 1..(2 * Len(q))
      PROVE  drainCmds(q)[i] \in Command
  <2>1. Len(q) \in Nat
    OBVIOUS
  <2>2. CASE i % 2 = 1
    <3>1. (i + 1) \div 2 \in 1..Len(q)
      BY <2>1, <2>2
    <3>2. q[(i + 1) \div 2] \in Sid
      BY <3>1
    <3>3. UNSUB(q[(i + 1) \div 2], 0) \in Command
      BY <3>2, CommandType DEF Sid
    <3> QED
      BY <2>2, <3>3 DEF drainCmds
  <2>3. CASE i % 2 # 1
    <3>1. i \div 2 \in 1..Len(q)
      BY <2>1, <2>3
    <3>2. q[i \div 2] \in Sid
      BY <3>1
    <3>3. PING(DrainOf(q[i \div 2])) \in Command
      BY <3>2, PingType, TagType
    <3> QED
      BY <2>3, <3>3 DEF drainCmds
  <2> QED
    BY <2>2, <2>3
<1> QED
  BY <1>1 DEF drainCmds

(* The buffer as drainIO() leaves it before the flush. *)
LEMMA drainFilled ==
  ASSUME NEW io \in IOType, NEW q \in Seq(Sid), NEW b \in BOOLEAN
  PROVE  LET filled == [io EXCEPT !.out = @ \o drainCmds(q), !.queued = b]
         IN  filled \in IOType /\ filled.wire = io.wire
<1>1. io.out \o drainCmds(q) \in Seq(Command)
  BY drainCmdsType, IOParts
<1>2. \A o \in Seq(Command) :
         /\ [io EXCEPT !.out = o, !.queued = b] \in IOType
         /\ [io EXCEPT !.out = o, !.queued = b].wire = io.wire
  BY DEF IOType
<1> QED
  BY <1>1, <1>2

(* Draining subscriptions keeps the types. *)
LEMMA drainIOType ==
  ASSUME NEW io \in IOType, NEW q \in Seq(Sid)
  PROVE  drainIO(io, q) \in IOType
<1> DEFINE b == io.queued \/ io.out = <<>> \/ (infoReceived /\ connected /\ Len(q) > 1)
           filled == [io EXCEPT !.out = @ \o drainCmds(q), !.queued = b]
<1>1. b \in BOOLEAN
  OBVIOUS
<1>2. drainIO(io, q) = IF q = <<>> THEN io ELSE flushPending(filled)
  BY DEF drainIO
<1> HIDE DEF b
<1>3. filled \in IOType
  BY <1>1, drainFilled
<1> HIDE DEF filled
<1> QED
  BY <1>2, <1>3, flushPendingType

-----------------------------------------------------------------------------
(* The operators on a subscription keep its type.                          *)

(* What is done to a subscription leaves a subscription. *)
LEMMA SubscriptionOps ==
  ASSUME NEW s \in Sid, NEW sub \in Subscription, NEW m \in Nat
  PROVE  /\ NewSub(s, m) \in Subscription /\ NoSub \in Subscription
         /\ unsubSub(sub, m) \in Subscription
         /\ closeSub(s, sub) \in Subscription
         /\ cancelSub(s, sub) \in Subscription
         /\ startDrain(sub) \in Subscription
         /\ receivedSub(s, sub) \in Subscription
<1>1. NewSub(s, m) \in Subscription /\ NoSub \in Subscription
  BY DEF NewSub, NoSub, Subscription
<1>2. unsubSub(sub, m) \in Subscription
  BY DEF unsubSub, Subscription
<1>3. closeSub(s, sub) \in Subscription
  BY DEF closeSub, Subscription
<1>4. cancelSub(s, sub) \in Subscription
  BY <1>3 DEF cancelSub, Subscription
<1>5. startDrain(sub) \in Subscription
  BY DEF startDrain, Subscription
<1>6. receivedSub(s, sub) \in Subscription
  <2>1. (sub.timer /\ s \notin Iter) \in BOOLEAN /\ sub.received + 1 \in Nat
    BY DEF Subscription
  <2>2. \A t \in BOOLEAN, n \in Nat :
           [sub EXCEPT !.received = n, !.timer = t] \in Subscription
    BY DEF Subscription
  <2> QED
    BY <2>1, <2>2 DEF receivedSub
<1> QED
  BY <1>1, <1>2, <1>3, <1>4, <1>5, <1>6

(* unsubscribe() leaves a subscription. *)
LEMMA unsubscribeSubType ==
  ASSUME NEW s \in Sid, NEW sub \in Subscription, NEW m \in Nat
  PROVE  unsubscribeSub(s, sub, m) \in Subscription
BY SubscriptionOps DEF unsubscribeSub

(* Stopping an iterator leaves a subscription. *)
LEMMA stopIterType ==
  ASSUME NEW s \in Sid, NEW sub \in Subscription
  PROVE  stopIter(s, sub) \in Subscription
<1>1. [sub EXCEPT !.done = TRUE, !.closing = FALSE] \in Subscription
  BY DEF Subscription
<1> QED
  BY <1>1, unsubscribeSubType DEF stopIter

(* The end of drains leaves a table of subscriptions. *)
LEMMA settleDrainsType ==
  ASSUME TypeOK, NEW tags
  PROVE  settleDrains(tags) \in [Sid -> Subscription]
<1>1. ASSUME NEW s \in Sid
      PROVE  [cancelSub(s, subs[s]) EXCEPT !.drain = "settled"] \in Subscription
  <2>1. cancelSub(s, subs[s]) \in Subscription
    BY SubscriptionOps DEF TypeOK
  <2> QED
    BY <2>1 DEF Subscription
<1> QED
  BY <1>1 DEF settleDrains, TypeOK

-----------------------------------------------------------------------------
(* Type correctness.                                                       *)

(* What the handlers start from is typed. *)
LEMMA IOTyped == TypeOK => IO \in IOType
BY DEF TypeOK, IO, IOType

(* Storing a typed value keeps the types of the variables it sets. *)
LEMMA SetIOType ==
  ASSUME NEW io \in IOType, SetIO(io)
  PROVE  /\ outbound' \in Seq(Command) /\ c2s' \in Seq(Command)
         /\ flushQueued' \in BOOLEAN
BY IOParts DEF SetIO

(* The bookkeeping of a flush() keeps the types. *)
LEMMA pushPongType ==
  ASSUME TypeOK, NEW ts \in Seq(Tag), pushPong(ts)
  PROVE  /\ pongs' \in Seq(Tag)
         /\ flushed' \in [Tag -> {"none", "pending", "resolved", "rejected"}]
         /\ owed' \in [Tag -> SUBSET PubId]
<1>1. pongs' \in Seq(Tag)
  BY DEF pushPong, TypeOK
<1>2. flushed' \in [Tag -> {"none", "pending", "resolved", "rejected"}]
  BY DEF pushPong, TypeOK
<1>3. owed' \in [Tag -> SUBSET PubId]
  BY DEF pushPong, TypeOK
<1> QED
  BY <1>1, <1>2, <1>3

(* An empty table of the server is a table of the server. *)
LEMMA NoInterestType == NoInterest \in [Sid -> ServerSub]
BY DEF NoInterest, ServerSub

(* A loop over the subscriptions closes each of them. *)
LEMMA doCloseType ==
  ASSUME TypeOK, doClose
  PROVE  /\ closed' \in BOOLEAN /\ transport' \in TransportState
         /\ dialing' \in BOOLEAN /\ subs' \in [Sid -> Subscription]
         /\ c2s' \in Seq(Command) /\ s2c' \in Seq(Frame)
         /\ srv' \in [Sid -> ServerSub]
<1>1. ASSUME NEW s \in Sid
      PROVE  (IF subs[s].listed THEN closeSub(s, subs[s]) ELSE subs[s]) \in Subscription
  BY SubscriptionOps DEF TypeOK
<1>2. subs' \in [Sid -> Subscription]
  BY <1>1 DEF doClose
<1>3. closed' \in BOOLEAN /\ dialing' \in BOOLEAN
  BY DEF doClose
<1>4. transport' \in TransportState /\ c2s' \in Seq(Command) /\ s2c' \in Seq(Frame)
  BY DEF doClose, TransportState
<1>5. srv' \in [Sid -> ServerSub]
  BY NoInterestType DEF doClose
<1> QED
  BY <1>2, <1>3, <1>4, <1>5

(* The initial state is typed. *)
LEMMA TypeInit == Init => TypeOK
<1> SUFFICES ASSUME Init PROVE TypeOK
  OBVIOUS
<1>1. NoSub \in Subscription
  BY DEF NoSub, Subscription
<1>2. subs \in [Sid -> Subscription] /\ srv \in [Sid -> ServerSub]
  BY <1>1, NoInterestType DEF Init
<1>3. /\ flushed \in [Tag -> {"none", "pending", "resolved", "rejected"}]
      /\ owed \in [Tag -> SUBSET PubId] /\ limit \in [Sid -> Nat]
  BY DEF Init
<1>4. /\ outbound \in Seq(Command) /\ c2s \in Seq(Command)
      /\ pongs \in Seq(Tag) /\ s2c \in Seq(Frame)
  BY DEF Init
<1>5. /\ sidCounter \in 0..MaxSubs /\ pubs \in 0..MaxPubs /\ flushes \in 0..MaxFlushes
      /\ epoch \in Nat /\ msgs \in Nat /\ unsubs \in Nat
  BY ProtocolAssumption DEF Init
<1>6. /\ transport \in TransportState /\ connDrain \in {"no", "subs", "final", "settled"}
      /\ drainSet \subseteq Sid /\ recent \subseteq PubId /\ served \subseteq PubId
  BY DEF Init, TransportState
<1>7. /\ closed \in BOOLEAN /\ connected \in BOOLEAN /\ connectedOnce \in BOOLEAN
      /\ infoReceived \in BOOLEAN /\ dialing \in BOOLEAN /\ flushQueued \in BOOLEAN
      /\ noMorePublishing \in BOOLEAN
  BY DEF Init
<1> QED
  BY <1>2, <1>3, <1>4, <1>5, <1>6, <1>7 DEF TypeOK

(* Calls of the application. *)
LEMMA TypeCalls ==
  ASSUME TypeOK,
         \/ \E m \in Maxes : subscribe(m)
         \/ \E s \in Sid, m \in Maxes : unsubscribe(s, m)
         \/ flush \/ publish \/ close \/ disconnect
  PROVE  TypeOK'
<1>0. IO \in IOType /\ Maxes \subseteq Nat /\ Sid \subseteq Nat
  BY IOTyped, ProtocolAssumption DEF Sid
<1>1. ASSUME NEW m \in Maxes, subscribe(m) PROVE TypeOK'
  <2> DEFINE s == sidCounter + 1
             io == sendCommand(IO, SUB(s))
  <2>1. s \in Sid /\ s \in Nat /\ m \in Nat
    BY <1>0, <1>1, ProtocolAssumption DEF subscribe, TypeOK, Sid
  <2>2. SUB(s) \in Command /\ UNSUB(s, m) \in Command
    BY <2>1, CommandType
  <2>3. io \in IOType
    BY <1>0, <2>2, sendCommandType
  <2>4. sendCommand(io, UNSUB(s, m)) \in IOType
    BY <2>2, <2>3, sendCommandType
  <2>5. outbound' \in Seq(Command) /\ c2s' \in Seq(Command) /\ flushQueued' \in BOOLEAN
    BY <1>1, <2>3, <2>4, SetIOType DEF subscribe
  <2>6. NewSub(s, m) \in Subscription
    BY <2>1 DEF NewSub, Subscription
  <2>7. subs' \in [Sid -> Subscription] /\ limit' \in [Sid -> Nat]
    BY <1>1, <2>1, <2>6 DEF subscribe, TypeOK
  <2>8. sidCounter' \in 0..MaxSubs
    BY <1>1, <2>1 DEF subscribe, Sid
  <2> QED
    BY <1>1, <2>5, <2>7, <2>8 DEF subscribe, TypeOK, link, counters
<1>2. ASSUME NEW s \in Sid, NEW m \in Maxes, unsubscribe(s, m) PROVE TypeOK'
  <2>1. unsubIO(IO, s, m) \in IOType
    BY <1>0, unsubIOType
  <2>2. outbound' \in Seq(Command) /\ c2s' \in Seq(Command) /\ flushQueued' \in BOOLEAN
    BY <1>2, <2>1, SetIOType DEF unsubscribe
  <2>3. unsubscribeSub(s, subs[s], m) \in Subscription
    BY <1>0, unsubscribeSubType DEF TypeOK
  <2>4. Smaller(limit[s], m) \in Nat
    BY <1>0 DEF Smaller, TypeOK
  <2>5. subs' \in [Sid -> Subscription] /\ limit' \in [Sid -> Nat]
    BY <1>2, <2>3, <2>4 DEF unsubscribe, TypeOK
  <2>6. unsubs' \in Nat
    BY <1>2 DEF unsubscribe, TypeOK
  <2> QED
    BY <1>2, <2>2, <2>5, <2>6 DEF unsubscribe, TypeOK, link
<1>3. CASE flush
  <2>1. flushes' \in 0..MaxFlushes /\ flushes + 1 \in 1..MaxFlushes
    BY <1>3, ProtocolAssumption DEF flush, TypeOK
  <2>2. FlushCall(flushes + 1) \in Tag
    BY <2>1, TagType
  <2>3. flushPing(IO, FlushCall(flushes + 1)) \in IOType
    BY <1>0, <2>2, flushPingType
  <2>4. outbound' \in Seq(Command) /\ c2s' \in Seq(Command) /\ flushQueued' \in BOOLEAN
    BY <1>3, <2>3, SetIOType DEF flush
  <2>5. <<FlushCall(flushes + 1)>> \in Seq(Tag)
    BY <2>2
  <2>6. /\ pongs' \in Seq(Tag)
        /\ flushed' \in [Tag -> {"none", "pending", "resolved", "rejected"}]
        /\ owed' \in [Tag -> SUBSET PubId]
    BY <1>3, <2>5, pushPongType DEF flush
  <2> QED
    BY <1>3, <2>1, <2>4, <2>6 DEF flush, TypeOK, link
<1>4. CASE publish
  <2>1. pubs' \in 0..MaxPubs /\ pubs + 1 \in PubId /\ pubs + 1 \in Nat
    BY <1>4, ProtocolAssumption DEF publish, TypeOK, PubId
  <2>2. PUB(pubs + 1) \in Command
    BY <2>1, PubType
  <2>3. sendCommand(IO, PUB(pubs + 1)) \in IOType
    BY <1>0, <2>2, sendCommandType
  <2>4. outbound' \in Seq(Command) /\ c2s' \in Seq(Command) /\ flushQueued' \in BOOLEAN
    BY <1>4, <2>3, SetIOType DEF publish
  <2>5. recent' \subseteq PubId
    BY <1>4, <2>1 DEF publish, TypeOK
  <2> QED
    BY <1>4, <2>1, <2>4, <2>5 DEF publish, TypeOK, link
<1>5. CASE close
  BY <1>5, doCloseType DEF close, TypeOK, counters, history
<1>6. CASE disconnect
  BY <1>6 DEF disconnect, TypeOK, TransportState, counters, history
<1> QED
  BY <1>1, <1>2, <1>3, <1>4, <1>5, <1>6

(* The steps of a drain. *)
LEMMA TypeDrains ==
  ASSUME TypeOK, (\E s \in Sid : drainSub(s)) \/ drain \/ drainFlush
  PROVE  TypeOK'
<1>0. IO \in IOType /\ Listed \subseteq Sid /\ ToDrain \subseteq Sid
  BY IOTyped DEF Listed, ToDrain
<1>1. ASSUME NEW s \in Sid, drainSub(s) PROVE TypeOK'
  <2>1. startDrain(subs[s]) \in Subscription
    BY SubscriptionOps DEF TypeOK
  <2>2. subs' \in [Sid -> Subscription]
    BY <1>1, <2>1 DEF drainSub, TypeOK
  <2>3. <<s>> \in Seq(Sid)
    OBVIOUS
  <2>4. drainIO(IO, <<s>>) \in IOType
    BY <1>0, <2>3, drainIOType
  <2>5. outbound' \in Seq(Command) /\ c2s' \in Seq(Command) /\ flushQueued' \in BOOLEAN
    BY <1>1, <2>4, SetIOType DEF drainSub
  <2>6. <<DrainOf(s)>> \in Seq(Tag)
    BY TagType
  <2>7. /\ pongs' \in Seq(Tag)
        /\ flushed' \in [Tag -> {"none", "pending", "resolved", "rejected"}]
        /\ owed' \in [Tag -> SUBSET PubId]
    BY <1>1, <2>6, pushPongType DEF drainSub
  <2> QED
    BY <1>1, <2>2, <2>5, <2>7 DEF drainSub, TypeOK, link, counters
<1>2. CASE drain
  <2>1. \A s \in Sid : startDrain(subs[s]) \in Subscription
    BY SubscriptionOps DEF TypeOK
  <2>2. subs' \in [Sid -> Subscription]
    BY <1>2, <2>1 DEF drain, TypeOK
  <2>3. PICK q \in InOrder(ToDrain) :
          /\ pushPong([i \in 1..Len(q) |-> DrainOf(q[i])])
          /\ SetIO(drainIO(IO, q))
    BY <1>2 DEF drain
  <2>4. q \in Seq(Sid) /\ Len(q) \in Nat /\ \A i \in 1..Len(q) : q[i] \in Sid
    BY <1>0, InOrderType
  <2>5. drainIO(IO, q) \in IOType
    BY <1>0, <2>4, drainIOType
  <2>6. outbound' \in Seq(Command) /\ c2s' \in Seq(Command) /\ flushQueued' \in BOOLEAN
    BY <2>3, <2>5, SetIOType
  <2>7. \A i \in 1..Len(q) : DrainOf(q[i]) \in Tag
    BY <2>4, TagType
  <2>8. [i \in 1..Len(q) |-> DrainOf(q[i])] \in Seq(Tag)
    BY <2>4, <2>7
  <2>9. /\ pongs' \in Seq(Tag)
        /\ flushed' \in [Tag -> {"none", "pending", "resolved", "rejected"}]
        /\ owed' \in [Tag -> SUBSET PubId]
    BY <2>3, <2>8, pushPongType
  <2>10. connDrain' \in {"no", "subs", "final", "settled"} /\ drainSet' \subseteq Sid
    BY <1>0, <1>2 DEF drain
  <2>11. UNCHANGED <<link, sidCounter, noMorePublishing, s2c, srv, counters, recent,
                     served, limit>>
    BY <1>2 DEF drain
  <2> QED
    BY <2>2, <2>6, <2>9, <2>10, <2>11 DEF TypeOK, link, counters
<1>3. CASE drainFlush
  <2>1. flushPing(IO, Final) \in IOType
    BY <1>0, TagType, flushPingType
  <2>2. outbound' \in Seq(Command) /\ c2s' \in Seq(Command) /\ flushQueued' \in BOOLEAN
    BY <1>3, <2>1, SetIOType DEF drainFlush
  <2>3. <<Final>> \in Seq(Tag)
    BY TagType
  <2>4. /\ pongs' \in Seq(Tag)
        /\ flushed' \in [Tag -> {"none", "pending", "resolved", "rejected"}]
        /\ owed' \in [Tag -> SUBSET PubId]
    BY <1>3, <2>3, pushPongType DEF drainFlush
  <2> QED
    BY <1>3, <2>2, <2>4 DEF drainFlush, TypeOK, link, counters
<1> QED
  BY <1>1, <1>2, <1>3

(* Timers, iterators and the flushPending microtask. *)
LEMMA TypeTasks ==
  ASSUME TypeOK, (\E s \in Sid : subTimeout(s) \/ iterDone(s)) \/ flushTask
  PROVE  TypeOK'
<1>0. IO \in IOType /\ Sid \subseteq Nat
  BY IOTyped DEF Sid
<1>1. ASSUME NEW s \in Sid, subTimeout(s) PROVE TypeOK'
  <2> DEFINE fired == [subs[s] EXCEPT !.timer = FALSE]
  <2>1. fired \in Subscription /\ [fired EXCEPT !.done = TRUE] \in Subscription
    BY DEF TypeOK, Subscription
  <2> HIDE DEF fired
  <2>2. stopIter(s, fired) \in Subscription
    BY <2>1, stopIterType
  <2>3. subs' \in [Sid -> Subscription]
    BY <1>1, <2>1, <2>2 DEF subTimeout, TypeOK, fired
  <2>4. unsubIO(IO, s, 0) \in IOType
    BY <1>0, unsubIOType
  <2>5. outbound' \in Seq(Command) /\ c2s' \in Seq(Command) /\ flushQueued' \in BOOLEAN
    BY <1>0, <1>1, <2>4, SetIOType DEF subTimeout
  <2> QED
    BY <1>1, <2>3, <2>5 DEF subTimeout, TypeOK, link, quiet, counters, history
<1>2. ASSUME NEW s \in Sid, iterDone(s) PROVE TypeOK'
  <2>1. stopIter(s, subs[s]) \in Subscription
    BY stopIterType DEF TypeOK
  <2>2. subs' \in [Sid -> Subscription]
    BY <1>2, <2>1 DEF iterDone, TypeOK
  <2>3. unsubIO(IO, s, 0) \in IOType
    BY <1>0, unsubIOType
  <2>4. outbound' \in Seq(Command) /\ c2s' \in Seq(Command) /\ flushQueued' \in BOOLEAN
    BY <1>2, <2>3, SetIOType DEF iterDone
  <2> QED
    BY <1>2, <2>2, <2>4 DEF iterDone, TypeOK, link, quiet, counters, history
<1>3. CASE flushTask
  <2>1. [flushPending(IO) EXCEPT !.queued = FALSE] \in IOType
    BY <1>0, flushPendingType, IOQueued
  <2>2. outbound' \in Seq(Command) /\ c2s' \in Seq(Command) /\ flushQueued' \in BOOLEAN
    BY <1>3, <2>1, SetIOType DEF flushTask
  <2> QED
    BY <1>3, <2>2 DEF flushTask, TypeOK, link, quiet, counters, history
<1> QED
  BY <1>1, <1>2, <1>3

(* Frames from the server. *)
LEMMA TypeFrames ==
  ASSUME TypeOK, processInfo \/ processMsg \/ processPong \/ drainClose \/ dialDone
  PROVE  TypeOK'
<1>0. IO \in IOType /\ Sid \subseteq Nat
  BY IOTyped DEF Sid
<1>1. CASE processInfo
  <2>1. <<PING(Connect)>> \in Seq(Command)
    BY PingType, TagType
  <2>2. TransportSend(IO, <<PING(Connect)>>).wire \in Seq(Command)
    BY <1>0, <2>1, TransportSendType, IOParts
  <2>3. c2s' \in Seq(Command)
    BY <1>1, <2>2 DEF processInfo, TypeOK
  <2>4. s2c' \in Seq(Frame)
    BY <1>1 DEF processInfo, Reading, TypeOK
  <2> QED
    BY <1>1, <2>3, <2>4 DEF processInfo, TypeOK, counters, history
<1>2. CASE processMsg
  <2> DEFINE s == Head(s2c).sid
             got == receivedSub(s, subs[s])
             full == atLimit(got)
  <2>1. s2c' \in Seq(Frame) /\ s \in Nat
    <3>1. s2c \in Seq(Frame) /\ s2c # <<>> /\ s2c' = Tail(s2c)
      BY <1>2 DEF processMsg, Reading, TypeOK
    <3>2. Head(s2c) \in Frame
      BY <3>1
    <3> QED
      BY <3>1, <3>2 DEF Frame
  <2>2. unsubIO(IO, s, 0) \in IOType
    BY <1>0, <2>1, unsubIOType
  <2>3. outbound' \in Seq(Command) /\ c2s' \in Seq(Command) /\ flushQueued' \in BOOLEAN
    <3>1. CASE subs[s].listed
      <4>1. SetIO(IF full THEN unsubIO(IO, s, 0) ELSE IO)
        BY <1>2, <3>1 DEF processMsg
      <4>2. (IF full THEN unsubIO(IO, s, 0) ELSE IO) \in IOType
        BY <1>0, <2>2
      <4> QED
        BY <4>1, <4>2, SetIOType
    <3>2. CASE ~subs[s].listed
      BY <1>2, <3>2 DEF processMsg, TypeOK
    <3> QED
      BY <3>1, <3>2
  <2>4. subs' \in [Sid -> Subscription]
    <3>1. CASE s \in Sid
      <4>1. got \in Subscription
        BY <3>1, SubscriptionOps DEF TypeOK
      <4>2. unsubscribeSub(s, got, 0) \in Subscription
        BY <3>1, <4>1, unsubscribeSubType
      <4>3. \/ subs' = [subs EXCEPT ![s] = IF full THEN unsubscribeSub(s, got, 0) ELSE got]
            \/ subs' = subs
        BY <1>2 DEF processMsg
      <4> HIDE DEF got, full
      <4> QED
        BY <4>1, <4>2, <4>3 DEF TypeOK
    <3>2. CASE s \notin Sid
      <4>1. subs' = subs
        BY <1>2, <3>2 DEF processMsg, TypeOK
      <4> QED
        BY <4>1 DEF TypeOK
    <3> QED
      BY <3>1, <3>2
  <2>5. UNCHANGED <<link, pongs, sidCounter, connDrain, drainSet, noMorePublishing,
                    srv, flushed, counters, history>>
    BY <1>2 DEF processMsg
  <2> QED
    BY <2>1, <2>3, <2>4, <2>5 DEF TypeOK, link, counters, history
<1>3. CASE processPong
  <2>1. subs' \in [Sid -> Subscription]
    BY <1>3, settleDrainsType DEF processPong
  <2>2. s2c' \in Seq(Frame) /\ pongs' \in Seq(Tag)
    BY <1>3 DEF processPong, Reading, TypeOK
  <2>3. flushed' \in [Tag -> {"none", "pending", "resolved", "rejected"}]
    BY <1>3 DEF processPong, TypeOK
  <2> QED
    BY <1>3, <2>1, <2>2, <2>3 DEF processPong, TypeOK, link, counters, history
<1>4. CASE drainClose
  <2>1. doClose
    BY <1>4 DEF drainClose
  <2>2. /\ closed' \in BOOLEAN /\ transport' \in TransportState
        /\ dialing' \in BOOLEAN /\ subs' \in [Sid -> Subscription]
        /\ c2s' \in Seq(Command) /\ s2c' \in Seq(Frame)
        /\ srv' \in [Sid -> ServerSub]
    BY <2>1, doCloseType
  <2>3. pongs' \in Seq(Tag) /\ connDrain' \in {"no", "subs", "final", "settled"}
    BY <1>4 DEF drainClose, TypeOK
  <2>4. flushed' \in [Tag -> {"none", "pending", "resolved", "rejected"}]
    BY <1>4 DEF drainClose, TypeOK
  <2>5. UNCHANGED <<connected, connectedOnce, infoReceived, epoch, outbound,
                    flushQueued, sidCounter, drainSet, noMorePublishing, counters,
                    history>>
    BY <1>4 DEF drainClose
  <2> QED
    BY <2>2, <2>3, <2>4, <2>5 DEF TypeOK, counters, history
<1>5. CASE dialDone
  <2>1. PICK q \in InOrder(Listed) :
          SetIO([TransportSend(sendSubscriptions(IO, q), outbound) EXCEPT !.out = <<>>])
    BY <1>5 DEF dialDone
  <2>2. q \in Seq(Sid)
    BY InOrderType DEF Listed
  <2>3. TransportSend(sendSubscriptions(IO, q), outbound) \in IOType
    BY <1>0, <2>2, sendSubscriptionsType, TransportSendType DEF TypeOK
  <2>4. <<>> \in Seq(Command)
    OBVIOUS
  <2>5. [TransportSend(sendSubscriptions(IO, q), outbound) EXCEPT !.out = <<>>] \in IOType
    BY <2>3, <2>4, IOFields
  <2>6. outbound' \in Seq(Command) /\ c2s' \in Seq(Command) /\ flushQueued' \in BOOLEAN
    BY <2>1, <2>5, SetIOType
  <2>7. s2c' \in Seq(Frame) /\ pongs' \in Seq(Tag)
    BY <1>5 DEF dialDone, Reading, TypeOK
  <2>8. flushed' \in [Tag -> {"none", "pending", "resolved", "rejected"}]
    BY <1>5 DEF dialDone, TypeOK
  <2>9. connected' \in BOOLEAN /\ connectedOnce' \in BOOLEAN /\ dialing' \in BOOLEAN
    BY <1>5 DEF dialDone
  <2>10. UNCHANGED <<closed, infoReceived, transport, epoch, sidCounter, subs,
                     connDrain, drainSet, noMorePublishing, srv, counters, history>>
    BY <1>5 DEF dialDone
  <2> QED
    BY <2>6, <2>7, <2>8, <2>9, <2>10 DEF TypeOK, counters, history
<1> QED
  BY <1>1, <1>2, <1>3, <1>4, <1>5

(* Dialling and losing connections. *)
LEMMA TypeDials ==
  ASSUME TypeOK,
         prepare \/ connectOk \/ dialFail \/ socketLost \/ transportLeft \/ giveUp
  PROVE  TypeOK'
<1>1. CASE prepare
  <2>1. subs' \in [Sid -> Subscription]
    BY <1>1, settleDrainsType DEF prepare
  <2>2. flushed' \in [Tag -> {"none", "pending", "resolved", "rejected"}]
    BY <1>1 DEF prepare, TypeOK
  <2>3. owed' \in [Tag -> SUBSET PubId]
    BY <1>1 DEF prepare, TypeOK
  <2>4. outbound' \in Seq(Command) /\ pongs' \in Seq(Tag)
    BY <1>1, TagType DEF prepare
  <2>5. /\ epoch' \in Nat /\ transport' \in TransportState
        /\ recent' \subseteq PubId
    BY <1>1 DEF prepare, TypeOK, TransportState
  <2>7. connDrain' \in {"no", "subs", "final", "settled"}
    BY <1>1 DEF prepare, TypeOK
  <2>8. infoReceived' \in BOOLEAN
    BY <1>1 DEF prepare
  <2>6. UNCHANGED <<closed, connected, connectedOnce, dialing, flushQueued, c2s,
                    s2c, srv, app>>
    BY <1>1 DEF prepare
  <2> QED
    BY <2>1, <2>2, <2>3, <2>4, <2>5, <2>6, <2>7, <2>8 DEF TypeOK, app, counters
<1>2. CASE connectOk
  <2>1. s2c' \in Seq(Frame)
    <3>1. INFO \in Frame
      BY FrameType, TagType
    <3> QED
      BY <1>2, <3>1 DEF connectOk
  <2>2. c2s' \in Seq(Command) /\ srv' \in [Sid -> ServerSub] /\ transport' \in TransportState
    BY <1>2, NoInterestType DEF connectOk, TransportState
  <2> QED
    BY <1>2, <2>1, <2>2 DEF connectOk, TypeOK, app, counters
<1>3. CASE dialFail
  <2>1. /\ c2s' \in Seq(Command) /\ s2c' \in Seq(Frame)
        /\ srv' \in [Sid -> ServerSub] /\ transport' \in TransportState
    BY <1>3, NoInterestType DEF dialFail, WireDown, TransportState
  <2> QED
    BY <1>3, <2>1 DEF dialFail, TypeOK, app, counters
<1>4. CASE disconnected
  <2>1. /\ c2s' \in Seq(Command) /\ s2c' \in Seq(Frame)
        /\ srv' \in [Sid -> ServerSub] /\ transport' \in TransportState
    BY <1>4, NoInterestType DEF disconnected, WireDown, TransportState
  <2> QED
    BY <1>4, <2>1 DEF disconnected, TypeOK, app, counters
<1>5. CASE giveUp
  <2>1. doClose
    BY <1>5 DEF giveUp
  <2>2. UNCHANGED <<connected, connectedOnce, infoReceived, epoch, outbound,
                    flushQueued, pongs, connDrain, flushed, recent, owed, app>>
    BY <1>5 DEF giveUp
  <2> QED
    BY <2>1, <2>2, doCloseType DEF TypeOK, app, counters
<1> QED
  BY <1>1, <1>2, <1>3, <1>4, <1>5 DEF socketLost, transportLeft

(* Counting a message leaves an entry of the server's table. *)
LEMMA countMsgType ==
  ASSUME NEW e \in ServerSub
  PROVE  countMsg(e) \in ServerSub
<1>1. /\ [on |-> FALSE, max |-> 0, sent |-> 0] \in ServerSub
      /\ [e EXCEPT !.sent = @ + 1] \in ServerSub
  BY DEF ServerSub
<1> QED
  BY <1>1 DEF countMsg

(* Steps of the server. *)
LEMMA TypeServer ==
  ASSUME TypeOK, serverRecv \/ (\E s \in Sid : serverMsg(s))
  PROVE  TypeOK'
<1>1. CASE serverRecv
  <2> DEFINE cmd == Head(c2s)
  <2>1. cmd \in Command /\ c2s' \in Seq(Command)
    BY <1>1 DEF serverRecv, TypeOK
  <2>2. cmd.max \in Nat /\ cmd.tag \in Tag /\ (cmd.op = "PUB" => cmd.sid \in PubId)
    BY <2>1 DEF Command
  <2> HIDE DEF cmd
  <2>3. \A s \in Sid : serverSub(srv[s], cmd) \in ServerSub
    BY <2>2 DEF serverSub, ServerSub, TypeOK
  <2>4. srv' \in [Sid -> ServerSub]
    BY <1>1, <2>3 DEF serverRecv, TypeOK, cmd
  <2>5. PONG(cmd.tag) \in Frame
    BY <2>2, FrameType
  <2>6. s2c' \in Seq(Frame)
    BY <1>1, <2>5 DEF serverRecv, TypeOK, cmd
  <2>7. served' \subseteq PubId
    BY <1>1, <2>2 DEF serverRecv, TypeOK, cmd
  <2> QED
    BY <1>1, <2>1, <2>4, <2>6, <2>7 DEF serverRecv, TypeOK, client, counters
<1>2. ASSUME NEW s \in Sid, serverMsg(s) PROVE TypeOK'
  <2>1. MSG(s) \in Frame
    BY FrameType, TagType DEF Sid
  <2>2. s2c' \in Seq(Frame) /\ msgs' \in Nat
    BY <1>2, <2>1 DEF serverMsg, TypeOK
  <2>3. countMsg(srv[s]) \in ServerSub
    BY countMsgType DEF TypeOK
  <2>4. srv' \in [Sid -> ServerSub]
    BY <1>2, <2>3 DEF serverMsg, TypeOK
  <2> QED
    BY <1>2, <2>2, <2>4 DEF serverMsg, TypeOK, client, history
<1> QED
  BY <1>1, <1>2

(* Every step keeps the types. *)
LEMMA TypeStep == TypeOK /\ [Next]_vars => TypeOK'
<1> SUFFICES ASSUME TypeOK, [Next]_vars PROVE TypeOK'
  OBVIOUS
<1>1. CASE Next
  BY <1>1, TypeCalls, TypeDrains, TypeTasks, TypeFrames, TypeDials, TypeServer DEF Next
<1>2. CASE UNCHANGED vars
  BY <1>2 DEF TypeOK, vars, client, counters, history
<1> QED
  BY <1>1, <1>2

(* The state of the protocol handler, of the wire and of the server always *)
(* has its type: in particular a sid, a limit and a waiting caller are     *)
(* never confused, and the table holds no more sids than were handed out.  *)
THEOREM TypeCorrect == Spec => []TypeOK
BY TypeInit, TypeStep, PTL DEF Spec

-----------------------------------------------------------------------------
(* Commands are never stranded in outbound.                                *)
(*                                                                         *)
(* NothingStranded needs to know that a connected handler may flush, that  *)
(* is, that it has received an INFO: the dial loop and a connection        *)
(* exclude each other, and a PONG ends a dial only after an INFO.          *)
DialInv == (dialing => ~connected) /\ (connected => infoReceived)

WireInv ==
  /\ transport \in {"none", "connecting", "gone"} => c2s = <<>> /\ s2c = <<>>
  /\ ~infoReceived => c2s = <<>> /\ \A i \in 1..Len(s2c) : s2c[i].op # "PONG"

StrandedInv == TypeOK /\ DialInv /\ WireInv /\ NothingStranded

(* What a handler may do to the wire and to the buffer. *)
Allowed(io) ==
  /\ io.wire = c2s \/ (infoReceived /\ transport = "open")
  /\ connected /\ io.out # <<>> => io.queued

(* Transport.send() on a connection past its INFO is allowed. *)
LEMMA SendAllowed ==
  ASSUME NEW io \in IOType, NEW cmds \in Seq(Command), infoReceived,
         io.wire = c2s \/ transport = "open"
  PROVE  /\ TransportSend(io, cmds).wire = c2s \/ transport = "open"
         /\ TransportSend(io, cmds).out = io.out
         /\ TransportSend(io, cmds).queued = io.queued
BY DEF TransportSend, IOType

(* flushPending() is allowed, and empties the buffer of a connection. *)
LEMMA flushPendingAllowed ==
  ASSUME DialInv, NEW io \in IOType,
         io.wire = c2s \/ (infoReceived /\ transport = "open")
  PROVE  /\ Allowed(flushPending(io))
         /\ connected => flushPending(io).out = <<>>
<1>1. CASE infoReceived /\ connected
  <2>1. io.out \in Seq(Command)
    BY IOParts
  <2>2. TransportSend(io, io.out) \in IOType
    BY <2>1, TransportSendType
  <2>3. /\ TransportSend(io, io.out).wire = c2s \/ transport = "open"
        /\ TransportSend(io, io.out).queued = io.queued
    BY <1>1, <2>1, SendAllowed
  <2>4. flushPending(io) = [TransportSend(io, io.out) EXCEPT !.out = <<>>]
    BY <1>1 DEF flushPending
  <2>5. /\ flushPending(io).out = <<>>
        /\ flushPending(io).wire = TransportSend(io, io.out).wire
        /\ flushPending(io).queued = TransportSend(io, io.out).queued
    BY <2>2, <2>4 DEF IOType
  <2> QED
    BY <1>1, <2>3, <2>5 DEF Allowed
<1>2. CASE ~(infoReceived /\ connected)
  <2>1. flushPending(io) = io /\ ~connected
    BY <1>2 DEF flushPending, DialInv
  <2> QED
    BY <2>1 DEF Allowed
<1> QED
  BY <1>1, <1>2

(* sendCommand() is allowed: it queues a flush or finds one queued. *)
LEMMA sendCommandAllowed ==
  ASSUME DialInv, NEW io \in IOType, NEW cmd \in Command, Allowed(io)
  PROVE  Allowed(sendCommand(io, cmd))
<1> DEFINE filled == [io EXCEPT !.out = Append(@, cmd)]
<1>1. filled \in IOType /\ filled.wire = io.wire /\ filled.queued = io.queued
  BY DEF IOType
<1>2. [filled EXCEPT !.queued = TRUE].wire = io.wire /\ [filled EXCEPT !.queued = TRUE].queued
  BY <1>1 DEF IOType
<1>3. sendCommand(io, cmd) =
        CASE io.out = <<>> -> [filled EXCEPT !.queued = TRUE]
          [] io.out # <<>> /\ Len(filled.out) >= PendingLimit -> flushPending(filled)
          [] OTHER -> filled
  BY DEF sendCommand
<1> HIDE DEF filled
<1>4. CASE io.out = <<>>
  BY <1>2, <1>3, <1>4 DEF Allowed
<1>5. CASE io.out # <<>> /\ Len(filled.out) >= PendingLimit
  <2>1. sendCommand(io, cmd) = flushPending(filled)
    BY <1>3, <1>5
  <2>2. filled.wire = c2s \/ (infoReceived /\ transport = "open")
    BY <1>1 DEF Allowed
  <2> QED
    BY <1>1, <2>1, <2>2, flushPendingAllowed
<1>6. CASE io.out # <<>> /\ ~(Len(filled.out) >= PendingLimit)
  <2>1. sendCommand(io, cmd) = filled
    BY <1>3, <1>6
  <2> QED
    BY <1>1, <1>6, <2>1 DEF Allowed
<1> QED
  BY <1>4, <1>5, <1>6

(* flush() is allowed though it queues nothing. *)
LEMMA flushPingAllowed ==
  ASSUME DialInv, NEW io \in IOType, NEW t \in Tag, Allowed(io)
  PROVE  Allowed(flushPing(io, t))
<1> DEFINE filled == [io EXCEPT !.out = Append(io.out, PING(t))]
<1>1. Append(io.out, PING(t)) \in Seq(Command)
  BY PingType, IOParts
<1>2. filled \in IOType
  BY <1>1, IOFields
<1>3. filled.wire = io.wire
  BY DEF IOType
<1> HIDE DEF filled
<1>4. filled.wire = c2s \/ (infoReceived /\ transport = "open")
  BY <1>3 DEF Allowed
<1> QED
  BY <1>2, <1>4, flushPendingAllowed DEF flushPing, filled

(* unsub() is allowed. *)
LEMMA unsubIOAllowed ==
  ASSUME DialInv, NEW io \in IOType, NEW s \in Nat, NEW m \in Nat, Allowed(io)
  PROVE  Allowed(unsubIO(io, s, m))
<1>1. UNSUB(s, m) \in Command
  BY CommandType
<1> QED
  BY <1>1, sendCommandAllowed DEF unsubIO

(* Draining subscriptions is allowed. *)
LEMMA drainIOAllowed ==
  ASSUME DialInv, NEW io \in IOType, NEW q \in Seq(Sid), Allowed(io)
  PROVE  Allowed(drainIO(io, q))
<1> DEFINE b == io.queued \/ io.out = <<>> \/ (infoReceived /\ connected /\ Len(q) > 1)
           filled == [io EXCEPT !.out = @ \o drainCmds(q), !.queued = b]
<1>1. b \in BOOLEAN
  OBVIOUS
<1>2. drainIO(io, q) = IF q = <<>> THEN io ELSE flushPending(filled)
  BY DEF drainIO
<1> HIDE DEF b
<1>3. filled \in IOType /\ filled.wire = io.wire
  BY <1>1, drainFilled
<1> HIDE DEF filled
<1>4. filled.wire = c2s \/ (infoReceived /\ transport = "open")
  BY <1>3 DEF Allowed
<1>5. Allowed(flushPending(filled))
  BY <1>3, <1>4, flushPendingAllowed
<1> QED
  BY <1>2, <1>5

(* A handler that writes as it may, on the same connection, keeps the      *)
(* invariant.                                                              *)
LEMMA AllowedStep ==
  ASSUME StrandedInv, TypeOK', NEW io \in IOType, Allowed(io), SetIO(io),
         UNCHANGED link, s2c' = s2c \/ (s2c # <<>> /\ s2c' = Tail(s2c))
  PROVE  StrandedInv'
<1>1. /\ UNCHANGED <<connected, infoReceived, dialing, transport>>
      /\ outbound' = io.out /\ c2s' = io.wire /\ flushQueued' = io.queued
  BY DEF link, SetIO
<1>2. DialInv' /\ NothingStranded'
  BY <1>1 DEF StrandedInv, DialInv, NothingStranded, Allowed
<1>3. transport' \in {"none", "connecting", "gone"} => c2s' = <<>> /\ s2c' = <<>>
  BY <1>1 DEF StrandedInv, WireInv, Allowed
<1>4. s2c \in Seq(Frame)
  BY DEF StrandedInv, TypeOK
<1>5. ~infoReceived' => c2s' = <<>> /\ \A i \in 1..Len(s2c') : s2c'[i].op # "PONG"
  BY <1>1, <1>4 DEF StrandedInv, WireInv, Allowed
<1> QED
  BY <1>2, <1>3, <1>5 DEF StrandedInv, WireInv

(* The handlers start from an allowed value. *)
LEMMA IOAllowed ==
  ASSUME StrandedInv
  PROVE  IO \in IOType /\ Allowed(IO) /\ DialInv
BY IOTyped DEF StrandedInv, NothingStranded, IO, Allowed

(* The calls and tasks that write. *)
LEMMA StrandedWrites ==
  ASSUME StrandedInv, TypeOK',
         \/ \E m \in Maxes : subscribe(m)
         \/ \E s \in Sid, m \in Maxes : unsubscribe(s, m)
         \/ flush \/ publish \/ drain \/ drainFlush \/ flushTask \/ processMsg
         \/ \E s \in Sid : drainSub(s) \/ subTimeout(s) \/ iterDone(s)
  PROVE  StrandedInv'
<1>0. IO \in IOType /\ Allowed(IO) /\ DialInv /\ Sid \subseteq Nat /\ Maxes \subseteq Nat
  BY IOAllowed, ProtocolAssumption DEF Sid
<1>1. ASSUME NEW m \in Maxes, subscribe(m) PROVE StrandedInv'
  <2> DEFINE s == sidCounter + 1
             io == sendCommand(IO, SUB(s))
  <2>1. s \in Nat /\ m \in Nat
    BY <1>0 DEF StrandedInv, TypeOK
  <2>2. SUB(s) \in Command /\ UNSUB(s, m) \in Command
    BY <2>1, CommandType
  <2>3. io \in IOType /\ Allowed(io)
    BY <1>0, <2>2, sendCommandType, sendCommandAllowed
  <2>4. sendCommand(io, UNSUB(s, m)) \in IOType /\ Allowed(sendCommand(io, UNSUB(s, m)))
    BY <1>0, <2>2, <2>3, sendCommandType, sendCommandAllowed
  <2>5. /\ SetIO(io) \/ SetIO(sendCommand(io, UNSUB(s, m)))
        /\ UNCHANGED link /\ s2c' = s2c
    BY <1>1 DEF subscribe
  <2> HIDE DEF io
  <2> QED
    BY <2>3, <2>4, <2>5, AllowedStep
<1>2. ASSUME NEW s \in Sid, NEW m \in Maxes, unsubscribe(s, m) PROVE StrandedInv'
  <2>1. unsubIO(IO, s, m) \in IOType /\ Allowed(unsubIO(IO, s, m))
    BY <1>0, unsubIOType, unsubIOAllowed
  <2> QED
    BY <1>2, <2>1, AllowedStep DEF unsubscribe
<1>3. CASE flush
  <2>1. FlushCall(flushes + 1) \in Tag
    BY <1>3, TagType, ProtocolAssumption DEF flush, StrandedInv, TypeOK
  <2>2. /\ flushPing(IO, FlushCall(flushes + 1)) \in IOType
        /\ Allowed(flushPing(IO, FlushCall(flushes + 1)))
    BY <1>0, <2>1, flushPingType, flushPingAllowed
  <2> QED
    BY <1>3, <2>2, AllowedStep DEF flush
<1>4. CASE publish
  <2>1. PUB(pubs + 1) \in Command
    <3>1. pubs + 1 \in PubId
      BY <1>4, ProtocolAssumption DEF publish, StrandedInv, TypeOK, PubId
    <3> QED
      BY <3>1, PubType
  <2>2. /\ sendCommand(IO, PUB(pubs + 1)) \in IOType
        /\ Allowed(sendCommand(IO, PUB(pubs + 1)))
    BY <1>0, <2>1, sendCommandType, sendCommandAllowed
  <2> QED
    BY <1>4, <2>2, AllowedStep DEF publish
<1>5. CASE drain
  <2>1. PICK q \in InOrder(ToDrain) : SetIO(drainIO(IO, q))
    BY <1>5 DEF drain
  <2>2. q \in Seq(Sid)
    BY InOrderType DEF ToDrain, Listed
  <2>3. drainIO(IO, q) \in IOType /\ Allowed(drainIO(IO, q))
    BY <1>0, <2>2, drainIOType, drainIOAllowed
  <2>4. UNCHANGED link /\ s2c' = s2c
    BY <1>5 DEF drain
  <2> QED
    BY <2>1, <2>3, <2>4, AllowedStep
<1>6. CASE drainFlush
  <2>1. flushPing(IO, Final) \in IOType /\ Allowed(flushPing(IO, Final))
    BY <1>0, TagType, flushPingType, flushPingAllowed
  <2> QED
    BY <1>6, <2>1, AllowedStep DEF drainFlush
<1>7. CASE flushTask
  <2> DEFINE io == [flushPending(IO) EXCEPT !.queued = FALSE]
  <2>1. flushPending(IO) \in IOType
    BY <1>0, flushPendingType
  <2>2. /\ flushPending(IO).wire = c2s \/ (infoReceived /\ transport = "open")
        /\ connected => flushPending(IO).out = <<>>
    BY <1>0, flushPendingAllowed DEF Allowed
  <2>3. io \in IOType /\ io.wire = flushPending(IO).wire /\ io.out = flushPending(IO).out
    BY <2>1 DEF IOType
  <2>4. SetIO(io) /\ UNCHANGED link /\ s2c' = s2c
    BY <1>7 DEF flushTask, quiet
  <2> HIDE DEF io
  <2>5. Allowed(io)
    BY <2>2, <2>3 DEF Allowed
  <2> QED
    BY <2>3, <2>4, <2>5, AllowedStep
<1>8. CASE processMsg
  <2> DEFINE s == Head(s2c).sid
             full == atLimit(receivedSub(s, subs[s]))
             io == IF subs[s].listed /\ full THEN unsubIO(IO, s, 0) ELSE IO
  <2>1. s \in Nat
    <3>1. s2c \in Seq(Frame) /\ s2c # <<>>
      BY <1>8 DEF processMsg, Reading, StrandedInv, TypeOK
    <3>2. Head(s2c) \in Frame
      BY <3>1
    <3> QED
      BY <3>2 DEF Frame
  <2>2. unsubIO(IO, s, 0) \in IOType /\ Allowed(unsubIO(IO, s, 0))
    BY <1>0, <2>1, unsubIOType, unsubIOAllowed
  <2>3. io \in IOType /\ Allowed(io)
    BY <1>0, <2>2
  <2>4. SetIO(io)
    BY <1>8 DEF processMsg, SetIO, IO
  <2>5. UNCHANGED link /\ s2c # <<>> /\ s2c' = Tail(s2c)
    BY <1>8 DEF processMsg, Reading
  <2> HIDE DEF io
  <2> QED
    BY <2>3, <2>4, <2>5, AllowedStep
<1>9. ASSUME NEW s \in Sid, drainSub(s) PROVE StrandedInv'
  <2>1. <<s>> \in Seq(Sid)
    OBVIOUS
  <2>2. drainIO(IO, <<s>>) \in IOType /\ Allowed(drainIO(IO, <<s>>))
    BY <1>0, <2>1, drainIOType, drainIOAllowed
  <2> QED
    BY <1>9, <2>2, AllowedStep DEF drainSub
<1>10. ASSUME NEW s \in Sid, subTimeout(s) \/ iterDone(s) PROVE StrandedInv'
  <2>1. unsubIO(IO, s, 0) \in IOType /\ Allowed(unsubIO(IO, s, 0))
    BY <1>0, unsubIOType, unsubIOAllowed
  <2>2. /\ SetIO(unsubIO(IO, s, 0)) \/ SetIO(IO)
        /\ UNCHANGED link /\ s2c' = s2c
    BY <1>10 DEF subTimeout, iterDone, quiet
  <2> QED
    BY <1>0, <2>1, <2>2, AllowedStep
<1> QED
  BY <1>1, <1>2, <1>3, <1>4, <1>5, <1>6, <1>7, <1>8, <1>9, <1>10

(* Frames, and what the server does. *)
LEMMA StrandedFrames ==
  ASSUME StrandedInv, TypeOK',
         \/ processInfo \/ processPong \/ dialDone
         \/ serverRecv \/ (\E s \in Sid : serverMsg(s))
  PROVE  StrandedInv'
<1>0. s2c \in Seq(Frame) /\ c2s \in Seq(Command)
  BY DEF StrandedInv, TypeOK
<1>1. CASE processInfo
  <2>1. DialInv' /\ NothingStranded'
    BY <1>1 DEF processInfo, StrandedInv, DialInv, NothingStranded
  <2>2. WireInv'
    BY <1>1 DEF processInfo, Reading, WireInv
  <2> QED
    BY <2>1, <2>2 DEF StrandedInv
<1>2. CASE processPong
  <2>1. IO \in IOType /\ Allowed(IO)
    BY IOAllowed
  <2>2. /\ SetIO(IO) /\ UNCHANGED link /\ s2c # <<>> /\ s2c' = Tail(s2c)
    BY <1>2 DEF processPong, Reading, SetIO, IO
  <2> QED
    BY <2>1, <2>2, AllowedStep
<1>3. CASE dialDone
  <2>1. s2c # <<>> /\ s2c[1].op = "PONG" /\ transport \in {"open", "leaving"}
    BY <1>0, <1>3 DEF dialDone, Reading
  <2>2. infoReceived
    BY <1>0, <2>1 DEF StrandedInv, WireInv
  <2>3. UNCHANGED <<infoReceived, transport>> /\ connected' = TRUE /\ dialing' = FALSE
    BY <1>3 DEF dialDone
  <2>4. PICK q \in InOrder(Listed) :
          SetIO([TransportSend(sendSubscriptions(IO, q), outbound) EXCEPT !.out = <<>>])
    BY <1>3 DEF dialDone
  <2>5. q \in Seq(Sid) /\ IO \in IOType /\ outbound \in Seq(Command)
    BY InOrderType, IOAllowed DEF Listed, StrandedInv, TypeOK
  <2>6. TransportSend(sendSubscriptions(IO, q), outbound) \in IOType
    BY <2>5, sendSubscriptionsType, TransportSendType
  <2>7. outbound' = <<>>
    BY <2>4, <2>6 DEF SetIO, IOType
  <2> QED
    BY <2>1, <2>2, <2>3, <2>7 DEF StrandedInv, DialInv, WireInv, NothingStranded
<1>4. CASE serverRecv
  <2>1. UNCHANGED client /\ c2s # <<>> /\ transport \in {"open", "leaving"}
    BY <1>4 DEF serverRecv, Served
  <2>2. infoReceived
    BY <2>1 DEF StrandedInv, WireInv
  <2> QED
    BY <2>1, <2>2 DEF StrandedInv, DialInv, WireInv, NothingStranded, client
<1>5. ASSUME NEW s \in Sid, serverMsg(s) PROVE StrandedInv'
  <2>1. /\ UNCHANGED client /\ c2s' = c2s /\ transport \in {"open", "leaving"}
        /\ s2c' = Append(s2c, MSG(s))
    BY <1>5 DEF serverMsg, Served
  <2>2. MSG(s).op = "MSG"
    BY DEF MSG
  <2>3. ~infoReceived => \A i \in 1..Len(s2c') : s2c'[i].op # "PONG"
    BY <1>0, <2>1, <2>2 DEF StrandedInv, WireInv
  <2> QED
    BY <2>1, <2>3 DEF StrandedInv, DialInv, WireInv, NothingStranded, client
<1> QED
  BY <1>1, <1>2, <1>3, <1>4, <1>5

(* Making, losing and closing connections. *)
LEMMA StrandedLinks ==
  ASSUME StrandedInv, TypeOK',
         \/ prepare \/ connectOk \/ dialFail \/ socketLost \/ transportLeft \/ giveUp
         \/ close \/ disconnect \/ drainClose
  PROVE  StrandedInv'
<1>1. CASE prepare
  BY <1>1 DEF prepare, StrandedInv, DialInv, WireInv, NothingStranded
<1>2. CASE connectOk
  <2>1. s2c' = <<INFO>> /\ INFO.op = "INFO"
    BY <1>2 DEF connectOk, INFO
  <2>2. \A i \in 1..Len(s2c') : s2c'[i].op # "PONG"
    BY <2>1
  <2> QED
    BY <1>2, <2>2 DEF connectOk, StrandedInv, DialInv, WireInv, NothingStranded
<1>3. CASE dialFail
  BY <1>3 DEF dialFail, WireDown, StrandedInv, DialInv, WireInv, NothingStranded
<1>4. CASE disconnected
  BY <1>4 DEF disconnected, WireDown, StrandedInv, DialInv, WireInv, NothingStranded
<1>5. CASE giveUp \/ close \/ drainClose
  <2>1. /\ dialing' = FALSE /\ transport' = "gone" /\ c2s' = <<>> /\ s2c' = <<>>
        /\ UNCHANGED <<connected, infoReceived, outbound, flushQueued>>
    BY <1>5 DEF giveUp, close, drainClose, doClose
  <2> QED
    BY <2>1 DEF StrandedInv, DialInv, WireInv, NothingStranded
<1>6. CASE disconnect
  BY <1>6 DEF disconnect, StrandedInv, DialInv, WireInv, NothingStranded
<1> QED
  BY <1>1, <1>2, <1>3, <1>4, <1>5, <1>6 DEF socketLost, transportLeft

(* The invariant behind NothingStranded is inductive. *)
LEMMA StrandedStep == StrandedInv /\ [Next]_vars => StrandedInv'
<1> SUFFICES ASSUME StrandedInv, [Next]_vars PROVE StrandedInv'
  OBVIOUS
<1>1. TypeOK'
  BY TypeStep DEF StrandedInv
<1>2. CASE Next
  BY <1>1, <1>2, StrandedWrites, StrandedFrames, StrandedLinks DEF Next
<1>3. CASE UNCHANGED vars
  BY <1>1, <1>3 DEF StrandedInv, DialInv, WireInv, NothingStranded, vars, client
<1> QED
  BY <1>2, <1>3

(* It holds initially. *)
LEMMA StrandedInit == Init => StrandedInv
BY TypeInit DEF Init, StrandedInv, DialInv, WireInv, NothingStranded

(* On a usable connection whatever sendCommand(), flush() or a drain has   *)
(* put into outbound has a flushPending microtask coming, for any limit on *)
(* the buffer and across any number of reconnects.                         *)
THEOREM NeverStranded == Spec => []NothingStranded
<1>1. StrandedInv => NothingStranded
  BY DEF StrandedInv
<1> QED
  BY <1>1, StrandedInit, StrandedStep, PTL DEF Spec

(* A handler that considers itself connected has received the INFO of its  *)
(* connection and runs no dial loop: flushPending() never holds back what  *)
(* a connected client writes.                                              *)
THEOREM ConnectedMeansReady == Spec => [](connected => infoReceived /\ ~dialing)
<1>1. StrandedInv => (connected => infoReceived /\ ~dialing)
  BY DEF StrandedInv, DialInv
<1> QED
  BY <1>1, StrandedInit, StrandedStep, PTL DEF Spec

-----------------------------------------------------------------------------
(* Limits.                                                                 *)
(*                                                                         *)
(* A subscription that is listed and does not drain has the limit it was   *)
(* asked for and has not reached it; a closed handler reads no frames.     *)
Bounded(sub, l) ==
  (sub.listed /\ sub.drain = "no" /\ l # 0) => sub.max = l /\ sub.received < l

LimitInv ==
  /\ TypeOK
  /\ closed => transport = "gone"
  /\ ~closed => \A s \in Sid : Bounded(subs[s], limit[s])

(* What the operators do to the count, and that cancelling is final. *)
LEMMA CancelFacts ==
  ASSUME NEW s \in Sid, NEW sub \in Subscription
  PROVE  /\ closeSub(s, sub).received = sub.received
         /\ cancelSub(s, sub).received = sub.received
         /\ cancelSub(s, sub).listed = FALSE
<1>1. closeSub(s, sub) \in Subscription /\ closeSub(s, sub).received = sub.received
  BY SubscriptionOps DEF closeSub, Subscription
<1> QED
  BY <1>1 DEF cancelSub, Subscription

(* unsubscribe() keeps the count; without a max it cancels. *)
LEMMA unsubscribeFacts ==
  ASSUME NEW s \in Sid, NEW sub \in Subscription, NEW m \in Nat
  PROVE  /\ unsubscribeSub(s, sub, m).received = sub.received
         /\ ~closed /\ m = 0 => unsubscribeSub(s, sub, m).listed = FALSE
<1>1. /\ unsubSub(sub, m) \in Subscription
      /\ unsubSub(sub, m).received = sub.received
      /\ ~closed => unsubSub(sub, m).max = m
  BY SubscriptionOps DEF unsubSub, Subscription
<1>2. /\ cancelSub(s, unsubSub(sub, m)).received = sub.received
      /\ cancelSub(s, unsubSub(sub, m)).listed = FALSE
  BY <1>1, CancelFacts
<1> QED
  BY <1>1, <1>2 DEF unsubscribeSub

(* unsubscribe(max) with a max no larger than the limit keeps the bound. *)
LEMMA unsubscribeBounded ==
  ASSUME ~closed, NEW s \in Sid, NEW sub \in Subscription, NEW m \in Nat,
         NEW l \in Nat, Bounded(sub, l), m = 0 \/ l = 0 \/ m <= l
  PROVE  Bounded(unsubscribeSub(s, sub, m), Smaller(l, m))
<1>1. CASE m = 0
  <2>1. unsubscribeSub(s, sub, m).listed = FALSE
    BY <1>1, unsubscribeFacts
  <2> QED
    BY <2>1 DEF Bounded
<1>2. CASE m # 0
  <2>1. unsubSub(sub, m) = [sub EXCEPT !.max = m]
    BY DEF unsubSub
  <2>2. /\ unsubSub(sub, m) \in Subscription
        /\ unsubSub(sub, m).max = m /\ unsubSub(sub, m).received = sub.received
    BY <2>1 DEF Subscription
  <2>3. CASE sub.received >= m
    <3>1. unsubscribeSub(s, sub, m) = cancelSub(s, unsubSub(sub, m))
      BY <2>2, <2>3 DEF unsubscribeSub
    <3>2. unsubscribeSub(s, sub, m).listed = FALSE
      BY <2>2, <3>1, CancelFacts
    <3> QED
      BY <3>2 DEF Bounded
  <2>4. CASE sub.received < m
    <3>1. sub.received \in Nat
      BY DEF Subscription
    <3>2. unsubscribeSub(s, sub, m) = unsubSub(sub, m)
      BY <1>2, <2>2, <2>4, <3>1 DEF unsubscribeSub
    <3>3. Smaller(l, m) = m
      BY <1>2 DEF Smaller
    <3> QED
      BY <2>2, <2>4, <3>2, <3>3 DEF Bounded
  <2>5. sub.received \in Nat
    BY DEF Subscription
  <2> QED
    BY <2>3, <2>4, <2>5
<1> QED
  BY <1>1, <1>2

(* Stopping an iterator keeps the count and cancels the subscription. *)
LEMMA stopIterFacts ==
  ASSUME NEW s \in Sid, NEW sub \in Subscription
  PROVE  /\ stopIter(s, sub).received = sub.received
         /\ ~closed => stopIter(s, sub).listed = FALSE
<1>1. /\ [sub EXCEPT !.done = TRUE, !.closing = FALSE] \in Subscription
      /\ [sub EXCEPT !.done = TRUE, !.closing = FALSE].received = sub.received
  BY DEF Subscription
<1> QED
  BY <1>1, unsubscribeFacts DEF stopIter

(* A message is counted once and changes nothing else of the bound. *)
LEMMA receivedFacts ==
  ASSUME NEW s \in Sid, NEW sub \in Subscription
  PROVE  /\ receivedSub(s, sub).received = sub.received + 1
         /\ receivedSub(s, sub).max = sub.max
         /\ receivedSub(s, sub).listed = sub.listed
         /\ receivedSub(s, sub).drain = sub.drain
BY DEF receivedSub, Subscription

(* The end of drains keeps the counts and only cancels. *)
LEMMA settleDrainsFacts ==
  ASSUME TypeOK, NEW tags, NEW s \in Sid
  PROVE  /\ settleDrains(tags)[s].received = subs[s].received
         /\ settleDrains(tags)[s] = subs[s] \/ settleDrains(tags)[s].listed = FALSE
<1>1. /\ cancelSub(s, subs[s]) \in Subscription
      /\ cancelSub(s, subs[s]).received = subs[s].received
      /\ cancelSub(s, subs[s]).listed = FALSE
  BY SubscriptionOps, CancelFacts DEF TypeOK
<1> QED
  BY <1>1 DEF settleDrains, Subscription

(* A drain keeps the count. *)
LEMMA startDrainFacts ==
  ASSUME NEW sub \in Subscription
  PROVE  startDrain(sub).received = sub.received /\ startDrain(sub).drain = "pending"
BY DEF startDrain, Subscription

(* What LimitRespected says of one step. *)
Within ==
  \A s \in Sid :
    (subs'[s].received > subs[s].received /\ limit[s] # 0 /\ subs[s].drain = "no")
      => subs'[s].received <= limit[s]

(* A step that counts no message keeps the invariant when it keeps each    *)
(* subscription within its limit.                                          *)
LEMMA LimitKeep ==
  ASSUME LimitInv, TypeOK', closed' => transport' = "gone",
         \A s \in Sid : subs'[s].received = subs[s].received,
         ~closed' => \A s \in Sid : Bounded(subs'[s], limit'[s])
  PROVE  LimitInv' /\ Within
<1>1. LimitInv'
  BY DEF LimitInv
<1>2. \A s \in Sid : subs[s].received \in Nat
  BY DEF LimitInv, TypeOK, Subscription
<1>3. Within
  BY <1>2 DEF Within
<1> QED
  BY <1>1, <1>3

(* Calls and tasks. *)
LEMMA LimitCalls ==
  ASSUME LimitInv, TypeOK',
         \/ \E m \in Maxes : subscribe(m)
         \/ \E s \in Sid, m \in Maxes : unsubscribe(s, m)
         \/ drain \/ (\E s \in Sid : drainSub(s))
         \/ \E s \in Sid : subTimeout(s) \/ iterDone(s)
  PROVE  LimitInv' /\ Within
<1>0. Maxes \subseteq Nat /\ subs \in [Sid -> Subscription] /\ limit \in [Sid -> Nat]
  BY ProtocolAssumption DEF LimitInv, TypeOK
<1>1. ASSUME NEW m \in Maxes, subscribe(m) PROVE LimitInv' /\ Within
  <2> DEFINE n == sidCounter + 1
  <2>1. n \in Sid
    BY <1>1, ProtocolAssumption DEF subscribe, LimitInv, TypeOK, Sid
  <2>2. /\ subs' = [subs EXCEPT ![n] = NewSub(n, m)] /\ limit' = [limit EXCEPT ![n] = m]
        /\ UNCHANGED <<closed, transport>> /\ ~closed
    BY <1>1 DEF subscribe, link
  <2> HIDE DEF n
  <2>3. NewSub(n, m).received = 0 /\ NewSub(n, m).max = m
    BY DEF NewSub
  <2>4. Bounded(NewSub(n, m), m)
    BY <1>0, <2>3 DEF Bounded
  <2>5. \A s \in Sid : Bounded(subs'[s], limit'[s])
    BY <1>0, <2>1, <2>2, <2>4 DEF LimitInv
  <2>6. LimitInv'
    BY <2>2, <2>5 DEF LimitInv
  <2>7. \A s \in Sid : subs'[s].received = subs[s].received \/ subs'[s].received = 0
    BY <1>0, <2>1, <2>2, <2>3
  <2>8. \A s \in Sid : subs[s].received \in Nat
    BY <1>0 DEF Subscription
  <2>9. Within
    BY <2>7, <2>8 DEF Within
  <2> QED
    BY <2>6, <2>9
<1>2. ASSUME NEW t \in Sid, NEW m \in Maxes, unsubscribe(t, m) PROVE LimitInv' /\ Within
  <2>1. /\ subs' = [subs EXCEPT ![t] = unsubscribeSub(t, subs[t], m)]
        /\ limit' = [limit EXCEPT ![t] = Smaller(limit[t], m)]
        /\ m = 0 \/ limit[t] = 0 \/ m <= limit[t]
        /\ UNCHANGED <<closed, transport>>
    BY <1>2 DEF unsubscribe, link
  <2>2. unsubscribeSub(t, subs[t], m).received = subs[t].received
    BY <1>0, unsubscribeFacts
  <2>3. \A s \in Sid : subs'[s].received = subs[s].received
    BY <1>0, <2>1, <2>2
  <2>4. ~closed => Bounded(unsubscribeSub(t, subs[t], m), Smaller(limit[t], m))
    BY <1>0, <2>1, unsubscribeBounded DEF LimitInv
  <2>5. ~closed' => \A s \in Sid : Bounded(subs'[s], limit'[s])
    BY <1>0, <2>1, <2>4 DEF LimitInv
  <2>6. closed' => transport' = "gone"
    BY <2>1 DEF LimitInv
  <2> QED
    BY <2>3, <2>5, <2>6, LimitKeep
<1>3. CASE drain \/ \E t \in Sid : drainSub(t)
  <2>1. /\ \A s \in Sid : subs'[s] = subs[s] \/ subs'[s] = startDrain(subs[s])
        /\ UNCHANGED <<closed, transport, limit>>
    BY <1>0, <1>3 DEF drain, drainSub, link
  <2>2. \A s \in Sid : /\ startDrain(subs[s]).received = subs[s].received
                      /\ startDrain(subs[s]).drain = "pending"
    BY <1>0, startDrainFacts
  <2>3. \A s \in Sid : subs'[s].received = subs[s].received
    BY <2>1, <2>2
  <2>4. ~closed' => \A s \in Sid : Bounded(subs'[s], limit'[s])
    BY <2>1, <2>2 DEF LimitInv, Bounded
  <2>5. closed' => transport' = "gone"
    BY <2>1 DEF LimitInv
  <2> QED
    BY <2>3, <2>4, <2>5, LimitKeep
<1>4. ASSUME NEW t \in Sid, subTimeout(t) \/ iterDone(t) PROVE LimitInv' /\ Within
  <2> DEFINE fired == [subs[t] EXCEPT !.timer = FALSE]
             quit == [fired EXCEPT !.done = TRUE]
  <2>1. /\ fired \in Subscription /\ fired.received = subs[t].received
        /\ quit.received = subs[t].received /\ quit.listed = subs[t].listed
        /\ quit.max = subs[t].max /\ quit.drain = subs[t].drain
    BY <1>0 DEF Subscription
  <2>2. /\ \/ subs' = [subs EXCEPT ![t] = stopIter(t, fired)]
           \/ subs' = [subs EXCEPT ![t] = quit]
           \/ subs' = [subs EXCEPT ![t] = stopIter(t, subs[t])]
        /\ UNCHANGED <<closed, transport, limit>>
    BY <1>4 DEF subTimeout, iterDone, link, quiet, history
  <2> HIDE DEF fired, quit
  <2>3. /\ stopIter(t, fired).received = subs[t].received
        /\ stopIter(t, subs[t]).received = subs[t].received
        /\ ~closed => ~stopIter(t, fired).listed /\ ~stopIter(t, subs[t]).listed
    BY <1>0, <2>1, stopIterFacts
  <2>4. \A s \in Sid : subs'[s].received = subs[s].received
    BY <1>0, <2>1, <2>2, <2>3
  <2>5. ~closed => Bounded(subs'[t], limit'[t])
    BY <1>0, <2>1, <2>2, <2>3 DEF LimitInv, Bounded
  <2>6. ~closed' => \A s \in Sid : Bounded(subs'[s], limit'[s])
    BY <1>0, <2>2, <2>5 DEF LimitInv
  <2>7. closed' => transport' = "gone"
    BY <2>2 DEF LimitInv
  <2> QED
    BY <2>4, <2>6, <2>7, LimitKeep
<1> QED
  BY <1>1, <1>2, <1>3, <1>4

(* The only step that counts. *)
LEMMA LimitMsg ==
  ASSUME LimitInv, TypeOK', processMsg
  PROVE  LimitInv' /\ Within
<1> DEFINE t == Head(s2c).sid
           got == receivedSub(t, subs[t])
<1>0. subs \in [Sid -> Subscription] /\ limit \in [Sid -> Nat]
  BY DEF LimitInv, TypeOK
<1>1. ~closed /\ UNCHANGED <<closed, transport, limit>>
  BY DEF processMsg, Reading, LimitInv, link, history
<1>2. \/ subs' = subs
      \/ /\ subs[t].listed
         /\ \/ subs' = [subs EXCEPT ![t] = unsubscribeSub(t, got, 0)]
            \/ ~atLimit(got) /\ subs' = [subs EXCEPT ![t] = got]
  BY DEF processMsg
<1>3. CASE subs' = subs
  BY <1>1, <1>3, LimitKeep DEF LimitInv
<1>4. CASE t \notin Sid
  <2>1. subs' = subs
    BY <1>0, <1>2, <1>4
  <2> QED
    BY <1>1, <2>1, LimitKeep DEF LimitInv
<1>5. CASE t \in Sid /\ subs' # subs
  <2>1. /\ got \in Subscription
        /\ got.received = subs[t].received + 1 /\ got.max = subs[t].max
        /\ got.listed = subs[t].listed /\ got.drain = subs[t].drain
    BY <1>0, <1>5, SubscriptionOps, receivedFacts
  <2>2. /\ subs[t].received \in Nat /\ subs[t].max \in Nat /\ limit[t] \in Nat
        /\ Bounded(subs[t], limit[t]) /\ subs[t].listed
    BY <1>0, <1>1, <1>2, <1>5 DEF LimitInv, Subscription
  <2> HIDE DEF got, t
  <2>3. /\ unsubscribeSub(t, got, 0).received = got.received
        /\ unsubscribeSub(t, got, 0).listed = FALSE
    BY <1>1, <1>5, <2>1, unsubscribeFacts
  <2>4. ~atLimit(got) => Bounded(got, limit[t])
    BY <2>1, <2>2 DEF Bounded, atLimit
  <2>5. Bounded(subs'[t], limit[t])
    BY <1>0, <1>2, <1>5, <2>3, <2>4 DEF Bounded
  <2>6. LimitInv'
    BY <1>0, <1>1, <1>2, <1>5, <2>5 DEF LimitInv
  <2>7. subs'[t].received = subs[t].received + 1
    BY <1>0, <1>2, <1>5, <2>1, <2>3
  <2>8. limit[t] # 0 /\ subs[t].drain = "no" => subs'[t].received <= limit[t]
    BY <2>2, <2>7 DEF Bounded
  <2>9. \A s \in Sid : s # t => subs'[s] = subs[s]
    BY <1>0, <1>2, <1>5
  <2>10. \A s \in Sid : subs[s].received \in Nat
    BY <1>0 DEF Subscription
  <2>11. Within
    BY <2>8, <2>9, <2>10 DEF Within
  <2> QED
    BY <2>6, <2>11
<1> QED
  BY <1>3, <1>4, <1>5

(* The steps that end subscriptions or leave them alone. *)
LEMMA LimitOthers ==
  ASSUME LimitInv, TypeOK',
         \/ flush \/ publish \/ drainFlush \/ close \/ disconnect \/ flushTask
         \/ processInfo \/ processPong \/ drainClose \/ dialDone
         \/ prepare \/ connectOk \/ dialFail \/ socketLost \/ transportLeft \/ giveUp
         \/ serverRecv \/ (\E s \in Sid : serverMsg(s))
  PROVE  LimitInv' /\ Within
<1>0. subs \in [Sid -> Subscription]
  BY DEF LimitInv, TypeOK
<1>1. CASE close \/ drainClose \/ giveUp
  <2>1. closed' /\ transport' = "gone" /\ subs' = [s \in Sid |->
          IF subs[s].listed THEN closeSub(s, subs[s]) ELSE subs[s]]
    BY <1>1 DEF close, drainClose, giveUp, doClose
  <2>2. \A s \in Sid : closeSub(s, subs[s]).received = subs[s].received
    BY <1>0, CancelFacts
  <2>3. \A s \in Sid : subs'[s].received = subs[s].received
    BY <2>1, <2>2
  <2> QED
    BY <2>1, <2>3, LimitKeep
<1>2. CASE processPong \/ prepare
  <2>1. /\ \E tags : subs' = settleDrains(tags)
        /\ closed' = closed /\ limit' = limit /\ (closed => transport' = transport)
    BY <1>2 DEF processPong, prepare, link, history, app
  <2>2. \A s \in Sid : /\ subs'[s].received = subs[s].received
                       /\ subs'[s] = subs[s] \/ subs'[s].listed = FALSE
    BY <2>1, settleDrainsFacts DEF LimitInv
  <2>3. ~closed' => \A s \in Sid : Bounded(subs'[s], limit'[s])
    BY <2>1, <2>2 DEF LimitInv, Bounded
  <2>4. closed' => transport' = "gone"
    BY <2>1 DEF LimitInv
  <2>5. \A s \in Sid : subs'[s].received = subs[s].received
    BY <2>2
  <2> QED
    BY <2>3, <2>4, <2>5, LimitKeep
<1>3. CASE \/ flush \/ publish \/ drainFlush \/ disconnect \/ flushTask
           \/ processInfo \/ dialDone \/ serverRecv \/ (\E s \in Sid : serverMsg(s))
  <2>1. UNCHANGED <<subs, limit, closed>> /\ (closed => transport' = transport)
    BY <1>3 DEF flush, publish, drainFlush, disconnect, flushTask, processInfo,
                dialDone, serverRecv, serverMsg, link, quiet, history, client
  <2> QED
    BY <2>1, LimitKeep DEF LimitInv
<1>4. CASE connectOk \/ dialFail \/ socketLost \/ transportLeft
  <2>1. UNCHANGED <<subs, limit, closed>> /\ (closed => transport' = "gone")
    BY <1>4 DEF connectOk, dialFail, socketLost, transportLeft, disconnected, app,
                LimitInv
  <2> QED
    BY <2>1, LimitKeep DEF LimitInv
<1> QED
  BY <1>1, <1>2, <1>3, <1>4

(* The invariant behind LimitRespected is inductive, and bounds each step. *)
LEMMA LimitStep == LimitInv /\ [Next]_vars => LimitInv' /\ (Within \/ UNCHANGED vars)
<1> SUFFICES ASSUME LimitInv, [Next]_vars PROVE LimitInv' /\ (Within \/ UNCHANGED vars)
  OBVIOUS
<1>1. TypeOK'
  BY TypeStep DEF LimitInv
<1>2. CASE Next
  BY <1>1, <1>2, LimitCalls, LimitMsg, LimitOthers DEF Next
<1>3. CASE UNCHANGED vars
  BY <1>1, <1>3 DEF LimitInv, Bounded, vars, client, history
<1> QED
  BY <1>2, <1>3

(* It holds initially. *)
LEMMA LimitInit == Init => LimitInv
BY TypeInit DEF Init, LimitInv, Bounded, NoSub

(* No step hands a subscription that is not draining more messages than    *)
(* the smallest limit it was asked for, whatever the server delivers: a    *)
(* reconnect, after which the server knows no limit and counts from zero,  *)
(* included.                                                               *)
THEOREM LimitKept == Spec => LimitRespected
<1>1. LimitInv /\ [Next]_vars => [Within]_vars
  BY LimitStep
<1>2. Spec => [][Within]_vars
  BY <1>1, LimitInit, LimitStep, PTL DEF Spec
<1> QED
  BY <1>2 DEF LimitRespected, Within
-----------------------------------------------------------------------------
(***************************************************************************)
(* FlushBarrier, proved: PONGs find their flush(), and a resolved flush()  *)
(* is a barrier (protocol.ts flush(), processPong(), prepare(); nats.ts    *)
(* drain()).                                                               *)
(*                                                                         *)
(* The invariant says what the queue pongs holds in each state of the      *)
(* transport (PairInv), that what a caller is owed is ahead of its PING    *)
(* or processed (CoverInv), and that nobody waits for a caller that has    *)
(* not called (FreshInv, CallInv). It is about the commands the server has *)
(* yet to process and the buffer as one sequence, Written: flushPending()  *)
(* moves a command along it without changing it, and every other handler   *)
(* adds at its end, but for the PING of CONNECT.                           *)
(***************************************************************************)
-----------------------------------------------------------------------------
(* Sequences and the callers of their commands.                            *)

(* A non-empty set of numbers has a least one.                             *)
LEMMA LeastNat ==
  ASSUME NEW T \in SUBSET Nat, T # {}
  PROVE  \E n \in T : \A m \in T : n <= m
<1> DEFINE R == OpToRel(<, Nat)
<1>1. IsWellFoundedOn(R, Nat)
  BY NatLessThanWellFounded
<1>2. \A n, m \in Nat : <<n, m>> \in R <=> n < m
  BY DEF OpToRel
<1> HIDE DEF R
<1>3. T \subseteq Nat
  OBVIOUS
<1>4. PICK n \in T : \A m \in T : ~(<<m, n>> \in R)
  BY <1>1, <1>3, WFMin
<1>5. \A m \in T : ~(m < n)
  BY <1>2, <1>3, <1>4
<1> QED
  BY <1>3, <1>5

(* Induction up to a bound, as the least counterexample. *)
LEMMA UpTo ==
  ASSUME NEW P, NEW N \in Nat, 0 \in P, \A n \in 0..(N - 1) : n \in P => n + 1 \in P
  PROVE  \A n \in 0..N : n \in P
<1> DEFINE T == {n \in 0..N : n \notin P}
<1>1. SUFFICES ASSUME T # {} PROVE FALSE
  OBVIOUS
<1>2. T \subseteq Nat
  OBVIOUS
<1>3. PICK n \in T : \A m \in T : n <= m
  BY <1>1, <1>2, LeastNat
<1>4. n \in 0..N /\ n # 0
  OBVIOUS
<1>5. n - 1 \in 0..(N - 1) /\ n - 1 \in 0..N /\ n - 1 \notin T
  BY <1>3, <1>4
<1>6. n - 1 \in P /\ n = (n - 1) + 1
  BY <1>4, <1>5
<1> QED
  BY <1>5, <1>6, <1>3

-----------------------------------------------------------------------------
(* The callers of a sequence.                                              *)

(* One step of Tags, and what its prefixes are. *)
Tagged(ts, e) == IF Marked(e) THEN Append(ts, e.tag) ELSE ts
IsTags(f, q) ==
  /\ f = [n \in 0..Len(q) |-> f[n]] /\ f[0] = <<>>
  /\ \A n \in 1..Len(q) : f[n] = Tagged(f[n - 1], q[n])

(* There is a function of the prefixes, *)
LEMMA TagsExist ==
  ASSUME NEW V, NEW q \in Seq(V)
  PROVE  \E f : IsTags(f, q)
<1> DEFINE Upto(f, n) == /\ f = [i \in 0..n |-> f[i]] /\ f[0] = <<>>
                         /\ \A i \in 1..n : f[i] = Tagged(f[i - 1], q[i])
           P == {n \in Nat : \E f : Upto(f, n)}
<1>1. 0 \in P
  <2> DEFINE f == [i \in 0..0 |-> <<>>]
  <2>1. Upto(f, 0)
    OBVIOUS
  <2> QED
    BY <2>1
<1>2. ASSUME NEW n \in 0..(Len(q) - 1), n \in P PROVE n + 1 \in P
  <2>1. PICK f : Upto(f, n)
    BY <1>2
  <2> DEFINE g == [i \in 0..(n + 1) |-> IF i = n + 1 THEN Tagged(f[n], q[n + 1]) ELSE f[i]]
  <2>2. n \in Nat /\ n + 1 \in Nat
    OBVIOUS
  <2>3. \A i \in 0..n : g[i] = f[i]
    BY <2>2
  <2>4. g[n + 1] = Tagged(f[n], q[n + 1]) /\ g = [i \in 0..(n + 1) |-> g[i]]
    BY <2>2
  <2> HIDE DEF g
  <2>5. \A i \in 1..(n + 1) : g[i] = Tagged(g[i - 1], q[i])
    <3>1. \A i \in 1..n : i \in 0..n /\ i - 1 \in 0..n
      BY <2>2
    <3>2. \A i \in 1..n : g[i] = Tagged(g[i - 1], q[i])
      BY <2>1, <2>3, <3>1
    <3>3. (n + 1) - 1 = n /\ n \in 0..n
      BY <2>2
    <3>4. g[n + 1] = Tagged(g[(n + 1) - 1], q[n + 1])
      BY <2>3, <2>4, <3>3
    <3>5. \A i \in 1..(n + 1) : i \in 1..n \/ i = n + 1
      BY <2>2
    <3> QED
      BY <3>2, <3>4, <3>5
  <2>6. g[0] = <<>>
    BY <2>1, <2>2, <2>3
  <2>7. Upto(g, n + 1)
    BY <2>4, <2>5, <2>6
  <2> QED
    BY <2>2, <2>7
<1>3. Len(q) \in Nat /\ Len(q) \in 0..Len(q)
  OBVIOUS
<1> HIDE DEF P
<1>4. \A n \in 0..Len(q) : n \in P
  BY <1>1, <1>2, <1>3, UpTo
<1> QED
  BY <1>3, <1>4 DEF P, IsTags

(* and Tags is its last value. *)
LEMMA TagsAre ==
  ASSUME NEW V, NEW q \in Seq(V)
  PROVE  \E f : IsTags(f, q) /\ Tags(q) = f[Len(q)]
<1> DEFINE Step(f) == [n \in 0..Len(q) |->
             IF n = 0 THEN <<>>
             ELSE IF Marked(q[n]) THEN Append(f[n - 1], q[n].tag) ELSE f[n - 1]]
           F == CHOOSE f : f = Step(f)
<1>1. PICK f : IsTags(f, q)
  BY TagsExist
<1>2. f = Step(f)
  <2>1. \A n \in 0..Len(q) : f[n] = Step(f)[n]
    BY <1>1, SMTT(30) DEF IsTags, Tagged
  <2>2. f = [n \in 0..Len(q) |-> f[n]]
    BY <1>1 DEF IsTags
  <2>3. [n \in 0..Len(q) |-> f[n]] = Step(f)
    BY <2>1, SMTT(30)
  <2> QED
    BY <2>2, <2>3, SMTT(30)
<1>3. F = Step(F)
  BY <1>2
<1>4. Tags(q) = F[Len(q)]
  BY DEF Tags
<1> HIDE DEF F
<1>5. Len(q) \in Nat
  OBVIOUS
<1>6. IsTags(F, q)
  <2>1. F = [n \in 0..Len(q) |-> F[n]] /\ F[0] = <<>>
    BY <1>3, <1>5
  <2>2. ASSUME NEW n \in 1..Len(q)
        PROVE  F[n] = Tagged(F[n - 1], q[n])
    <3>1. n \in 0..Len(q) /\ n # 0
      BY <1>5
    <3>2. F[n] = Step(F)[n]
      BY <1>3
    <3> QED
      BY <3>1, <3>2 DEF Tagged
  <2> QED
    BY <2>1, <2>2 DEF IsTags
<1> QED
  BY <1>4, <1>6

(* Sequences that agree up to n have the same tags up to n. *)
LEMMA TagsAgree ==
  ASSUME NEW V, NEW q \in Seq(V), NEW r \in Seq(V), NEW f, NEW g,
         IsTags(f, q), IsTags(g, r), NEW n \in Nat, n <= Len(q), n <= Len(r),
         \A i \in 1..n : q[i] = r[i]
  PROVE  f[n] = g[n]
<1> DEFINE P == {k \in 0..n : f[k] = g[k]}
<1>1. 0 \in P
  BY DEF IsTags
<1>2. ASSUME NEW k \in 0..(n - 1), k \in P PROVE k + 1 \in P
  <2>1. k + 1 \in 1..Len(q) /\ k + 1 \in 1..Len(r) /\ (k + 1) - 1 = k /\ k + 1 \in 1..n
    OBVIOUS
  <2>2. f[k + 1] = Tagged(f[k], q[k + 1])
    BY <2>1 DEF IsTags
  <2>3. g[k + 1] = Tagged(g[k], r[k + 1])
    BY <2>1 DEF IsTags
  <2>4. f[k] = g[k] /\ q[k + 1] = r[k + 1] /\ k + 1 \in 0..n
    BY <1>2, <2>1
  <2>5. f[k + 1] = g[k + 1]
    BY <2>2, <2>3, <2>4
  <2> QED
    BY <2>4, <2>5
<1> HIDE DEF P
<1>3. \A k \in 0..n : k \in P
  BY <1>1, <1>2, UpTo
<1>4. n \in 0..n
  OBVIOUS
<1> QED
  BY <1>3, <1>4 DEF P

(* No command, no callers. *)
LEMMA TagsEmpty == Tags(<<>>) = <<>>
<1>1. <<>> \in Seq(Tag) /\ Len(<<>>) = 0
  OBVIOUS
<1>2. PICK f : IsTags(f, <<>>) /\ Tags(<<>>) = f[Len(<<>>)]
  BY <1>1, TagsAre
<1> QED
  BY <1>1, <1>2 DEF IsTags

(* One command more, one caller more if it is a PING. *)
LEMMA TagsAppend ==
  ASSUME NEW V, NEW q \in Seq(V), NEW e \in V
  PROVE  Tags(Append(q, e)) = Tagged(Tags(q), e)
<1> DEFINE r == Append(q, e)
<1>1. r \in Seq(V) /\ Len(r) = Len(q) + 1 /\ r[Len(r)] = e /\ Len(q) \in Nat
      /\ \A i \in 1..Len(q) : q[i] = r[i]
  OBVIOUS
<1> HIDE DEF r
<1>2. PICK f : IsTags(f, q) /\ Tags(q) = f[Len(q)]
  BY TagsAre
<1>3. PICK g : IsTags(g, r) /\ Tags(r) = g[Len(r)]
  BY <1>1, TagsAre
<1>4. f[Len(q)] = g[Len(q)]
  BY <1>1, <1>2, <1>3, TagsAgree
<1>5. Len(r) \in 1..Len(r) /\ Len(r) - 1 = Len(q)
  BY <1>1
<1>6. g[Len(r)] = Tagged(g[Len(r) - 1], r[Len(r)])
  BY <1>3, <1>5 DEF IsTags
<1>7. g[Len(r)] = Tagged(f[Len(q)], e)
  BY <1>1, <1>4, <1>5, <1>6
<1> QED
  BY <1>2, <1>3, <1>7 DEF r

(* A set of elements that carry tags. *)
Tagging(V) == \A e \in V : e.tag \in Tag

(* Commands and frames do. *)
LEMMA Taggings == Tagging(Command) /\ Tagging(Frame)
BY DEF Tagging, Command, Frame

(* A non-empty sequence, as what precedes its last element and that. *)
LEMMA FrontLast ==
  ASSUME NEW V, NEW b \in Seq(V), b # <<>>
  PROVE  \E front \in Seq(V), e \in V :
           b = Append(front, e) /\ Len(front) = Len(b) - 1 
<1> DEFINE front == [i \in 1..(Len(b) - 1) |-> b[i]]
<1>1. Len(b) \in Nat /\ Len(b) # 0 /\ Len(b) - 1 \in Nat
  OBVIOUS
<1>2. front \in Seq(V) /\ Len(front) = Len(b) - 1 /\ b[Len(b)] \in V
  BY <1>1
<1>3. \A i \in 1..Len(front) : front[i] = b[i]
  BY <1>1, <1>2
<1> HIDE DEF front
<1>4. /\ Append(front, b[Len(b)]) \in Seq(V) /\ Len(Append(front, b[Len(b)])) = Len(b)
      /\ \A i \in 1..Len(b) : Append(front, b[Len(b)])[i] = b[i]
  <2>1. \A v \in V : /\ Append(front, v) \in Seq(V) /\ Len(Append(front, v)) = Len(front) + 1
                     /\ \A i \in 1..Len(front) : Append(front, v)[i] = front[i]
                     /\ Append(front, v)[Len(front) + 1] = v
    BY <1>2
  <2>2. \A i \in 1..Len(b) : i \in 1..Len(front) \/ i = Len(front) + 1
    BY <1>1, <1>2
  <2> QED
    BY <1>1, <1>2, <1>3, <2>1, <2>2
<1>5. b = Append(front, b[Len(b)])
  BY <1>1, <1>4
<1>6. front \in Seq(V) /\ b[Len(b)] \in V /\ Len(front) = Len(b) - 1
  BY <1>2
<1> QED
  BY <1>5, <1>6

(* Appending to the second of two sequences. *)
LEMMA AppendConcat ==
  ASSUME NEW V, NEW a \in Seq(V), NEW b \in Seq(V), NEW e \in V
  PROVE  a \o Append(b, e) = Append(a \o b, e)
OBVIOUS

(* The callers of two sequences, one after the other; their types. *)
LEMMA TagsConcat ==
  ASSUME NEW V, Tagging(V), NEW a \in Seq(V), NEW b \in Seq(V)
  PROVE  Tags(b) \in Seq(Tag) /\ Tags(a \o b) = Tags(a) \o Tags(b)
<1> DEFINE T == {n \in Nat : \E c \in Seq(V) : Len(c) = n /\ Tags(c) \notin Seq(Tag)}
           U == {n \in Nat : \E c \in Seq(V) : Len(c) = n /\ Tags(a \o c) # Tags(a) \o Tags(c)}
<1>1. \A c \in Seq(V) : Tags(c) \in Seq(Tag)
  <2>1. SUFFICES ASSUME T # {} PROVE FALSE
    <3>1. ASSUME NEW c \in Seq(V), Tags(c) \notin Seq(Tag) PROVE Len(c) \in T
      BY <3>1
    <3> QED
      BY <3>1
  <2>2. PICK n \in T : \A m \in T : n <= m
    BY <2>1, LeastNat
  <2>3. PICK c \in Seq(V) : Len(c) = n /\ Tags(c) \notin Seq(Tag)
    OBVIOUS
  <2>4. c # <<>>
    BY <2>3, TagsEmpty
  <2>5. PICK d \in Seq(V), e \in V : c = Append(d, e) /\ Len(d) = Len(c) - 1
    BY <2>4, FrontLast
  <2>6. Len(d) \notin T
    BY <2>2, <2>3, <2>5
  <2>7. Tags(d) \in Seq(Tag)
    BY <2>6
  <2>8. Tags(c) = Tagged(Tags(d), e)
    BY <2>5, TagsAppend
  <2>9. e.tag \in Tag
    BY DEF Tagging
  <2> QED
    BY <2>3, <2>7, <2>8, <2>9 DEF Tagged
<1> HIDE DEF T
<1>2. \A c \in Seq(V) : Tags(a \o c) = Tags(a) \o Tags(c)
  <2>1. SUFFICES ASSUME U # {} PROVE FALSE
    <3>1. ASSUME NEW c \in Seq(V), Tags(a \o c) # Tags(a) \o Tags(c) PROVE Len(c) \in U
      BY <3>1
    <3> QED
      BY <3>1
  <2>2. PICK n \in U : \A m \in U : n <= m
    BY <2>1, LeastNat
  <2>3. PICK c \in Seq(V) : Len(c) = n /\ Tags(a \o c) # Tags(a) \o Tags(c)
    OBVIOUS
  <2>4. c # <<>>
    <3>1. a \o <<>> = a /\ Tags(a) \o <<>> = Tags(a)
      BY <1>1
    <3> QED
      BY <2>3, <3>1, TagsEmpty
  <2>5. PICK d \in Seq(V), e \in V : c = Append(d, e) /\ Len(d) = Len(c) - 1
    BY <2>4, FrontLast
  <2>6. Len(d) \notin U
    BY <2>2, <2>3, <2>5
  <2>7. Tags(a \o d) = Tags(a) \o Tags(d)
    BY <2>6
  <2>8. a \o c = Append(a \o d, e) /\ a \o d \in Seq(V)
    <3>1. a \o Append(d, e) = Append(a \o d, e)
      BY AppendConcat, SMTT(30)
    <3> QED
      BY <2>5, <3>1
  <2>9. Tags(a \o c) = Tagged(Tags(a) \o Tags(d), e) /\ Tags(c) = Tagged(Tags(d), e)
    BY <2>5, <2>7, <2>8, TagsAppend
  <2>10. Tags(a) \in Seq(Tag) /\ Tags(d) \in Seq(Tag) /\ e.tag \in Tag
    BY <1>1 DEF Tagging
  <2>11. Tags(a) \o Append(Tags(d), e.tag) = Append(Tags(a) \o Tags(d), e.tag)
    BY <2>10, AppendConcat, SMTT(30)
  <2> QED
    BY <2>3, <2>9, <2>10, <2>11 DEF Tagged
<1> QED
  BY <1>1, <1>2

(* A sequence without PINGs and PONGs has no callers. *)
LEMMA TagsNone ==
  ASSUME NEW V, NEW q \in Seq(V), \A i \in 1..Len(q) : ~Marked(q[i])
  PROVE  Tags(q) = <<>>
<1>1. PICK f : IsTags(f, q) /\ Tags(q) = f[Len(q)]
  BY TagsAre
<1> DEFINE P == {n \in 0..Len(q) : f[n] = <<>>}
<1>2. 0 \in P
  BY <1>1 DEF IsTags
<1>3. ASSUME NEW n \in 0..(Len(q) - 1), n \in P PROVE n + 1 \in P
  <2>1. n + 1 \in 1..Len(q) /\ (n + 1) - 1 = n /\ n + 1 \in 0..Len(q)
    OBVIOUS
  <2>2. f[n + 1] = Tagged(f[n], q[n + 1])
    BY <1>1, <2>1 DEF IsTags
  <2>3. f[n + 1] = f[n] /\ f[n] = <<>>
    BY <1>3, <2>1, <2>2 DEF Tagged
  <2> QED
    BY <2>1, <2>3
<1>4. Len(q) \in Nat /\ Len(q) \in 0..Len(q)
  OBVIOUS
<1> HIDE DEF P
<1>5. \A n \in 0..Len(q) : n \in P
  BY <1>2, <1>3, <1>4, UpTo
<1> QED
  BY <1>1, <1>4, <1>5 DEF P

(* The first element and the rest. *)
LEMMA TagsHead ==
  ASSUME NEW V, Tagging(V), NEW q \in Seq(V), q # <<>>
  PROVE  /\ Marked(Head(q)) => Tags(q) = <<Head(q).tag>> \o Tags(Tail(q))
         /\ ~Marked(Head(q)) => Tags(q) = Tags(Tail(q))
         /\ Tags(Tail(q)) \in Seq(Tag)
<1>1. Head(q) \in V /\ Tail(q) \in Seq(V) /\ <<Head(q)>> \in Seq(V) /\ <<>> \in Seq(V)
  OBVIOUS
<1>2. q = <<Head(q)>> \o Tail(q) /\ <<Head(q)>> = Append(<<>>, Head(q))
  OBVIOUS
<1>3. Tags(q) = Tags(<<Head(q)>>) \o Tags(Tail(q)) /\ Tags(Tail(q)) \in Seq(Tag)
  BY <1>1, <1>2, TagsConcat
<1>4. Tags(<<Head(q)>>) = Tagged(<<>>, Head(q))
  BY <1>1, <1>2, TagsAppend, TagsEmpty
<1>5. <<>> \o Tags(Tail(q)) = Tags(Tail(q))
  BY <1>3
<1>6. Append(<<>>, Head(q).tag) = <<Head(q).tag>>
  OBVIOUS
<1> QED
  BY <1>3, <1>4, <1>5, <1>6 DEF Tagged

-----------------------------------------------------------------------------
(* Callers and publications, as sets.                                      *)

(* The callers and the publications of a sequence of commands, as sets;    *)
(* and what precedes each of them.                                         *)
Marks(q) == {q[i].tag : i \in {j \in 1..Len(q) : Marked(q[j])}}
PubsBefore(q, n) == {q[j].sid : j \in {k \in 1..(n - 1) : q[k].op = "PUB"}}
Pubs(q) == PubsBefore(q, Len(q) + 1)

(* Each PING of q has what its caller is owed (o) in S or ahead of it.     *)
Covered(o, S, q) ==
  \A i \in 1..Len(q) :
    q[i].op = "PING" => o[q[i].tag] \subseteq S \cup PubsBefore(q, i)

(* What it means to be one of these callers and publications. *)
LEMMA MarksHas ==
  ASSUME NEW q, NEW x
  PROVE  x \in Marks(q) <=> \E i \in 1..Len(q) : Marked(q[i]) /\ x = q[i].tag
BY DEF Marks

(* The same for publications. *)
LEMMA PubsHas ==
  ASSUME NEW q, NEW n, NEW x
  PROVE  x \in PubsBefore(q, n) <=> \E i \in 1..(n - 1) : q[i].op = "PUB" /\ x = q[i].sid
BY DEF PubsBefore

(* The elements of two sequences, one after the other. *)
LEMMA ConcatAt ==
  ASSUME NEW V, NEW a \in Seq(V), NEW b \in Seq(V)
  PROVE  /\ a \o b \in Seq(V) /\ Len(a \o b) = Len(a) + Len(b)
         /\ Len(a) \in Nat /\ Len(b) \in Nat
         /\ \A i \in 1..Len(a) : (a \o b)[i] = a[i]
         /\ \A i \in 1..Len(b) : (a \o b)[Len(a) + i] = b[i]
         /\ \A i \in 1..Len(a \o b) :
              i \in 1..Len(a) \/ \E j \in 1..Len(b) : i = Len(a) + j
<1>1. /\ a \o b \in Seq(V) /\ Len(a \o b) = Len(a) + Len(b)
      /\ Len(a) \in Nat /\ Len(b) \in Nat
      /\ \A i \in 1..Len(a) : (a \o b)[i] = a[i]
      /\ \A i \in 1..Len(b) : (a \o b)[Len(a) + i] = b[i]
  OBVIOUS
<1>2. ASSUME NEW i \in 1..(Len(a) + Len(b)), i \notin 1..Len(a)
      PROVE  i - Len(a) \in 1..Len(b) /\ i = Len(a) + (i - Len(a))
  BY <1>1, <1>2
<1> QED
  BY <1>1, <1>2

(* The callers of both. *)
LEMMA MarksConcat ==
  ASSUME NEW V, NEW a \in Seq(V), NEW b \in Seq(V)
  PROVE  Marks(a \o b) = Marks(a) \cup Marks(b)
<1> DEFINE c == a \o b
<1>1. /\ Len(c) = Len(a) + Len(b) /\ Len(a) \in Nat /\ Len(b) \in Nat
      /\ \A i \in 1..Len(a) : c[i] = a[i]
      /\ \A i \in 1..Len(b) : c[Len(a) + i] = b[i]
      /\ \A i \in 1..Len(c) : i \in 1..Len(a) \/ \E j \in 1..Len(b) : i = Len(a) + j
  BY ConcatAt
<1> HIDE DEF c
<1>2. \A i \in 1..Len(a) : i \in 1..Len(c)
  BY <1>1
<1>3. \A i \in 1..Len(b) : Len(a) + i \in 1..Len(c)
  BY <1>1
<1>4. Marks(c) \subseteq Marks(a) \cup Marks(b)
  <2>1. ASSUME NEW i \in 1..Len(c), Marked(c[i])
        PROVE  c[i].tag \in Marks(a) \cup Marks(b)
    <3>1. CASE i \in 1..Len(a)
      BY <1>1, <2>1, <3>1, MarksHas
    <3>2. ASSUME NEW j \in 1..Len(b), i = Len(a) + j
          PROVE  c[i].tag \in Marks(b)
      <4>1. c[i] = b[j]
        BY <1>1, <3>2
      <4> QED
        BY <2>1, <4>1, MarksHas
    <3> QED
      BY <1>1, <3>1, <3>2
  <2> QED
    BY <2>1, MarksHas
<1>5. Marks(a) \subseteq Marks(c)
  BY <1>1, <1>2 DEF Marks
<1>6. Marks(b) \subseteq Marks(c)
  BY <1>1, <1>3 DEF Marks
<1> QED
  BY <1>4, <1>5, <1>6 DEF c

(* What precedes an element of the first, and of the second, sequence. *)
LEMMA PubsConcat ==
  ASSUME NEW V, NEW a \in Seq(V), NEW b \in Seq(V)
  PROVE  /\ \A n \in 1..(Len(a) + 1) : PubsBefore(a \o b, n) = PubsBefore(a, n)
         /\ \A n \in 1..(Len(b) + 1) :
              PubsBefore(a \o b, Len(a) + n) = Pubs(a) \cup PubsBefore(b, n)
         /\ Pubs(a \o b) = Pubs(a) \cup Pubs(b)
<1> DEFINE c == a \o b
<1>1. /\ Len(c) = Len(a) + Len(b) /\ Len(a) \in Nat /\ Len(b) \in Nat
      /\ \A i \in 1..Len(a) : c[i] = a[i]
      /\ \A i \in 1..Len(b) : c[Len(a) + i] = b[i]
      /\ \A i \in 1..Len(c) : i \in 1..Len(a) \/ \E j \in 1..Len(b) : i = Len(a) + j
  BY ConcatAt
<1> HIDE DEF c
<1>2. ASSUME NEW n \in 1..(Len(a) + 1)
      PROVE  PubsBefore(c, n) = PubsBefore(a, n)
  <2>1. \A k \in 1..(n - 1) : k \in 1..Len(a)
    BY <1>1
  <2>2. \A k \in 1..(n - 1) : c[k] = a[k]
    BY <1>1, <2>1
  <2> QED
    BY <2>2 DEF PubsBefore
<1>3. ASSUME NEW n \in 1..(Len(b) + 1)
      PROVE  PubsBefore(c, Len(a) + n) = Pubs(a) \cup PubsBefore(b, n)
  <2>1. \A k \in 1..(Len(a) + n - 1) :
          k \in 1..Len(a) \/ \E j \in 1..(n - 1) : k = Len(a) + j
    <3>1. ASSUME NEW k \in 1..(Len(a) + n - 1), k \notin 1..Len(a)
          PROVE  k - Len(a) \in 1..(n - 1) /\ k = Len(a) + (k - Len(a))
      BY <1>1, <3>1
    <3> QED
      BY <3>1
  <2>2. \A j \in 1..(n - 1) : j \in 1..Len(b) /\ Len(a) + j \in 1..(Len(a) + n - 1)
    BY <1>1
  <2>3. \A j \in 1..Len(a) : j \in 1..(Len(a) + n - 1)
    BY <1>1
  <2>4. \A j \in 1..(n - 1) : c[Len(a) + j] = b[j]
    BY <1>1, <2>2
  <2>5. Pubs(a) = {a[j].sid : j \in {k \in 1..Len(a) : a[k].op = "PUB"}}
    <3>1. 1..(Len(a) + 1 - 1) = 1..Len(a)
      BY <1>1
    <3> QED
      BY <3>1 DEF Pubs, PubsBefore
  <2>6. PubsBefore(c, Len(a) + n) \subseteq Pubs(a) \cup PubsBefore(b, n)
    <3>1. ASSUME NEW i \in 1..(Len(a) + n - 1), c[i].op = "PUB"
          PROVE  c[i].sid \in Pubs(a) \cup PubsBefore(b, n)
      <4>1. CASE i \in 1..Len(a)
        BY <1>1, <2>5, <3>1, <4>1
      <4>2. ASSUME NEW j \in 1..(n - 1), i = Len(a) + j
            PROVE  c[i].sid \in PubsBefore(b, n)
        <5>1. c[i] = b[j]
          BY <2>4, <4>2
        <5> QED
          BY <3>1, <5>1, PubsHas
      <4> QED
        BY <2>1, <4>1, <4>2
    <3> QED
      BY <3>1, PubsHas
  <2>7. Pubs(a) \subseteq PubsBefore(c, Len(a) + n)
    BY <1>1, <2>3, <2>5, PubsHas
  <2>8. PubsBefore(b, n) \subseteq PubsBefore(c, Len(a) + n)
    <3>1. ASSUME NEW j \in 1..(n - 1), b[j].op = "PUB"
          PROVE  b[j].sid \in PubsBefore(c, Len(a) + n)
      <4>1. c[Len(a) + j] = b[j] /\ Len(a) + j \in 1..((Len(a) + n) - 1)
        BY <2>2, <2>4
      <4> QED
        BY <3>1, <4>1, PubsHas
    <3> QED
      BY <3>1, PubsHas
  <2> QED
    BY <2>6, <2>7, <2>8
<1>4. Pubs(c) = Pubs(a) \cup Pubs(b)
  <2>1. Len(b) + 1 \in 1..(Len(b) + 1) /\ Len(c) + 1 = Len(a) + (Len(b) + 1)
    BY <1>1
  <2>2. PubsBefore(c, Len(a) + (Len(b) + 1)) = Pubs(a) \cup PubsBefore(b, Len(b) + 1)
    BY <1>3, <2>1
  <2>3. Pubs(c) = PubsBefore(c, Len(a) + (Len(b) + 1))
    BY <2>1 DEF Pubs
  <2> QED
    BY <2>2, <2>3 DEF Pubs
<1> QED
  BY <1>2, <1>3, <1>4 DEF c

(* The publications of both. *)
LEMMA PubsOfBoth ==
  ASSUME NEW V, NEW a \in Seq(V), NEW b \in Seq(V)
  PROVE  Pubs(a \o b) = Pubs(a) \cup Pubs(b)
BY PubsConcat

(* Two sequences are covered when the first is, and the second with the    *)
(* publications of the first.                                              *)
LEMMA CoveredConcat ==
  ASSUME NEW V, NEW a \in Seq(V), NEW b \in Seq(V), NEW o, NEW S
  PROVE  Covered(o, S, a \o b) <=> Covered(o, S, a) /\ Covered(o, S \cup Pubs(a), b)
<1> DEFINE c == a \o b
<1>1. /\ Len(c) = Len(a) + Len(b) /\ Len(a) \in Nat /\ Len(b) \in Nat
      /\ \A i \in 1..Len(a) : c[i] = a[i]
      /\ \A i \in 1..Len(b) : c[Len(a) + i] = b[i]
      /\ \A i \in 1..Len(c) : i \in 1..Len(a) \/ \E j \in 1..Len(b) : i = Len(a) + j
  BY ConcatAt
<1>2. /\ \A n \in 1..(Len(a) + 1) : PubsBefore(c, n) = PubsBefore(a, n)
      /\ \A n \in 1..(Len(b) + 1) :
           PubsBefore(c, Len(a) + n) = Pubs(a) \cup PubsBefore(b, n)
  BY PubsConcat
<1> HIDE DEF c
<1>3. \A i \in 1..Len(a) : i \in 1..Len(c) /\ PubsBefore(c, i) = PubsBefore(a, i)
  BY <1>1, <1>2
<1>4. \A i \in 1..Len(b) : /\ Len(a) + i \in 1..Len(c)
                          /\ PubsBefore(c, Len(a) + i) = Pubs(a) \cup PubsBefore(b, i)
  <2>1. \A i \in 1..Len(b) : Len(a) + i \in 1..Len(c) /\ i \in 1..(Len(b) + 1)
    BY <1>1
  <2> QED
    BY <1>2, <2>1
<1>5. ASSUME Covered(o, S, c) PROVE Covered(o, S, a)
  BY <1>1, <1>3, <1>5 DEF Covered
<1>6. ASSUME Covered(o, S, c) PROVE Covered(o, S \cup Pubs(a), b)
  <2>1. ASSUME NEW i \in 1..Len(b), b[i].op = "PING"
        PROVE  o[b[i].tag] \subseteq (S \cup Pubs(a)) \cup PubsBefore(b, i)
    <3>1. c[Len(a) + i] = b[i] /\ Len(a) + i \in 1..Len(c)
      BY <1>1, <1>4
    <3>2. o[b[i].tag] \subseteq S \cup PubsBefore(c, Len(a) + i)
      BY <1>6, <2>1, <3>1 DEF Covered
    <3> QED
      BY <1>4, <3>2
  <2> QED
    BY <2>1 DEF Covered
<1>7. ASSUME Covered(o, S, a), Covered(o, S \cup Pubs(a), b) PROVE Covered(o, S, c)
  <2>1. ASSUME NEW i \in 1..Len(c), c[i].op = "PING"
        PROVE  o[c[i].tag] \subseteq S \cup PubsBefore(c, i)
    <3>1. CASE i \in 1..Len(a)
      BY <1>1, <1>3, <1>7, <2>1, <3>1 DEF Covered
    <3>2. ASSUME NEW j \in 1..Len(b), i = Len(a) + j
          PROVE  o[c[i].tag] \subseteq S \cup PubsBefore(c, i)
      <4>1. c[i] = b[j] /\ PubsBefore(c, i) = Pubs(a) \cup PubsBefore(b, j)
        BY <1>1, <1>4, <3>2
      <4>2. o[b[j].tag] \subseteq (S \cup Pubs(a)) \cup PubsBefore(b, j)
        BY <1>7, <2>1, <4>1 DEF Covered
      <4> QED
        BY <4>1, <4>2
    <3> QED
      BY <1>1, <3>1, <3>2
  <2> QED
    BY <2>1 DEF Covered
<1> QED
  BY <1>5, <1>6, <1>7 DEF c

(* More served, and the same owed to the callers of q, keeps it covered. *)
LEMMA CoveredKeeps ==
  ASSUME NEW q, NEW o, NEW p, NEW S, NEW T, Covered(o, S, q), S \subseteq T,
         \A t \in Marks(q) : p[t] = o[t]
  PROVE  Covered(p, T, q)
<1>1. \A i \in 1..Len(q) : q[i].op = "PING" => q[i].tag \in Marks(q)
  BY DEF Marks, Marked
<1> QED
  BY <1>1 DEF Covered

(* A single command. *)
LEMMA Single ==
  ASSUME NEW V, NEW c \in V, NEW o, NEW S
  PROVE  /\ Marks(<<c>>) = IF Marked(c) THEN {c.tag} ELSE {}
         /\ Pubs(<<c>>) = IF c.op = "PUB" THEN {c.sid} ELSE {}
         /\ Covered(o, S, <<c>>) <=> (c.op = "PING" => o[c.tag] \subseteq S)
         /\ Tags(<<c>>) = IF Marked(c) THEN <<c.tag>> ELSE <<>>
<1>1. Len(<<c>>) = 1 /\ <<c>>[1] = c /\ 1..1 = {1} /\ Len(<<c>>) + 1 = 2 /\ 1..(2 - 1) = {1}
      /\ 1..(1 - 1) = {}
  OBVIOUS
<1>2. Marks(<<c>>) = IF Marked(c) THEN {c.tag} ELSE {}
  BY <1>1 DEF Marks
<1>3. Pubs(<<c>>) = IF c.op = "PUB" THEN {c.sid} ELSE {}
  BY <1>1 DEF Pubs, PubsBefore
<1>4. PubsBefore(<<c>>, 1) = {}
  BY <1>1 DEF PubsBefore
<1>5. Covered(o, S, <<c>>) <=> (c.op = "PING" => o[c.tag] \subseteq S)
  BY <1>1, <1>4 DEF Covered
<1>6. <<>> \in Seq(V) /\ <<c>> = Append(<<>>, c)
  OBVIOUS
<1>7. Tags(<<c>>) = Tagged(<<>>, c)
  BY <1>6, TagsAppend, TagsEmpty
<1>8. Append(<<>>, c.tag) = <<c.tag>>
  OBVIOUS
<1> QED
  BY <1>2, <1>3, <1>5, <1>7, <1>8 DEF Tagged

(* The server takes the first command. *)
LEMMA First ==
  ASSUME NEW V, NEW q \in Seq(V), q # <<>>, NEW o, NEW S
  PROVE  /\ Marks(Tail(q)) \subseteq Marks(q)
         /\ Marked(Head(q)) => Head(q).tag \in Marks(q)
         /\ Pubs(q) = Pubs(<<Head(q)>>) \cup Pubs(Tail(q))
         /\ Covered(o, S, q) => /\ Covered(o, S \cup Pubs(<<Head(q)>>), Tail(q))
                                /\ Head(q).op = "PING" => o[Head(q).tag] \subseteq S
<1> DEFINE h == Head(q)
           r == Tail(q)
<1>1. h \in V /\ r \in Seq(V) /\ <<h>> \in Seq(V) /\ q = <<h>> \o r
  OBVIOUS
<1> HIDE DEF h, r
<1>2. Marks(q) = Marks(<<h>>) \cup Marks(r)
  BY <1>1, MarksConcat, ZenonT(40)
<1>3. Pubs(q) = Pubs(<<h>>) \cup Pubs(r)
  <2>1. Pubs(<<h>> \o r) = Pubs(<<h>>) \cup Pubs(r)
    BY <1>1, PubsOfBoth, ZenonT(40)
  <2> QED
    BY <1>1, <2>1
<1>4. Covered(o, S, q) => Covered(o, S, <<h>>) /\ Covered(o, S \cup Pubs(<<h>>), r)
  BY <1>1, CoveredConcat
<1>5. /\ Marks(<<h>>) = IF Marked(h) THEN {h.tag} ELSE {}
      /\ Covered(o, S, <<h>>) <=> (h.op = "PING" => o[h.tag] \subseteq S)
  BY <1>1, Single
<1> QED
  BY <1>2, <1>3, <1>4, <1>5 DEF h, r

-----------------------------------------------------------------------------
(* What the handlers write.                                                *)

(* The fields of the commands. *)
LEMMA Ops ==
  /\ \A s : SUB(s).op = "SUB"
  /\ \A s, m : UNSUB(s, m).op = "UNSUB"
  /\ \A p : PUB(p).op = "PUB" /\ PUB(p).sid = p
  /\ \A t : PING(t).op = "PING" /\ PING(t).tag = t
  /\ \A t : PONG(t).op = "PONG" /\ PONG(t).tag = t
  /\ \A s : MSG(s).op = "MSG" /\ MSG(s).sid = s
  /\ INFO.op = "INFO"
BY DEF SUB, UNSUB, PUB, PING, PONG, MSG, INFO

(* SUBs and UNSUBs have no callers and publish nothing. *)
LEMMA Plain ==
  ASSUME NEW V, NEW q \in Seq(V), \A i \in 1..Len(q) : q[i].op \in {"SUB", "UNSUB"},
         NEW o, NEW S
  PROVE  Tags(q) = <<>> /\ Marks(q) = {} /\ Pubs(q) = {} /\ Covered(o, S, q)
<1>1. \A i \in 1..Len(q) : ~Marked(q[i]) /\ q[i].op # "PUB" /\ q[i].op # "PING"
  BY DEF Marked
<1>2. Tags(q) = <<>>
  BY <1>1, TagsNone
<1>3. Marks(q) = {}
  BY <1>1 DEF Marks
<1>4. Covered(o, S, q)
  BY <1>1 DEF Covered
<1>5. Pubs(q) = {}
  <2>1. Len(q) \in Nat
    OBVIOUS
  <2>2. 1..(Len(q) + 1 - 1) = 1..Len(q)
    BY <2>1
  <2> QED
    BY <1>1, <2>2 DEF Pubs, PubsBefore
<1> QED
  BY <1>2, <1>3, <1>4, <1>5

(* The callers that wait for the drains of q. *)
Drainers(q) == [i \in 1..Len(q) |-> DrainOf(q[i])]

(* One subscription more to drain. *)
LEMMA drainCmdsAppend ==
  ASSUME NEW q \in Seq(Sid), NEW s \in Sid
  PROVE  drainCmds(Append(q, s)) =
           Append(Append(drainCmds(q), UNSUB(s, 0)), PING(DrainOf(s)))
<1> DEFINE r == Append(q, s)
           a == drainCmds(r)
           d == drainCmds(q)
           b == Append(Append(d, UNSUB(s, 0)), PING(DrainOf(s)))
<1>1. /\ r \in Seq(Sid) /\ Len(r) = Len(q) + 1 /\ Len(q) \in Nat
      /\ \A i \in 1..Len(q) : r[i] = q[i]
      /\ r[Len(q) + 1] = s
  OBVIOUS
<1>2. d \in Seq(Command) /\ a \in Seq(Command)
  BY <1>1, drainCmdsType
<1>3. UNSUB(s, 0) \in Command /\ PING(DrainOf(s)) \in Command
  BY CommandType, PingType, TagType DEF Sid
<1>4. DOMAIN d = 1..(2 * Len(q)) /\ DOMAIN a = 1..(2 * Len(r))
  BY DEF drainCmds
<1>5. Len(d) = 2 * Len(q) /\ Len(a) = 2 * Len(q) + 2
  BY <1>1, <1>2, <1>4
<1>6. /\ \A i \in 1..(2 * Len(q)) :
           d[i] = IF i % 2 = 1 THEN UNSUB(q[(i + 1) \div 2], 0) ELSE PING(DrainOf(q[i \div 2]))
      /\ \A i \in 1..(2 * Len(r)) :
           a[i] = IF i % 2 = 1 THEN UNSUB(r[(i + 1) \div 2], 0) ELSE PING(DrainOf(r[i \div 2]))
  BY DEF drainCmds
<1>7. /\ b \in Seq(Command) /\ Len(b) = 2 * Len(q) + 2
      /\ \A i \in 1..(2 * Len(q)) : b[i] = d[i]
      /\ b[2 * Len(q) + 1] = UNSUB(s, 0)
      /\ b[2 * Len(q) + 2] = PING(DrainOf(s))
  <2>1. \A u, v \in Command :
           /\ Append(Append(d, u), v) \in Seq(Command)
           /\ Len(Append(Append(d, u), v)) = Len(d) + 2
           /\ \A i \in 1..Len(d) : Append(Append(d, u), v)[i] = d[i]
           /\ Append(Append(d, u), v)[Len(d) + 1] = u
           /\ Append(Append(d, u), v)[Len(d) + 2] = v
    <3> HIDE DEF d
    <3> QED
      BY <1>2
  <2> HIDE DEF d
  <2> QED
    BY <1>3, <1>5, <2>1
<1> HIDE DEF a, b, d, r
<1>8. \A i \in 1..(2 * Len(q)) : a[i] = d[i]
  <2>1. ASSUME NEW i \in 1..(2 * Len(q))
        PROVE  a[i] = d[i]
    <3>1. i \in 1..(2 * Len(r))
      BY <1>1
    <3>2. CASE i % 2 = 1
      <4>1. (i + 1) \div 2 \in 1..Len(q)
        BY <1>1, <3>2
      <4> QED
        BY <1>1, <1>6, <3>1, <3>2, <4>1
    <3>3. CASE i % 2 # 1
      <4>1. i \div 2 \in 1..Len(q)
        BY <1>1, <3>3
      <4> QED
        BY <1>1, <1>6, <3>1, <3>3, <4>1
    <3> QED
      BY <3>2, <3>3
  <2> QED
    BY <2>1
<1>9. a[2 * Len(q) + 1] = UNSUB(s, 0)
  <2>1. /\ 2 * Len(q) + 1 \in 1..(2 * Len(r)) /\ (2 * Len(q) + 1) % 2 = 1
        /\ ((2 * Len(q) + 1) + 1) \div 2 = Len(q) + 1
    BY <1>1
  <2> QED
    BY <1>1, <1>6, <2>1
<1>10. a[2 * Len(q) + 2] = PING(DrainOf(s))
  <2>1. /\ 2 * Len(q) + 2 \in 1..(2 * Len(r)) /\ (2 * Len(q) + 2) % 2 # 1
        /\ (2 * Len(q) + 2) \div 2 = Len(q) + 1
    BY <1>1
  <2> QED
    BY <1>1, <1>6, <2>1
<1>11. \A i \in 1..Len(a) : i \in 1..(2 * Len(q)) \/ i = 2 * Len(q) + 1 \/ i = 2 * Len(q) + 2
  BY <1>1, <1>5
<1>12. \A i \in 1..Len(a) : a[i] = b[i]
  BY <1>7, <1>8, <1>9, <1>10, <1>11
<1>13. a = b
  BY <1>2, <1>5, <1>7, <1>12
<1> QED
  BY <1>13 DEF a, b, d, r

(* What drains write: one caller each, in order, and nothing published. *)
LEMMA drainCmdsFacts ==
  ASSUME NEW q \in Seq(Sid)
  PROVE  /\ Tags(drainCmds(q)) = Drainers(q)
         /\ \A t \in Marks(drainCmds(q)) : \E i \in 1..Len(q) : t = DrainOf(q[i])
         /\ \A i \in 1..Len(q) : DrainOf(q[i]) \in Marks(drainCmds(q))
         /\ Pubs(drainCmds(q)) = {}
<1>1. drainCmds(q) \in Seq(Command) /\ Len(drainCmds(q)) = 2 * Len(q) /\ Len(q) \in Nat
  <2>1. drainCmds(q) \in Seq(Command) /\ DOMAIN drainCmds(q) = 1..(2 * Len(q))
    BY drainCmdsType DEF drainCmds
  <2> HIDE DEF drainCmds
  <2> QED
    BY <2>1
<1>2. \A i \in 1..(2 * Len(q)) :
        drainCmds(q)[i] = IF i % 2 = 1 THEN UNSUB(q[(i + 1) \div 2], 0)
                                       ELSE PING(DrainOf(q[i \div 2]))
  BY DEF drainCmds
<1>3. ASSUME NEW t \in Marks(drainCmds(q))
      PROVE  \E i \in 1..Len(q) : t = DrainOf(q[i])
  <2>1. PICK i \in 1..(2 * Len(q)) : Marked(drainCmds(q)[i]) /\ t = drainCmds(q)[i].tag
    BY <1>1, MarksHas
  <2>2. i % 2 # 1
    <3>1. i % 2 = 1 => drainCmds(q)[i].op = "UNSUB"
      BY <1>2, Ops
    <3> QED
      BY <2>1, <3>1 DEF Marked
  <2>3. t = DrainOf(q[i \div 2])
    BY <1>2, <2>1, <2>2, Ops
  <2>4. i \div 2 \in 1..Len(q)
    BY <1>1, <2>2
  <2> QED
    BY <2>3, <2>4
<1>4. Pubs(drainCmds(q)) = {}
  <2>1. ASSUME NEW i \in 1..((Len(drainCmds(q)) + 1) - 1)
        PROVE  drainCmds(q)[i].op # "PUB"
    <3>1. i \in 1..(2 * Len(q))
      BY <1>1
    <3> QED
      BY <1>2, <3>1, Ops
  <2> QED
    BY <2>1, PubsHas DEF Pubs
<1>5. Tags(drainCmds(q)) = Drainers(q)
  <2> DEFINE U == {n \in Nat : \E c \in Seq(Sid) :
                     Len(c) = n /\ Tags(drainCmds(c)) # Drainers(c)}
  <2>1. SUFFICES ASSUME U # {} PROVE FALSE
    BY <1>1
  <2>2. PICK n \in U : \A m \in U : n <= m
    BY <2>1, LeastNat
  <2>3. PICK c \in Seq(Sid) : Len(c) = n /\ Tags(drainCmds(c)) # Drainers(c)
    OBVIOUS
  <2>4. c # <<>>
    <3>1. drainCmds(<<>>) = <<>> /\ Drainers(<<>>) = <<>>
      BY DEF drainCmds, Drainers
    <3> QED
      BY <2>3, <3>1, TagsEmpty
  <2>5. PICK d \in Seq(Sid), s \in Sid : c = Append(d, s) /\ Len(d) = Len(c) - 1
    BY <2>4, FrontLast
  <2>6. Len(d) \notin U
    BY <2>2, <2>3, <2>5
  <2>7. Tags(drainCmds(d)) = Drainers(d)
    BY <2>6
  <2> HIDE DEF U
  <2>8. drainCmds(c) = Append(Append(drainCmds(d), UNSUB(s, 0)), PING(DrainOf(s)))
    BY <2>5, drainCmdsAppend
  <2>9. /\ UNSUB(s, 0) \in Command /\ PING(DrainOf(s)) \in Command
        /\ drainCmds(d) \in Seq(Command)
    BY CommandType, PingType, TagType, drainCmdsType DEF Sid
  <2>10. Append(drainCmds(d), UNSUB(s, 0)) \in Seq(Command)
    BY <2>9
  <2>11. Tags(drainCmds(c)) = Tagged(Tagged(Tags(drainCmds(d)), UNSUB(s, 0)), PING(DrainOf(s)))
    BY <2>8, <2>9, <2>10, TagsAppend
  <2>12. Tags(drainCmds(c)) = Append(Drainers(d), DrainOf(s))
    BY <2>7, <2>11, Ops DEF Tagged, Marked
  <2>13. Drainers(c) = Append(Drainers(d), DrainOf(s))
    <3>1. /\ Len(c) = Len(d) + 1 /\ Len(d) \in Nat /\ c[Len(d) + 1] = s
          /\ \A i \in 1..Len(d) : c[i] = d[i]
      BY <2>5
    <3>2. /\ Drainers(d) \in Seq(Tag) /\ Drainers(c) \in Seq(Tag) /\ DrainOf(s) \in Tag
      BY TagType DEF Drainers
    <3>3. Len(Drainers(d)) = Len(d) /\ Len(Drainers(c)) = Len(c)
      BY DEF Drainers
    <3>4. \A i \in 1..Len(c) : Drainers(c)[i] = DrainOf(c[i])
      BY DEF Drainers
    <3>5. \A i \in 1..Len(d) : Drainers(d)[i] = DrainOf(d[i])
      BY DEF Drainers
    <3>6. \A i \in 1..Len(c) : i \in 1..Len(d) \/ i = Len(d) + 1
      BY <3>1
    <3>7. /\ Append(Drainers(d), DrainOf(s)) \in Seq(Tag)
          /\ Len(Append(Drainers(d), DrainOf(s))) = Len(Drainers(d)) + 1
          /\ \A i \in 1..Len(Drainers(d)) : Append(Drainers(d), DrainOf(s))[i] = Drainers(d)[i]
          /\ Append(Drainers(d), DrainOf(s))[Len(Drainers(d)) + 1] = DrainOf(s)
      BY <3>2
    <3>8. \A i \in 1..Len(c) : Drainers(c)[i] = Append(Drainers(d), DrainOf(s))[i]
      BY <3>1, <3>3, <3>4, <3>5, <3>6, <3>7
    <3> QED
      BY <3>1, <3>2, <3>3, <3>7, <3>8
  <2> QED
    BY <2>3, <2>12, <2>13
<1>6. ASSUME NEW i \in 1..Len(q)
      PROVE  DrainOf(q[i]) \in Marks(drainCmds(q))
  <2>1. 2 * i \in 1..(2 * Len(q)) /\ (2 * i) % 2 # 1 /\ (2 * i) \div 2 = i
    BY <1>1
  <2>2. drainCmds(q)[2 * i] = PING(DrainOf(q[i]))
    BY <1>2, <2>1
  <2>3. Marked(drainCmds(q)[2 * i]) /\ drainCmds(q)[2 * i].tag = DrainOf(q[i])
    BY <2>2, Ops DEF Marked
  <2> QED
    BY <1>1, <2>1, <2>3, MarksHas
<1> QED
  BY <1>3, <1>4, <1>5, <1>6

(* The commands of this connection that the server has yet to process, or  *)
(* that wait for the dial under way to write them.                         *)
Written == c2s \o outbound
Kept == transport \in {"connecting", "open"}

(* An io value holds what the handler started from and then cmds; a        *)
(* transport that no longer sends is left alone.                           *)
Wrote(io, cmds) ==
  /\ Kept => io.wire \o io.out = Written \o cmds
  /\ transport # "open" => io.wire = c2s

(* Nothing is flushed while a transport connects. *)
NoInfoYet == transport = "connecting" => ~infoReceived

(* Three sequences, one after the other. *)
LEMMA ConcatAssoc ==
  ASSUME NEW V, NEW a \in Seq(V), NEW b \in Seq(V), NEW c \in Seq(V)
  PROVE  a \o (b \o c) = (a \o b) \o c
OBVIOUS

(* What is written is a sequence of commands. *)
LEMMA WrittenType == TypeOK => Written \in Seq(Command)
BY DEF TypeOK, Written

(* The handlers start with nothing written. *)
LEMMA IOWrote ==
  ASSUME TypeOK
  PROVE  IO \in IOType /\ Wrote(IO, <<>>)
<1>1. Written \o <<>> = Written
  BY WrittenType
<1> QED
  BY <1>1, IOTyped DEF Wrote, IO, Written

(* One command more in the buffer. *)
LEMMA Filled ==
  ASSUME TypeOK, NEW io \in IOType, NEW cmds \in Seq(Command), Wrote(io, cmds),
         NEW more \in Seq(Command), NEW b \in BOOLEAN
  PROVE  LET filled == [io EXCEPT !.out = @ \o more, !.queued = b]
         IN  filled \in IOType /\ Wrote(filled, cmds \o more)
<1> DEFINE filled == [io EXCEPT !.out = @ \o more, !.queued = b]
<1>1. io.out \in Seq(Command) /\ io.wire \in Seq(Command)
  BY IOParts
<1>2. io.out \o more \in Seq(Command)
  BY <1>1
<1>3. \A o \in Seq(Command) :
        /\ [io EXCEPT !.out = o, !.queued = b] \in IOType
        /\ [io EXCEPT !.out = o, !.queued = b].wire = io.wire
        /\ [io EXCEPT !.out = o, !.queued = b].out = o
  BY DEF IOType
<1>4. filled \in IOType /\ filled.wire = io.wire /\ filled.out = io.out \o more
  BY <1>2, <1>3
<1> HIDE DEF filled
<1>5. io.wire \o (io.out \o more) = (io.wire \o io.out) \o more
  <2>1. \A w, o \in Seq(Command) : w \o (o \o more) = (w \o o) \o more
    BY ConcatAssoc
  <2> QED
    BY <1>1, <2>1
<1>6. (Written \o cmds) \o more = Written \o (cmds \o more)
  BY WrittenType
<1>7. Wrote(filled, cmds \o more)
  BY <1>4, <1>5, <1>6 DEF Wrote
<1> QED
  BY <1>4, <1>7 DEF filled

(* flushPending() moves what is written on, and writes nothing itself. *)
LEMMA flushPendingWrote ==
  ASSUME NoInfoYet, NEW io \in IOType, NEW cmds, Wrote(io, cmds)
  PROVE  Wrote(flushPending(io), cmds)
<1>0. io.out \in Seq(Command) /\ io.wire \in Seq(Command)
  BY IOParts
<1>1. CASE infoReceived /\ connected
  <2>1. TransportSend(io, io.out) \in IOType
    BY <1>0, TransportSendType
  <2>2. TransportSend(io, io.out).wire =
          IF transport = "open" THEN io.wire \o io.out ELSE io.wire
    BY DEF TransportSend, IOType
  <2>3. flushPending(io) = [TransportSend(io, io.out) EXCEPT !.out = <<>>]
    BY <1>1 DEF flushPending
  <2>4. /\ flushPending(io).out = <<>>
        /\ flushPending(io).wire = TransportSend(io, io.out).wire
    BY <2>1, <2>3 DEF IOType
  <2>5. CASE transport = "open"
    <3>1. io.wire \o io.out \in Seq(Command)
      BY <1>0
    <3>2. (io.wire \o io.out) \o <<>> = io.wire \o io.out
      BY <3>1
    <3> QED
      BY <2>2, <2>4, <2>5, <3>2 DEF Wrote, Kept
  <2>6. CASE transport # "open"
    <3>1. ~Kept
      BY <1>1, <2>6 DEF Kept, NoInfoYet
    <3> QED
      BY <2>2, <2>4, <2>6, <3>1 DEF Wrote
  <2> QED
    BY <2>5, <2>6
<1>2. CASE ~(infoReceived /\ connected)
  BY <1>2 DEF flushPending
<1> QED
  BY <1>1, <1>2

(* sendCommand() writes its command. *)
LEMMA sendCommandWrote ==
  ASSUME TypeOK, NoInfoYet, NEW io \in IOType, NEW cmds \in Seq(Command), Wrote(io, cmds),
         NEW cmd \in Command
  PROVE  Wrote(sendCommand(io, cmd), cmds \o <<cmd>>)
<1> DEFINE filled == [io EXCEPT !.out = Append(@, cmd)]
           queued == [filled EXCEPT !.queued = TRUE]
<1>1. /\ io.out \in Seq(Command) /\ io.wire \in Seq(Command) /\ <<cmd>> \in Seq(Command)
      /\ io.queued \in BOOLEAN
  BY IOParts
<1>2. Append(io.out, cmd) = io.out \o <<cmd>> /\ Append(io.out, cmd) \in Seq(Command)
  BY <1>1
<1>3. \A o \in Seq(Command) :
        /\ [io EXCEPT !.out = o] \in IOType
        /\ [io EXCEPT !.out = o].wire = io.wire
        /\ [io EXCEPT !.out = o].out = o
  BY DEF IOType
<1>4. filled \in IOType /\ filled.wire = io.wire /\ filled.out = io.out \o <<cmd>>
  BY <1>2, <1>3
<1>5. sendCommand(io, cmd) =
        CASE io.out = <<>> -> queued
          [] io.out # <<>> /\ Len(filled.out) >= PendingLimit -> flushPending(filled)
          [] OTHER -> filled
  BY DEF sendCommand
<1> HIDE DEF filled
<1>6. queued.wire = filled.wire /\ queued.out = filled.out
  BY <1>4 DEF IOType
<1>7. io.wire \o (io.out \o <<cmd>>) = (io.wire \o io.out) \o <<cmd>>
  <2>1. \A w, o \in Seq(Command) : w \o (o \o <<cmd>>) = (w \o o) \o <<cmd>>
    BY <1>1, ConcatAssoc
  <2> QED
    BY <1>1, <2>1
<1>8. (Written \o cmds) \o <<cmd>> = Written \o (cmds \o <<cmd>>)
  BY <1>1, WrittenType
<1>9. Wrote(filled, cmds \o <<cmd>>)
  BY <1>4, <1>7, <1>8 DEF Wrote
<1>10. Wrote(queued, cmds \o <<cmd>>)
  BY <1>6, <1>9 DEF Wrote
<1> HIDE DEF queued
<1>11. Wrote(flushPending(filled), cmds \o <<cmd>>)
  BY <1>4, <1>9, flushPendingWrote
<1> QED
  BY <1>5, <1>9, <1>10, <1>11

(* flush() writes its PING. *)
LEMMA flushPingWrote ==
  ASSUME TypeOK, NoInfoYet, NEW t \in Tag
  PROVE  Wrote(flushPing(IO, t), <<PING(t)>>)
<1> DEFINE filled == [IO EXCEPT !.out = Append(outbound, PING(t))]
<1>1. /\ outbound \in Seq(Command) /\ c2s \in Seq(Command)
      /\ PING(t) \in Command /\ IO \in IOType
  BY PingType, IOTyped DEF TypeOK
<1>2. Append(outbound, PING(t)) \in Seq(Command)
  BY <1>1
<1>3. filled \in IOType
  BY <1>1, <1>2, IOFields
<1>4. filled.wire = c2s /\ filled.out = Append(outbound, PING(t))
  BY DEF IO
<1>5. flushPing(IO, t) = flushPending(filled)
  BY DEF flushPing, IO
<1> HIDE DEF filled
<1>6. c2s \o Append(outbound, PING(t)) = (c2s \o outbound) \o <<PING(t)>>
  BY <1>1
<1>7. Wrote(filled, <<PING(t)>>)
  BY <1>4, <1>6 DEF Wrote, Written
<1> QED
  BY <1>3, <1>5, <1>7, flushPendingWrote

(* unsub() writes an UNSUB, or nothing once closed. *)
LEMMA unsubIOWrote ==
  ASSUME TypeOK, NoInfoYet, NEW s \in Nat, NEW m \in Nat
  PROVE  Wrote(unsubIO(IO, s, m), <<>>) \/ Wrote(unsubIO(IO, s, m), <<UNSUB(s, m)>>)
<1>1. UNSUB(s, m) \in Command /\ <<>> \in Seq(Command) /\ IO \in IOType /\ Wrote(IO, <<>>)
  BY CommandType, IOWrote
<1>2. Wrote(sendCommand(IO, UNSUB(s, m)), <<>> \o <<UNSUB(s, m)>>)
  BY <1>1, sendCommandWrote
<1>3. <<>> \o <<UNSUB(s, m)>> = <<UNSUB(s, m)>>
  BY <1>1
<1> QED
  BY <1>1, <1>2, <1>3 DEF unsubIO

(* Drains write their UNSUBs and PINGs. *)
LEMMA drainIOWrote ==
  ASSUME TypeOK, NoInfoYet, NEW q \in Seq(Sid)
  PROVE  Wrote(drainIO(IO, q), drainCmds(q))
<1> DEFINE b == IO.queued \/ IO.out = <<>> \/ (infoReceived /\ connected /\ Len(q) > 1)
           filled == [IO EXCEPT !.out = @ \o drainCmds(q), !.queued = b]
<1>0. IO \in IOType /\ Wrote(IO, <<>>) /\ drainCmds(q) \in Seq(Command) /\ <<>> \in Seq(Command)
  BY IOWrote, drainCmdsType
<1>1. b \in BOOLEAN
  OBVIOUS
<1>2. drainIO(IO, q) = IF q = <<>> THEN IO ELSE flushPending(filled)
  BY DEF drainIO
<1> HIDE DEF b
<1>3. filled \in IOType /\ Wrote(filled, <<>> \o drainCmds(q))
  BY <1>0, <1>1, Filled
<1> HIDE DEF filled
<1>4. <<>> \o drainCmds(q) = drainCmds(q)
  BY <1>0
<1>5. q = <<>> => drainCmds(q) = <<>>
  BY DEF drainCmds
<1> QED
  BY <1>0, <1>2, <1>3, <1>4, <1>5, flushPendingWrote

-----------------------------------------------------------------------------
(* The invariant.                                                          *)

Starting == transport = "connecting" \/ (transport = "open" /\ ~infoReceived)

(* PongPairing, from the start of a transport on: the PING of CONNECT goes *)
(* ahead of the PINGs that wait for the dial; a transport that is leaving  *)
(* drops what is written, so that the callers of what it still sent come   *)
(* first.                                                                  *)
PairInv ==
  /\ transport = "open" /\ infoReceived => Tags(s2c) \o Tags(Written) = pongs
  /\ Starting => pongs = <<Connect>> \o Tags(Written) /\ Tags(s2c) = <<>>
  /\ transport = "leaving" =>
       \E rest \in Seq(Tag) : pongs = (Tags(s2c) \o Tags(c2s)) \o rest
  /\ NoInfoYet

(* The barrier: what a caller is owed is ahead of its PING, and has been   *)
(* processed when its PONG is under way.                                   *)
CoverInv ==
  /\ \A t \in Tag : flushed[t] = "resolved" => owed[t] \subseteq served
  /\ \A i \in 1..Len(s2c) : s2c[i].op = "PONG" => owed[s2c[i].tag] \subseteq served
  /\ Covered(owed, served, c2s)
  /\ Kept => Covered(owed, served, Written) /\ recent \subseteq served \cup Pubs(Written)
  /\ owed[Connect] = {}

(* A caller that has not called yet is not waited for anywhere. *)
FreshInv ==
  /\ \A t \in Tag : flushed[t] = "none" => t \notin Marks(s2c) /\ t \notin Marks(c2s)
  /\ Kept => \A t \in Tag : flushed[t] = "none" => t \notin Marks(Written)
  /\ \A i \in 1..Len(pongs) : flushed[pongs[i]] # "none"
  /\ transport \in {"connecting", "open", "leaving"} => flushed[Connect] # "none"

QueueInv == PairInv /\ CoverInv /\ FreshInv

(* The callers of commands and frames are tags. *)
LEMMA MarksType ==
  /\ \A q \in Seq(Command) : Marks(q) \subseteq Tag
  /\ \A q \in Seq(Frame) : Marks(q) \subseteq Tag
<1>1. ASSUME NEW q \in Seq(Command), NEW t \in Marks(q) PROVE t \in Tag
  <2>1. PICK i \in 1..Len(q) : t = q[i].tag
    BY MarksHas
  <2>2. q[i] \in Command
    OBVIOUS
  <2> QED
    BY <2>1, <2>2 DEF Command
<1>2. ASSUME NEW q \in Seq(Frame), NEW t \in Marks(q) PROVE t \in Tag
  <2>1. PICK i \in 1..Len(q) : t = q[i].tag
    BY MarksHas
  <2>2. q[i] \in Frame
    OBVIOUS
  <2> QED
    BY <2>1, <2>2 DEF Frame
<1> QED
  BY <1>1, <1>2

(* Reading a frame that is no PONG, or none. *)
ReadsPast == s2c' = s2c \/ (s2c # <<>> /\ ~Marked(Head(s2c)) /\ s2c' = Tail(s2c))

(* It leaves the callers on their way as they are. *)
LEMMA Reads ==
  ASSUME TypeOK, ReadsPast
  PROVE  /\ Tags(s2c') = Tags(s2c) /\ Marks(s2c') \subseteq Marks(s2c)
         /\ \A i \in 1..Len(s2c') : \E j \in 1..Len(s2c) : s2c'[i] = s2c[j]
<1>1. s2c \in Seq(Frame)
  BY DEF TypeOK
<1>2. CASE s2c' = s2c
  BY <1>2
<1>3. CASE s2c # <<>> /\ ~Marked(Head(s2c)) /\ s2c' = Tail(s2c)
  <2>1. Tags(s2c) = Tags(Tail(s2c))
    BY <1>1, <1>3, Taggings, TagsHead
  <2>2. Marks(Tail(s2c)) \subseteq Marks(s2c)
    BY <1>1, <1>3, First
  <2>3. \A i \in 1..Len(Tail(s2c)) : i + 1 \in 1..Len(s2c) /\ Tail(s2c)[i] = s2c[i + 1]
    BY <1>1, <1>3
  <2> QED
    BY <1>3, <2>1, <2>2, <2>3
<1> QED
  BY <1>2, <1>3 DEF ReadsPast

(* What a handler that writes cmds for new callers does to the rest. *)
Calls(cmds) ==
  /\ pongs' = pongs \o Tags(cmds)
  /\ recent' = recent \cup Pubs(cmds) /\ served' = served
  /\ \A t \in Tag : t \notin Marks(cmds) => owed'[t] = owed[t] /\ flushed'[t] = flushed[t]
  /\ \A t \in Marks(cmds) : /\ flushed[t] = "none" /\ t # Connect
                            /\ flushed'[t] = "pending" /\ owed'[t] = recent
  /\ \A i \in 1..Len(Tags(cmds)) : Tags(cmds)[i] \in Marks(cmds)

(* It keeps the invariant. *)
LEMMA WriteKeeps ==
  ASSUME TypeOK, TypeOK', QueueInv, NEW io \in IOType, NEW cmds \in Seq(Command),
         Wrote(io, cmds), SetIO(io), UNCHANGED link, ReadsPast, Calls(cmds)
  PROVE  QueueInv'
<1> DEFINE w == c2s' \o outbound'
<1>1. /\ UNCHANGED <<infoReceived, transport>> /\ c2s' = io.wire /\ outbound' = io.out
      /\ Kept' = Kept /\ Starting' = Starting /\ NoInfoYet' = NoInfoYet
  BY DEF link, SetIO, Kept, Starting, NoInfoYet
<1>2. /\ c2s \in Seq(Command) /\ c2s' \in Seq(Command) /\ outbound' \in Seq(Command)
      /\ w \in Seq(Command) /\ Written \in Seq(Command) /\ Written' = w
      /\ s2c \in Seq(Frame) /\ s2c' \in Seq(Frame) /\ pongs \in Seq(Tag)
  BY WrittenType DEF TypeOK, Written
<1>3. (Kept => w = Written \o cmds) /\ (transport # "open" => c2s' = c2s)
  BY <1>1 DEF Wrote
<1>4. (transport = "open" => Kept) /\ (transport = "connecting" => Kept)
  BY DEF Kept
<1> HIDE DEF w
<1>5. /\ Tags(cmds) \in Seq(Tag) /\ Tags(Written) \in Seq(Tag)
      /\ Tags(s2c) \in Seq(Tag) /\ Tags(c2s) \in Seq(Tag)
      /\ Kept => Tags(w) = Tags(Written) \o Tags(cmds)
  <2>1. \A q \in Seq(Command) : Tags(q) \in Seq(Tag)
    BY Taggings, TagsConcat
  <2>2. \A q \in Seq(Frame) : Tags(q) \in Seq(Tag)
    BY Taggings, TagsConcat
  <2>3. Tags(Written \o cmds) = Tags(Written) \o Tags(cmds)
    BY <1>2, Taggings, TagsConcat
  <2> QED
    BY <1>2, <1>3, <2>1, <2>2, <2>3
<1>6. /\ Kept => Marks(w) = Marks(Written) \cup Marks(cmds) /\ Pubs(w) = Pubs(Written) \cup Pubs(cmds)
      /\ Marks(c2s') \subseteq Marks(w)
      /\ Marks(cmds) \subseteq Tag /\ Marks(c2s) \subseteq Tag /\ Marks(s2c) \subseteq Tag
      /\ Marks(Written) \subseteq Tag
  <2>1. Marks(Written \o cmds) = Marks(Written) \cup Marks(cmds)
    BY <1>2, MarksConcat
  <2>2. Pubs(Written \o cmds) = Pubs(Written) \cup Pubs(cmds)
    BY <1>2, PubsOfBoth
  <2>3. Marks(c2s' \o outbound') = Marks(c2s') \cup Marks(outbound')
    BY <1>2, MarksConcat
  <2> QED
    BY <1>2, <1>3, <2>1, <2>2, <2>3, MarksType DEF w
<1>7. /\ Tags(s2c') = Tags(s2c) /\ Marks(s2c') \subseteq Marks(s2c)
      /\ \A i \in 1..Len(s2c') : \E j \in 1..Len(s2c) : s2c'[i] = s2c[j]
  BY Reads
<1>8. PairInv'
  <2>1. transport = "open" /\ infoReceived => Tags(s2c') \o Tags(w) = pongs'
    <3>1. (Tags(s2c) \o Tags(Written)) \o Tags(cmds) = Tags(s2c) \o (Tags(Written) \o Tags(cmds))
      <4>1. \A a, b, c \in Seq(Tag) : (a \o b) \o c = a \o (b \o c)
        BY ConcatAssoc
      <4> QED
        BY <1>5, <4>1
    <3> QED
      BY <1>4, <1>5, <1>7, <3>1 DEF Calls, QueueInv, PairInv
  <2>2. Starting => pongs' = <<Connect>> \o Tags(w) /\ Tags(s2c') = <<>>
    <3>1. (<<Connect>> \o Tags(Written)) \o Tags(cmds) = <<Connect>> \o (Tags(Written) \o Tags(cmds))
      <4>1. <<Connect>> \in Seq(Tag)
        BY TagType
      <4> QED
        BY <1>5, <4>1, ConcatAssoc
    <3>2. Starting => Kept
      BY <1>4 DEF Starting
    <3> QED
      BY <1>5, <1>7, <3>1, <3>2 DEF Calls, QueueInv, PairInv
  <2>3. ASSUME transport = "leaving"
        PROVE  \E rest \in Seq(Tag) : pongs' = (Tags(s2c') \o Tags(c2s')) \o rest
    <3>1. PICK rest \in Seq(Tag) : pongs = (Tags(s2c) \o Tags(c2s)) \o rest
      BY <2>3 DEF QueueInv, PairInv
    <3>2. Tags(s2c) \o Tags(c2s) \in Seq(Tag) /\ rest \o Tags(cmds) \in Seq(Tag)
      BY <1>5
    <3>3. ((Tags(s2c) \o Tags(c2s)) \o rest) \o Tags(cmds)
            = (Tags(s2c) \o Tags(c2s)) \o (rest \o Tags(cmds))
      BY <1>5, <3>2, ConcatAssoc, SMTT(30)
    <3>4. pongs' = (Tags(s2c') \o Tags(c2s')) \o (rest \o Tags(cmds))
      BY <1>3, <1>7, <2>3, <3>1, <3>3 DEF Calls
    <3> QED
      BY <3>2, <3>4
  <2> QED
    BY <1>1, <1>2, <2>1, <2>2, <2>3 DEF QueueInv, PairInv
<1>9. \A t \in Marks(cmds) : /\ t \notin Marks(s2c) /\ t \notin Marks(c2s)
                             /\ Kept => t \notin Marks(Written)
  BY <1>6 DEF Calls, QueueInv, FreshInv
<1>10. CoverInv'
  <2>1. \A t \in Tag : flushed'[t] = "resolved" => owed'[t] \subseteq served'
    BY DEF Calls, QueueInv, CoverInv
  <2>2. ASSUME NEW i \in 1..Len(s2c'), s2c'[i].op = "PONG"
        PROVE  owed'[s2c'[i].tag] \subseteq served'
    <3>1. PICK j \in 1..Len(s2c) : s2c'[i] = s2c[j]
      BY <1>7
    <3>2. s2c[j].tag \in Marks(s2c)
      BY <2>2, <3>1, MarksHas DEF Marked
    <3>3. owed'[s2c[j].tag] = owed[s2c[j].tag]
      BY <1>6, <1>9, <3>2 DEF Calls
    <3> QED
      BY <2>2, <3>1, <3>3 DEF Calls, QueueInv, CoverInv
  <2>3. Kept => Covered(owed', served', w) /\ recent' \subseteq served' \cup Pubs(w)
    <3>1. SUFFICES ASSUME Kept PROVE Covered(owed', served', w) /\ recent' \subseteq served' \cup Pubs(w)
      OBVIOUS
    <3>2. Covered(owed, served, Written) /\ recent \subseteq served \cup Pubs(Written)
      BY <3>1 DEF QueueInv, CoverInv
    <3>3. \A t \in Marks(Written) : owed'[t] = owed[t]
      BY <1>6, <1>9, <3>1 DEF Calls
    <3>4. Covered(owed', served, Written)
      BY <3>2, <3>3, CoveredKeeps
    <3>5. \A i \in 1..Len(cmds) : cmds[i].op = "PING" => owed'[cmds[i].tag] = recent
      BY MarksHas DEF Calls, Marked
    <3>6. Covered(owed', served \cup Pubs(Written), cmds)
      BY <3>2, <3>5 DEF Covered
    <3>7. Covered(owed', served, Written \o cmds)
      BY <1>2, <3>4, <3>6, CoveredConcat
    <3> QED
      BY <1>3, <1>6, <3>1, <3>2, <3>7 DEF Calls
  <2>4. Covered(owed', served', c2s')
    <3>1. CASE transport = "open"
      <4>1. Covered(owed', served', c2s' \o outbound')
        BY <1>4, <2>3, <3>1 DEF w
      <4> QED
        BY <1>2, <4>1, CoveredConcat
    <3>2. CASE transport # "open"
      <4>1. \A t \in Marks(c2s) : owed'[t] = owed[t]
        BY <1>6, <1>9 DEF Calls
      <4>2. Covered(owed, served, c2s)
        BY DEF QueueInv, CoverInv
      <4>3. Covered(owed', served, c2s)
        BY <4>1, <4>2, CoveredKeeps
      <4> QED
        BY <1>3, <3>2, <4>3 DEF Calls
    <3> QED
      BY <3>1, <3>2
  <2>5. owed'[Connect] = {}
    BY TagType DEF Calls, QueueInv, CoverInv
  <2> QED
    BY <1>1, <1>2, <2>1, <2>2, <2>3, <2>4, <2>5 DEF CoverInv
<1>11. FreshInv'
  <2>1. \A t \in Tag : flushed'[t] = "none" => t \notin Marks(cmds) /\ flushed[t] = "none"
    BY DEF Calls
  <2>2. Kept => \A t \in Tag : flushed'[t] = "none" => t \notin Marks(w)
    BY <1>6, <2>1 DEF QueueInv, FreshInv
  <2>3. \A t \in Tag : flushed'[t] = "none" => t \notin Marks(s2c')
    BY <1>7, <2>1 DEF QueueInv, FreshInv
  <2>4. \A t \in Tag : flushed'[t] = "none" => t \notin Marks(c2s')
    BY <1>3, <1>4, <1>6, <2>1, <2>2 DEF QueueInv, FreshInv
  <2>5. ASSUME NEW i \in 1..Len(pongs')
        PROVE  flushed'[pongs'[i]] # "none"
    <3>0. ASSUME NEW ts \in Seq(Tag)
          PROVE  /\ \A j \in 1..Len(ts) : (pongs \o ts)[Len(pongs) + j] = ts[j]
                 /\ \A k \in 1..Len(pongs \o ts) :
                      k \in 1..Len(pongs) \/ \E j \in 1..Len(ts) : k = Len(pongs) + j
      <4>1. pongs \in Seq(Tag)
        BY <1>2
      <4> QED
        BY ONLY <4>1, ConcatAt, SMTT(30)
    <3>1. CASE i \in 1..Len(pongs)
      <4>1. pongs'[i] = pongs[i] /\ pongs[i] \in Tag
        BY <1>2, <1>5, <3>1 DEF Calls
      <4>2. flushed[pongs[i]] # "none"
        BY <3>1 DEF QueueInv, FreshInv
      <4> QED
        BY <2>1, <4>1, <4>2
    <3>2. ASSUME NEW j \in 1..Len(Tags(cmds)), i = Len(pongs) + j
          PROVE  flushed'[pongs'[i]] # "none"
      <4>1. pongs'[i] = Tags(cmds)[j]
        BY <1>5, <3>0, <3>2 DEF Calls
      <4> QED
        BY <4>1 DEF Calls
    <3> QED
      BY <1>5, <3>0, <3>1, <3>2 DEF Calls
  <2>6. transport \in {"connecting", "open", "leaving"} => flushed'[Connect] # "none"
    BY <2>1, TagType DEF QueueInv, FreshInv
  <2> QED
    BY <1>1, <1>2, <2>2, <2>3, <2>4, <2>5, <2>6 DEF FreshInv
<1> QED
  BY <1>8, <1>10, <1>11 DEF QueueInv

(* Each call has its own tag. *)
LEMMA TagsDiffer ==
  /\ \A f, g : FlushCall(f) = FlushCall(g) => f = g
  /\ \A s, r : DrainOf(s) = DrainOf(r) => s = r
  /\ \A s, f : DrainOf(s) # FlushCall(f) /\ DrainOf(s) # Final /\ DrainOf(s) # Connect
               /\ FlushCall(f) # Final /\ FlushCall(f) # Connect
  /\ Final # Connect
BY DEF FlushCall, DrainOf, Final, Connect

(* Which calls have not been made: a caller that has not called is fresh.  *)
CallInv ==
  /\ \A f \in 1..MaxFlushes : f > flushes => flushed[FlushCall(f)] = "none"
  /\ connDrain \in {"no", "subs"} => flushed[Final] = "none"
  /\ \A s \in Sid : subs[s].drain = "no" \/ s > sidCounter => flushed[DrainOf(s)] = "none"
  /\ \A s \in Sid : subs[s].listed => s <= sidCounter

BarrierInv == StrandedInv /\ QueueInv /\ CallInv

(* What is done to a subscription that is not drained. *)
Milder(new, old) == new.drain = old.drain /\ (new.listed => old.listed)

(* Closing, unsubscribing and counting are mild. *)
LEMMA MilderOps ==
  ASSUME NEW s \in Sid, NEW sub \in Subscription, NEW m \in Nat
  PROVE  /\ Milder(closeSub(s, sub), sub) /\ Milder(cancelSub(s, sub), sub)
         /\ Milder(unsubscribeSub(s, sub, m), sub) /\ Milder(stopIter(s, sub), sub)
         /\ Milder(receivedSub(s, sub), sub)
<1>1. \A t \in Subscription : closeSub(s, t) \in Subscription /\ Milder(closeSub(s, t), t)
  BY DEF closeSub, Subscription, Milder
<1>2. \A t \in Subscription : cancelSub(s, t) \in Subscription /\ Milder(cancelSub(s, t), t)
  BY <1>1 DEF cancelSub, Subscription, Milder
<1>3. \A t \in Subscription, n \in Nat :
        unsubSub(t, n) \in Subscription /\ Milder(unsubSub(t, n), t)
  BY DEF unsubSub, Subscription, Milder
<1>4. \A t \in Subscription, n \in Nat : Milder(unsubscribeSub(s, t, n), t)
  <2>1. ASSUME NEW t \in Subscription, NEW n \in Nat
        PROVE  Milder(unsubscribeSub(s, t, n), t)
    <3>1. unsubSub(t, n) \in Subscription /\ Milder(unsubSub(t, n), t)
      BY <1>3
    <3>2. Milder(cancelSub(s, unsubSub(t, n)), unsubSub(t, n))
      BY <1>2, <3>1
    <3> QED
      BY <3>1, <3>2 DEF Milder, unsubscribeSub
  <2> QED
    BY <2>1
<1>5. Milder(stopIter(s, sub), sub)
  <2>1. [sub EXCEPT !.done = TRUE, !.closing = FALSE] \in Subscription
    BY DEF Subscription
  <2>2. Milder([sub EXCEPT !.done = TRUE, !.closing = FALSE], sub)
    BY DEF Subscription, Milder
  <2>3. Milder(stopIter(s, sub), [sub EXCEPT !.done = TRUE, !.closing = FALSE])
    BY <1>4, <2>1 DEF stopIter
  <2> QED
    BY <2>2, <2>3 DEF Milder
<1>6. Milder(receivedSub(s, sub), sub)
  BY receivedFacts DEF Milder
<1> QED
  BY <1>1, <1>2, <1>4, <1>5, <1>6

(* A handler that calls nothing writes SUBs and UNSUBs only. *)
NothingCalled == UNCHANGED <<pongs, recent, served, owed, flushed>>

(* It keeps the invariant. *)
LEMMA PlainKeeps ==
  ASSUME TypeOK, TypeOK', QueueInv, NEW io \in IOType, NEW cmds \in Seq(Command),
         \A i \in 1..Len(cmds) : cmds[i].op \in {"SUB", "UNSUB"},
         Wrote(io, cmds), SetIO(io), UNCHANGED link, ReadsPast, NothingCalled
  PROVE  QueueInv'
<1>1. Tags(cmds) = <<>> /\ Marks(cmds) = {} /\ Pubs(cmds) = {}
  BY Plain
<1>2. pongs \o <<>> = pongs /\ Len(<<>>) = 0
  BY DEF TypeOK
<1>3. Calls(cmds)
  BY <1>1, <1>2 DEF Calls, NothingCalled
<1> QED
  BY <1>3, WriteKeeps

(* One of them, or none. *)
LEMMA UnsubKeeps ==
  ASSUME TypeOK, TypeOK', QueueInv, NEW s \in Nat, NEW m \in Nat,
         SetIO(IO) \/ SetIO(unsubIO(IO, s, m)), UNCHANGED link, ReadsPast, NothingCalled
  PROVE  QueueInv'
<1>0. NoInfoYet
  BY DEF QueueInv, PairInv
<1>1. UNSUB(s, m) \in Command /\ UNSUB(s, m).op = "UNSUB"
  BY CommandType, Ops
<1>2. /\ <<>> \in Seq(Command) /\ <<UNSUB(s, m)>> \in Seq(Command)
      /\ \A i \in 1..Len(<<>>) : <<>>[i].op \in {"SUB", "UNSUB"}
      /\ \A i \in 1..Len(<<UNSUB(s, m)>>) : <<UNSUB(s, m)>>[i].op \in {"SUB", "UNSUB"}
  BY <1>1
<1>3. IO \in IOType /\ Wrote(IO, <<>>)
  BY IOWrote
<1>4. unsubIO(IO, s, m) \in IOType
  BY <1>3, unsubIOType
<1>5. CASE SetIO(IO)
  BY <1>2, <1>3, <1>5, PlainKeeps
<1>6. CASE SetIO(unsubIO(IO, s, m))
  <2>1. Wrote(unsubIO(IO, s, m), <<>>) \/ Wrote(unsubIO(IO, s, m), <<UNSUB(s, m)>>)
    BY <1>0, unsubIOWrote
  <2>2. CASE Wrote(unsubIO(IO, s, m), <<>>)
    BY <1>2, <1>4, <1>6, <2>2, PlainKeeps
  <2>3. CASE Wrote(unsubIO(IO, s, m), <<UNSUB(s, m)>>)
    BY <1>2, <1>4, <1>6, <2>3, PlainKeeps
  <2> QED
    BY <2>1, <2>2, <2>3
<1> QED
  BY <1>5, <1>6

(* flush() on behalf of new callers. *)
LEMMA PushCalls ==
  ASSUME TypeOK, NEW cmds \in Seq(Command), pushPong(Tags(cmds)),
         recent' = recent, served' = served, Pubs(cmds) = {},
         \A t \in Marks(cmds) : \E i \in 1..Len(Tags(cmds)) : Tags(cmds)[i] = t,
         \A i \in 1..Len(Tags(cmds)) : Tags(cmds)[i] \in Marks(cmds),
         \A t \in Marks(cmds) : flushed[t] = "none" /\ t # Connect
  PROVE  Calls(cmds)
<1>1. Marks(cmds) \subseteq Tag
  BY MarksType
<1>2. \A t \in Tag : t \in Marks(cmds) <=> \E i \in 1..Len(Tags(cmds)) : Tags(cmds)[i] = t
  OBVIOUS
<1>3. \A t \in Marks(cmds) : flushed'[t] = "pending" /\ owed'[t] = recent
  BY <1>1, <1>2 DEF pushPong
<1>4. \A t \in Tag : t \notin Marks(cmds) => owed'[t] = owed[t] /\ flushed'[t] = flushed[t]
  BY <1>2 DEF pushPong
<1>5. pongs' = pongs \o Tags(cmds)
  BY DEF pushPong
<1> QED
  BY <1>3, <1>4, <1>5 DEF Calls

(* A single flush(). *)
LEMMA FlushKeeps ==
  ASSUME TypeOK, TypeOK', QueueInv, NEW t \in Tag, flushed[t] = "none", t # Connect,
         pushPong(<<t>>), SetIO(flushPing(IO, t)), UNCHANGED link, s2c' = s2c,
         recent' = recent, served' = served
  PROVE  QueueInv'
<1>1. PING(t) \in Command /\ <<PING(t)>> \in Seq(Command)
  BY PingType
<1>2. Tags(<<PING(t)>>) = <<t>> /\ Marks(<<PING(t)>>) = {t} /\ Pubs(<<PING(t)>>) = {}
  <2>1. Marked(PING(t)) /\ PING(t).tag = t /\ PING(t).op # "PUB"
    BY Ops DEF Marked
  <2> QED
    BY <1>1, <2>1, Single
<1>3. Len(<<t>>) = 1 /\ <<t>>[1] = t /\ 1..1 = {1}
  OBVIOUS
<1>4. Calls(<<PING(t)>>)
  BY <1>1, <1>2, <1>3, PushCalls
<1>5. Wrote(flushPing(IO, t), <<PING(t)>>)
  BY flushPingWrote DEF QueueInv, PairInv
<1>6. flushPing(IO, t) \in IOType
  BY IOTyped, flushPingType
<1> QED
  BY <1>1, <1>4, <1>5, <1>6, WriteKeeps DEF ReadsPast

(* The drains of some subscriptions. *)
LEMMA DrainKeeps ==
  ASSUME TypeOK, TypeOK', QueueInv, NEW q \in Seq(Sid),
         \A i \in 1..Len(q) : flushed[DrainOf(q[i])] = "none",
         pushPong(Drainers(q)), SetIO(drainIO(IO, q)), UNCHANGED link, s2c' = s2c,
         recent' = recent, served' = served
  PROVE  QueueInv'
<1>1. drainCmds(q) \in Seq(Command)
  BY drainCmdsType
<1>2. /\ Tags(drainCmds(q)) = Drainers(q) /\ Pubs(drainCmds(q)) = {}
      /\ \A t \in Marks(drainCmds(q)) : \E i \in 1..Len(q) : t = DrainOf(q[i])
      /\ \A i \in 1..Len(q) : DrainOf(q[i]) \in Marks(drainCmds(q))
  BY drainCmdsFacts
<1>3. Len(Drainers(q)) = Len(q) /\ \A i \in 1..Len(q) : Drainers(q)[i] = DrainOf(q[i])
  BY DEF Drainers
<1>4. \A t \in Marks(drainCmds(q)) : \E i \in 1..Len(Drainers(q)) : Drainers(q)[i] = t
  BY <1>2, <1>3
<1>5. \A i \in 1..Len(Drainers(q)) : Drainers(q)[i] \in Marks(drainCmds(q))
  BY <1>2, <1>3
<1>6. \A t \in Marks(drainCmds(q)) : flushed[t] = "none" /\ t # Connect
  BY <1>2, TagsDiffer
<1>7. Calls(drainCmds(q))
  BY <1>1, <1>2, <1>4, <1>5, <1>6, PushCalls
<1>8. Wrote(drainIO(IO, q), drainCmds(q))
  BY drainIOWrote DEF QueueInv, PairInv
<1>9. drainIO(IO, q) \in IOType
  BY IOTyped, drainIOType
<1> QED
  BY <1>1, <1>7, <1>8, <1>9, WriteKeeps DEF ReadsPast

-----------------------------------------------------------------------------
(* Calls and tasks.                                                        *)

(* A step keeps the calls when what it counts as not made was not made     *)
(* before, and leaves its caller fresh.                                    *)
StaysFresh(t) == flushed[t] = "none" => flushed'[t] = "none"

(* It keeps what is known of the calls. *)
LEMMA CallKeeps ==
  ASSUME CallInv,
         \A f \in 1..MaxFlushes : f > flushes' => f > flushes /\ StaysFresh(FlushCall(f)),
         connDrain' \in {"no", "subs"} => connDrain \in {"no", "subs"} /\ StaysFresh(Final),
         \A s \in Sid : subs'[s].drain = "no" \/ s > sidCounter' =>
            (subs[s].drain = "no" \/ s > sidCounter) /\ StaysFresh(DrainOf(s)),
         \A s \in Sid : subs'[s].listed => s <= sidCounter'
  PROVE  CallInv'
BY DEF CallInv, StaysFresh

(* A step that calls nothing and only ends subscriptions. *)
LEMMA CallIdle ==
  ASSUME CallInv, UNCHANGED <<flushes, flushed, connDrain, sidCounter>>,
         \A s \in Sid : Milder(subs'[s], subs[s])
  PROVE  CallInv'
BY DEF CallInv, Milder

(* What was not waited for is typed as subscriptions and tags. *)
LEMMA CallFacts ==
  ASSUME BarrierInv
  PROVE  /\ TypeOK /\ QueueInv /\ CallInv /\ NoInfoYet
         /\ subs \in [Sid -> Subscription] /\ IO \in IOType /\ Wrote(IO, <<>>)
         /\ Sid \subseteq Nat /\ Maxes \subseteq Nat
<1>1. TypeOK /\ QueueInv /\ CallInv
  BY DEF BarrierInv, StrandedInv
<1>2. NoInfoYet
  BY <1>1 DEF QueueInv, PairInv
<1>3. subs \in [Sid -> Subscription]
  BY <1>1 DEF TypeOK
<1>4. IO \in IOType /\ Wrote(IO, <<>>)
  BY <1>1, IOWrote
<1>5. Sid \subseteq Nat /\ Maxes \subseteq Nat
  BY ProtocolAssumption DEF Sid
<1> QED
  BY <1>1, <1>2, <1>3, <1>4, <1>5

(* Calls of the application and tasks that do not flush for a caller. *)
LEMMA BarrierPlain ==
  ASSUME BarrierInv, TypeOK',
         \/ \E m \in Maxes : subscribe(m)
         \/ \E s \in Sid, m \in Maxes : unsubscribe(s, m)
         \/ publish \/ flushTask \/ processMsg
         \/ \E s \in Sid : subTimeout(s) \/ iterDone(s)
  PROVE  QueueInv' /\ CallInv'
<1>0. /\ TypeOK /\ QueueInv /\ CallInv /\ NoInfoYet
      /\ subs \in [Sid -> Subscription] /\ IO \in IOType /\ Wrote(IO, <<>>)
      /\ Sid \subseteq Nat /\ Maxes \subseteq Nat
  BY CallFacts
<1>1. ASSUME NEW m \in Maxes, subscribe(m) PROVE QueueInv' /\ CallInv'
  <2> DEFINE s == sidCounter + 1
             io == sendCommand(IO, SUB(s))
  <2>1. s \in Sid /\ s \in Nat /\ m \in Nat
    BY <1>0, <1>1, ProtocolAssumption DEF subscribe, TypeOK, Sid
  <2>2. SUB(s) \in Command /\ UNSUB(s, m) \in Command
    BY <2>1, CommandType
  <2>3. <<>> \in Seq(Command) /\ <<>> \o <<SUB(s)>> = <<SUB(s)>>
        /\ <<SUB(s)>> \in Seq(Command) /\ <<SUB(s)>> \o <<UNSUB(s, m)>> \in Seq(Command)
    BY <2>2
  <2>4. io \in IOType /\ Wrote(io, <<SUB(s)>>)
    BY <1>0, <2>2, <2>3, sendCommandType, sendCommandWrote
  <2>5. /\ sendCommand(io, UNSUB(s, m)) \in IOType
        /\ Wrote(sendCommand(io, UNSUB(s, m)), <<SUB(s)>> \o <<UNSUB(s, m)>>)
    <3> HIDE DEF io
    <3> QED
      BY <1>0, <2>2, <2>3, <2>4, sendCommandType, sendCommandWrote
  <2>6. /\ SetIO(io) \/ SetIO(sendCommand(io, UNSUB(s, m)))
        /\ UNCHANGED link /\ s2c' = s2c /\ NothingCalled
    BY <1>1 DEF subscribe, NothingCalled
  <2>7. SUB(s).op = "SUB" /\ UNSUB(s, m).op = "UNSUB"
    BY Ops
  <2>8. \A i \in 1..Len(<<SUB(s)>>) : <<SUB(s)>>[i].op \in {"SUB", "UNSUB"}
    BY <2>7
  <2>9. \A i \in 1..Len(<<SUB(s)>> \o <<UNSUB(s, m)>>) :
           (<<SUB(s)>> \o <<UNSUB(s, m)>>)[i].op \in {"SUB", "UNSUB"}
    <3>1. \A a, b \in Command : Len(<<a>> \o <<b>>) = 2
            /\ (<<a>> \o <<b>>)[1] = a /\ (<<a>> \o <<b>>)[2] = b
      OBVIOUS
    <3> QED
      BY <2>2, <2>7, <3>1
  <2> HIDE DEF io
  <2>10. QueueInv'
    BY <1>0, <2>3, <2>4, <2>5, <2>6, <2>8, <2>9, PlainKeeps DEF ReadsPast
  <2>11. /\ UNCHANGED <<flushes, flushed, connDrain>> /\ sidCounter' = s
         /\ subs' = [subs EXCEPT ![s] = NewSub(s, m)]
    BY <1>1 DEF subscribe, counters
  <2>12. sidCounter \in Nat
    BY <1>0 DEF TypeOK
  <2>13. \A r \in Sid : r > s => r > sidCounter
    BY <1>0, <2>12
  <2>14. s > sidCounter
    BY <2>12
  <2> HIDE DEF s
  <2>15. \A r \in Sid : subs'[r].drain = "no" \/ r > s => subs[r].drain = "no" \/ r > sidCounter
    BY <1>0, <2>1, <2>11, <2>13, <2>14
  <2>16. \A r \in Sid : subs'[r].listed => r <= s
    <3>1. \A r \in Sid : r <= sidCounter => r <= s
      BY <1>0, <2>1, <2>12, <2>14
    <3> QED
      BY <1>0, <2>1, <2>11, <3>1 DEF CallInv
  <2>17. CallInv'
    BY <1>0, <2>11, <2>15, <2>16, CallKeeps DEF StaysFresh
  <2> QED
    BY <2>10, <2>17
<1>2. ASSUME NEW s \in Sid, NEW m \in Maxes, unsubscribe(s, m) PROVE QueueInv' /\ CallInv'
  <2>1. /\ SetIO(unsubIO(IO, s, m)) /\ UNCHANGED link /\ s2c' = s2c /\ NothingCalled
        /\ UNCHANGED <<flushes, flushed, connDrain, sidCounter>>
        /\ subs' = [subs EXCEPT ![s] = unsubscribeSub(s, subs[s], m)]
    BY <1>2 DEF unsubscribe, NothingCalled
  <2>2. QueueInv'
    BY <1>0, <2>1, UnsubKeeps DEF ReadsPast
  <2>3. Milder(unsubscribeSub(s, subs[s], m), subs[s])
    BY <1>0, MilderOps
  <2>4. \A r \in Sid : Milder(subs'[r], subs[r])
    BY <1>0, <2>1, <2>3 DEF Milder
  <2> QED
    BY <1>0, <2>1, <2>2, <2>4, CallIdle
<1>3. CASE publish
  <2> DEFINE p == pubs + 1
             io == sendCommand(IO, PUB(p))
  <2>1. PUB(p) \in Command
    <3>1. p \in PubId
      BY <1>0, <1>3, ProtocolAssumption DEF publish, TypeOK, PubId
    <3> QED
      BY <3>1, PubType
  <2>2. <<>> \in Seq(Command) /\ <<>> \o <<PUB(p)>> = <<PUB(p)>> /\ <<PUB(p)>> \in Seq(Command)
    BY <2>1
  <2>3. io \in IOType /\ Wrote(io, <<PUB(p)>>)
    BY <1>0, <2>1, <2>2, sendCommandType, sendCommandWrote
  <2>4. /\ SetIO(io) /\ UNCHANGED <<link, pongs, s2c, served, owed, flushed>>
        /\ recent' = recent \cup {p}
        /\ UNCHANGED <<flushes, flushed, connDrain, sidCounter, subs>>
    BY <1>3 DEF publish
  <2>5. Tags(<<PUB(p)>>) = <<>> /\ Marks(<<PUB(p)>>) = {} /\ Pubs(<<PUB(p)>>) = {p}
    <3>1. ~Marked(PUB(p)) /\ PUB(p).op = "PUB" /\ PUB(p).sid = p
      BY Ops DEF Marked
    <3> HIDE DEF p
    <3> QED
      BY <2>1, <3>1, Single
  <2> HIDE DEF p, io
  <2>6. pongs \o <<>> = pongs /\ Len(<<>>) = 0
    BY <1>0 DEF TypeOK
  <2>7. Calls(<<PUB(p)>>)
    <3> DEFINE cmds == <<PUB(p)>>
    <3>1. Tags(cmds) = <<>> /\ Marks(cmds) = {} /\ Pubs(cmds) = {p}
      BY <2>5
    <3> HIDE DEF cmds
    <3>2. Calls(cmds)
      BY <2>4, <2>6, <3>1 DEF Calls
    <3> QED
      BY <3>2 DEF cmds
  <2>8. QueueInv'
    BY <1>0, <2>2, <2>3, <2>4, <2>7, WriteKeeps DEF ReadsPast
  <2>9. CallInv'
    BY <1>0, <2>4, CallIdle DEF Milder
  <2> QED
    BY <2>8, <2>9
<1>4. CASE flushTask
  <2> DEFINE io == [flushPending(IO) EXCEPT !.queued = FALSE]
  <2>1. flushPending(IO) \in IOType /\ Wrote(flushPending(IO), <<>>)
    BY <1>0, flushPendingType, flushPendingWrote
  <2>2. io \in IOType /\ io.wire = flushPending(IO).wire /\ io.out = flushPending(IO).out
    BY <2>1 DEF IOType
  <2>3. /\ SetIO(io) /\ UNCHANGED link /\ s2c' = s2c /\ NothingCalled
        /\ UNCHANGED <<flushes, flushed, connDrain, sidCounter, subs>>
    BY <1>4 DEF flushTask, quiet, NothingCalled, counters, history
  <2> HIDE DEF io
  <2>4. Wrote(io, <<>>)
    BY <2>1, <2>2 DEF Wrote
  <2>5. <<>> \in Seq(Command) /\ \A i \in 1..Len(<<>>) : <<>>[i].op \in {"SUB", "UNSUB"}
    OBVIOUS
  <2>6. QueueInv'
    BY <1>0, <2>2, <2>3, <2>4, <2>5, PlainKeeps DEF ReadsPast
  <2>7. CallInv'
    BY <1>0, <2>3, CallIdle DEF Milder
  <2> QED
    BY <2>6, <2>7
<1>5. CASE processMsg
  <2> DEFINE s == Head(s2c).sid
             got == receivedSub(s, subs[s])
  <2>1. s2c \in Seq(Frame) /\ s2c # <<>> /\ Head(s2c).op = "MSG" /\ s2c' = Tail(s2c)
    BY <1>0, <1>5 DEF processMsg, Reading, TypeOK
  <2>2. s \in Nat
    <3>1. Head(s2c) \in Frame
      BY <2>1
    <3> QED
      BY <3>1 DEF Frame
  <2>3. ReadsPast
    BY <2>1 DEF ReadsPast, Marked
  <2>4. /\ SetIO(IO) \/ SetIO(unsubIO(IO, s, 0))
        /\ UNCHANGED link /\ NothingCalled
        /\ UNCHANGED <<flushes, flushed, connDrain, sidCounter>>
    BY <1>5 DEF processMsg, SetIO, IO, NothingCalled, counters, history
  <2>5. QueueInv'
    BY <1>0, <2>2, <2>3, <2>4, UnsubKeeps
  <2>6. \/ subs' = subs
        \/ subs' = [subs EXCEPT ![s] = unsubscribeSub(s, got, 0)]
        \/ subs' = [subs EXCEPT ![s] = got]
    BY <1>5 DEF processMsg
  <2>7. s \in Sid => Milder(got, subs[s]) /\ got \in Subscription
    BY <1>0, MilderOps, SubscriptionOps
  <2> HIDE DEF got, s
  <2>8. s \in Sid => Milder(unsubscribeSub(s, got, 0), got)
    BY <2>7, MilderOps
  <2>9. \A r \in Sid : Milder(subs'[r], subs[r])
    BY <1>0, <2>6, <2>7, <2>8 DEF Milder
  <2>10. CallInv'
    BY <1>0, <2>4, <2>9, CallIdle, SMTT(30)
  <2> QED
    BY <2>5, <2>10
<1>6. ASSUME NEW s \in Sid, subTimeout(s) \/ iterDone(s) PROVE QueueInv' /\ CallInv'
  <2> DEFINE fired == [subs[s] EXCEPT !.timer = FALSE]
             quit == [fired EXCEPT !.done = TRUE]
  <2>1. /\ SetIO(unsubIO(IO, s, 0)) \/ SetIO(IO)
        /\ UNCHANGED link /\ s2c' = s2c /\ NothingCalled
        /\ UNCHANGED <<flushes, flushed, connDrain, sidCounter>>
    BY <1>6 DEF subTimeout, iterDone, quiet, NothingCalled, counters, history
  <2>2. QueueInv'
    BY <1>0, <2>1, UnsubKeeps, SMTT(30) DEF ReadsPast
  <2>3. \/ subs' = [subs EXCEPT ![s] = stopIter(s, fired)]
        \/ subs' = [subs EXCEPT ![s] = quit]
        \/ subs' = [subs EXCEPT ![s] = stopIter(s, subs[s])]
    BY <1>6 DEF subTimeout, iterDone
  <2>4. fired \in Subscription /\ Milder(fired, subs[s]) /\ Milder(quit, subs[s])
    BY <1>0 DEF Subscription, Milder
  <2> HIDE DEF fired, quit
  <2>5. Milder(stopIter(s, fired), fired) /\ Milder(stopIter(s, subs[s]), subs[s])
    BY <1>0, <2>4, MilderOps
  <2>6. \A r \in Sid : Milder(subs'[r], subs[r])
    BY <1>0, <2>3, <2>4, <2>5 DEF Milder
  <2> QED
    BY <1>0, <2>1, <2>2, <2>6, CallIdle, SMTT(30)
<1> QED
  BY <1>1, <1>2, <1>3, <1>4, <1>5, <1>6

(* The calls that flush. *)
LEMMA BarrierFlushes ==
  ASSUME BarrierInv, TypeOK',
         flush \/ drain \/ drainFlush \/ \E s \in Sid : drainSub(s)
  PROVE  QueueInv' /\ CallInv'
<1>0. /\ TypeOK /\ QueueInv /\ CallInv /\ NoInfoYet
      /\ subs \in [Sid -> Subscription] /\ Sid \subseteq Nat
  BY CallFacts
<1>1. CASE flush
  <2> DEFINE f == flushes + 1
             t == FlushCall(f)
  <2>1. f \in 1..MaxFlushes /\ t \in Tag /\ flushes \in Nat /\ f > flushes
    BY <1>0, <1>1, TagType, ProtocolAssumption DEF flush, TypeOK
  <2>2. flushed[t] = "none" /\ t # Connect
    BY <1>0, <2>1, TagsDiffer DEF CallInv
  <2>3. /\ pushPong(<<t>>) /\ SetIO(flushPing(IO, t)) /\ flushes' = f
        /\ UNCHANGED link /\ UNCHANGED <<s2c, recent, served, sidCounter, subs, connDrain>>
    BY <1>1 DEF flush
  <2> HIDE DEF t
  <2>4. QueueInv'
    BY <1>0, <2>1, <2>2, <2>3, FlushKeeps
  <2>5. \A u \in Tag : u # t => flushed'[u] = flushed[u]
    <3>1. Len(<<t>>) = 1 /\ <<t>>[1] = t
      OBVIOUS
    <3>2. \A i \in 1..Len(<<t>>) : <<t>>[i] = t
      OBVIOUS
    <3> QED
      BY <2>3, <3>2 DEF pushPong
  <2> HIDE DEF f
  <2>6. \A g \in 1..MaxFlushes : g > f => g > flushes /\ flushed'[FlushCall(g)] = flushed[FlushCall(g)]
    <3>1. ASSUME NEW g \in 1..MaxFlushes, g > f
          PROVE  g > flushes /\ flushed'[FlushCall(g)] = flushed[FlushCall(g)]
      <4>1. g > flushes /\ g # f
        BY <2>1, <3>1
      <4>2. FlushCall(g) \in Tag /\ FlushCall(g) # t
        BY <4>1, TagType, TagsDiffer DEF t
      <4> QED
        BY <2>5, <4>1, <4>2
    <3> QED
      BY <3>1
  <2>7. /\ flushed'[Final] = flushed[Final]
        /\ \A s \in Sid : flushed'[DrainOf(s)] = flushed[DrainOf(s)]
    BY <2>5, TagType, TagsDiffer DEF t
  <2>8. CallInv'
    BY <1>0, <2>3, <2>6, <2>7, CallKeeps DEF CallInv, StaysFresh
  <2> QED
    BY <2>4, <2>8
<1>2. CASE drainFlush
  <2>1. /\ pushPong(<<Final>>) /\ SetIO(flushPing(IO, Final)) /\ connDrain' = "final"
        /\ UNCHANGED link /\ UNCHANGED <<s2c, recent, served, sidCounter, subs, flushes>>
        /\ connDrain = "subs"
    BY <1>2 DEF drainFlush, counters
  <2>2. flushed[Final] = "none" /\ Final # Connect /\ Final \in Tag
    BY <1>0, <2>1, TagType, TagsDiffer DEF CallInv
  <2>3. QueueInv'
    BY <1>0, <2>1, <2>2, FlushKeeps
  <2>4. \A u \in Tag : u # Final => flushed'[u] = flushed[u]
    <3>1. \A i \in 1..Len(<<Final>>) : <<Final>>[i] = Final
      OBVIOUS
    <3> QED
      BY <2>1, <3>1 DEF pushPong
  <2>5. /\ \A f \in 1..MaxFlushes : flushed'[FlushCall(f)] = flushed[FlushCall(f)]
        /\ \A s \in Sid : flushed'[DrainOf(s)] = flushed[DrainOf(s)]
    BY <2>4, TagType, TagsDiffer
  <2>6. CallInv'
    BY <1>0, <2>1, <2>5, CallKeeps DEF CallInv, StaysFresh
  <2> QED
    BY <2>3, <2>6
<1>3. ASSUME NEW S \in SUBSET Sid, NEW q \in Seq(Sid),
             \A i \in 1..Len(q) : q[i] \in S,
             \A s \in S : subs[s].drain = "no" /\ s <= sidCounter,
             pushPong(Drainers(q)), SetIO(drainIO(IO, q)),
             \A s \in Sid : (s \in S /\ subs'[s] = startDrain(subs[s])) \/ (s \notin S /\ subs'[s] = subs[s]),
             connDrain' \in {"no", "subs"} => connDrain \in {"no", "subs"},
             UNCHANGED link, UNCHANGED <<s2c, recent, served, sidCounter, flushes>>
      PROVE  QueueInv' /\ CallInv'
  <2>1. \A i \in 1..Len(q) : flushed[DrainOf(q[i])] = "none"
    BY <1>0, <1>3 DEF CallInv
  <2>2. QueueInv'
    BY <1>0, <1>3, <2>1, DrainKeeps
  <2>3. Len(Drainers(q)) = Len(q) /\ \A i \in 1..Len(q) : Drainers(q)[i] = DrainOf(q[i])
    BY DEF Drainers
  <2>4. \A u \in Tag : (\A s \in S : u # DrainOf(s)) => flushed'[u] = flushed[u]
    BY <1>3, <2>3 DEF pushPong
  <2>5. /\ \A f \in 1..MaxFlushes : flushed'[FlushCall(f)] = flushed[FlushCall(f)]
        /\ flushed'[Final] = flushed[Final]
        /\ \A s \in Sid : s \notin S => flushed'[DrainOf(s)] = flushed[DrainOf(s)]
    BY <2>4, TagType, TagsDiffer
  <2>6. \A s \in S : startDrain(subs[s]).drain = "pending"
                     /\ startDrain(subs[s]).listed = subs[s].listed
    BY <1>0 DEF startDrain, Subscription
  <2>7. sidCounter \in Nat
    BY <1>0 DEF TypeOK
  <2>8. \A s \in Sid : subs'[s].drain = "no" \/ s > sidCounter' =>
           /\ subs[s].drain = "no" \/ s > sidCounter
           /\ flushed'[DrainOf(s)] = flushed[DrainOf(s)]
    <3>0. ASSUME NEW s \in S PROVE ~(s > sidCounter)
      <4>1. s \in Nat /\ s <= sidCounter
        BY <1>0, <1>3
      <4> QED
        BY <2>7, <4>1
    <3>1. \A s \in S : ~(s > sidCounter)
      BY <3>0
    <3> QED
      BY <1>3, <2>5, <2>6, <3>1
  <2>9. \A s \in Sid : subs'[s].listed => s <= sidCounter'
    BY <1>0, <1>3, <2>6 DEF CallInv
  <2>10. CallInv'
    BY <1>0, <1>3, <2>5, <2>8, <2>9, CallKeeps DEF StaysFresh
  <2> QED
    BY <2>2, <2>10
<1>4. CASE drain
  <2>1. PICK q \in InOrder(ToDrain) :
          /\ pushPong([i \in 1..Len(q) |-> DrainOf(q[i])])
          /\ SetIO(drainIO(IO, q))
    BY <1>4 DEF drain
  <2>2. ToDrain \in SUBSET Sid
    BY DEF ToDrain, Listed
  <2>3. q \in Seq(Sid) /\ \A i \in 1..Len(q) : q[i] \in ToDrain
    BY <2>2, InOrderType
  <2>4. \A s \in ToDrain : subs[s].drain = "no" /\ s <= sidCounter
    BY <1>0 DEF ToDrain, Listed, CallInv
  <2>5. /\ \A s \in Sid : (s \in ToDrain /\ subs'[s] = startDrain(subs[s]))
                          \/ (s \notin ToDrain /\ subs'[s] = subs[s])
        /\ connDrain = "no" /\ UNCHANGED link
        /\ UNCHANGED <<s2c, recent, served, sidCounter, flushes>>
    BY <1>4 DEF drain, draining, counters
  <2>6. pushPong(Drainers(q))
    BY <2>1 DEF Drainers
  <2> QED
    BY <1>3, <2>1, <2>2, <2>3, <2>4, <2>5, <2>6
<1>5. ASSUME NEW s \in Sid, drainSub(s) PROVE QueueInv' /\ CallInv'
  <2>1. /\ subs[s].drain = "no" /\ s <= sidCounter /\ pushPong(<<DrainOf(s)>>)
        /\ SetIO(drainIO(IO, <<s>>)) /\ UNCHANGED link /\ connDrain' = connDrain
        /\ UNCHANGED <<s2c, recent, served, sidCounter, flushes>>
        /\ subs' = [subs EXCEPT ![s] = startDrain(subs[s])]
    BY <1>5 DEF drainSub, counters
  <2>2. <<s>> \in Seq(Sid) /\ {s} \in SUBSET Sid /\ \A i \in 1..Len(<<s>>) : <<s>>[i] \in {s}
    OBVIOUS
  <2>3. Drainers(<<s>>) = <<DrainOf(s)>>
    BY DEF Drainers
  <2>4. \A r \in Sid : (r \in {s} /\ subs'[r] = startDrain(subs[r]))
                       \/ (r \notin {s} /\ subs'[r] = subs[r])
    BY <1>0, <2>1
  <2>5. \A r \in {s} : subs[r].drain = "no" /\ r <= sidCounter
    BY <2>1
  <2>6. pushPong(Drainers(<<s>>)) /\ (connDrain' \in {"no", "subs"} => connDrain \in {"no", "subs"})
    BY <2>1, <2>3
  <2> QED
    BY <1>3, <2>1, <2>2, <2>4, <2>5, <2>6
<1> QED
  BY <1>1, <1>2, <1>4, <1>5

-----------------------------------------------------------------------------
(* PONGs, and transports that end.                                         *)

(* The wire goes down: nothing is paired any more, and what was resolved   *)
(* stays covered.                                                          *)
LEMMA GoneKeeps ==
  ASSUME QueueInv, transport' = "gone", c2s' = <<>>, s2c' = <<>>,
         UNCHANGED <<owed, served>>,
         \A t \in Tag : flushed'[t] = "resolved" => owed[t] \subseteq served,
         \A i \in 1..Len(pongs') : flushed'[pongs'[i]] # "none"
  PROVE  QueueInv'
<1>1. Len(<<>>) = 0 /\ 1..0 = {}
  OBVIOUS
<1>2. ~Kept' /\ ~Starting' /\ NoInfoYet'
  BY DEF Kept, Starting, NoInfoYet
<1>3. PairInv'
  BY <1>2 DEF PairInv
<1>4. Covered(owed', served', c2s')
  BY <1>1 DEF Covered
<1>5. CoverInv'
  BY <1>1, <1>2, <1>4 DEF QueueInv, CoverInv
<1>6. Marks(c2s') = {} /\ Marks(s2c') = {}
  BY <1>1 DEF Marks
<1>7. FreshInv'
  BY <1>2, <1>6 DEF FreshInv
<1> QED
  BY <1>3, <1>5, <1>7 DEF QueueInv

(* A PONG finds the caller of the PING it answers. *)
LEMMA Finds ==
  ASSUME BarrierInv, Reading, Head(s2c).op = "PONG", pongs # <<>>
  PROVE  /\ infoReceived /\ Head(pongs) = Head(s2c).tag /\ Head(pongs) \in Tag
         /\ transport = "open" => Tail(pongs) = Tags(Tail(s2c)) \o Tags(Written)
         /\ transport = "leaving" =>
              \E rest \in Seq(Tag) : Tail(pongs) = (Tags(Tail(s2c)) \o Tags(c2s)) \o rest
         /\ owed[Head(pongs)] \subseteq served /\ flushed[Head(pongs)] # "none"
         /\ \A i \in 1..Len(Tail(pongs)) : flushed[Tail(pongs)[i]] # "none"
<1>0. TypeOK /\ QueueInv /\ WireInv
  BY DEF BarrierInv, StrandedInv
<1>1. /\ s2c \in Seq(Frame) /\ s2c # <<>> /\ Head(s2c) \in Frame /\ Head(s2c) = s2c[1]
      /\ pongs \in Seq(Tag) /\ Len(s2c) # 0 /\ Len(s2c) \in Nat
  BY <1>0 DEF Reading, TypeOK
<1>2. transport \in {"open", "leaving"} /\ 1 \in 1..Len(s2c)
  BY <1>1 DEF Reading
<1>3. infoReceived
  BY <1>0, <1>1, <1>2 DEF WireInv
<1> DEFINE t == Head(s2c).tag
           s == Tags(Tail(s2c))
           w == Tags(Written)
           c == Tags(c2s)
<1>4. Tags(s2c) = <<t>> \o s /\ t \in Tag /\ s \in Seq(Tag)
  <2>1. Marked(Head(s2c))
    BY DEF Marked
  <2> QED
    BY <1>1, <2>1, Taggings, TagsHead DEF Frame
<1>5. w \in Seq(Tag) /\ c \in Seq(Tag)
  BY <1>0, Taggings, TagsConcat, WrittenType DEF TypeOK
<1> HIDE DEF t, s, w, c
<1>6. \A r \in Seq(Tag) : /\ <<t>> \o r = Append(<<>>, t) \o r
                          /\ Head(<<t>> \o r) = t /\ Tail(<<t>> \o r) = r
  BY <1>4
<1>7. ASSUME transport = "open"
      PROVE  Head(pongs) = t /\ Tail(pongs) = s \o w
  <2>1. pongs = (<<t>> \o s) \o w
    BY <1>0, <1>3, <1>4, <1>7 DEF QueueInv, PairInv, w
  <2>2. (<<t>> \o s) \o w = <<t>> \o (s \o w) /\ s \o w \in Seq(Tag)
    BY <1>4, <1>5
  <2> QED
    BY <1>6, <2>1, <2>2
<1>8. ASSUME transport = "leaving"
      PROVE  Head(pongs) = t /\ \E rest \in Seq(Tag) : Tail(pongs) = (s \o c) \o rest
  <2>1. PICK rest \in Seq(Tag) : pongs = ((<<t>> \o s) \o c) \o rest
    BY <1>0, <1>4, <1>8 DEF QueueInv, PairInv, c
  <2>2. ((<<t>> \o s) \o c) \o rest = <<t>> \o ((s \o c) \o rest) /\ (s \o c) \o rest \in Seq(Tag)
    <3>1. (<<t>> \o s) \o c = <<t>> \o (s \o c) /\ s \o c \in Seq(Tag)
      BY <1>4, <1>5
    <3>2. (<<t>> \o (s \o c)) \o rest = <<t>> \o ((s \o c) \o rest)
      BY <1>4, <3>1
    <3> QED
      BY <3>1, <3>2
  <2> QED
    BY <1>6, <2>1, <2>2
<1>9. Head(pongs) = t
  BY <1>2, <1>7, <1>8
<1>10. owed[t] \subseteq served
  BY <1>0, <1>1, <1>2 DEF QueueInv, CoverInv, t
<1>11. \A i \in 1..Len(Tail(pongs)) : i + 1 \in 1..Len(pongs) /\ Tail(pongs)[i] = pongs[i + 1]
  BY <1>1
<1>12. flushed[Head(pongs)] # "none" /\ \A i \in 1..Len(Tail(pongs)) : flushed[Tail(pongs)[i]] # "none"
  <2>1. Head(pongs) = pongs[1] /\ 1 \in 1..Len(pongs)
    BY <1>1
  <2> QED
    BY <1>0, <1>11, <2>1 DEF QueueInv, FreshInv
<1> QED
  BY <1>2, <1>3, <1>4, <1>7, <1>8, <1>9, <1>10, <1>12 DEF t, s, w, c

(* processPong() and the end of a dial, which may write on an open         *)
(* transport commands without callers.                                     *)
LEMMA PongKeeps ==
  ASSUME BarrierInv, TypeOK', Reading, Head(s2c).op = "PONG", pongs # <<>>,
         s2c' = Tail(s2c), pongs' = Tail(pongs),
         flushed' = [flushed EXCEPT ![Head(pongs)] = "resolved"],
         UNCHANGED <<transport, infoReceived, recent, owed, served>>,
         transport # "open" => c2s' = c2s,
         transport = "open" =>
           /\ Tags(Written') = Tags(Written) /\ Pubs(Written') = Pubs(Written)
           /\ Marks(Written') \subseteq Marks(Written) /\ Marks(c2s') \subseteq Marks(Written)
           /\ Covered(owed, served, Written') /\ Covered(owed, served, c2s')
  PROVE  QueueInv'
<1>0. TypeOK /\ QueueInv /\ transport \in {"open", "leaving"}
  BY DEF BarrierInv, StrandedInv, Reading
<1>1. /\ infoReceived /\ Head(pongs) = Head(s2c).tag /\ Head(pongs) \in Tag
      /\ transport = "open" => Tail(pongs) = Tags(Tail(s2c)) \o Tags(Written)
      /\ transport = "leaving" =>
           \E rest \in Seq(Tag) : Tail(pongs) = (Tags(Tail(s2c)) \o Tags(c2s)) \o rest
      /\ owed[Head(pongs)] \subseteq served
      /\ \A i \in 1..Len(Tail(pongs)) : flushed[Tail(pongs)[i]] # "none"
  BY Finds
<1>2. s2c \in Seq(Frame) /\ s2c # <<>> /\ pongs \in Seq(Tag)
  BY <1>0 DEF TypeOK, Reading
<1>3. Kept' = Kept /\ ~Starting' /\ NoInfoYet' /\ (Kept <=> transport = "open")
  BY <1>0, <1>1 DEF Kept, Starting, NoInfoYet
<1>4. PairInv'
  BY <1>0, <1>1, <1>3 DEF PairInv
<1>5. /\ \A i \in 1..Len(Tail(s2c)) : i + 1 \in 1..Len(s2c) /\ Tail(s2c)[i] = s2c[i + 1]
      /\ Marks(Tail(s2c)) \subseteq Marks(s2c)
  <2>1. \A i \in 1..Len(Tail(s2c)) : i + 1 \in 1..Len(s2c) /\ Tail(s2c)[i] = s2c[i + 1]
    BY <1>2
  <2>2. Marks(Tail(s2c)) \subseteq Marks(s2c)
    BY <1>2, First
  <2> QED
    BY <2>1, <2>2
<1>6. \A t \in Tag : flushed'[t] = IF t = Head(pongs) THEN "resolved" ELSE flushed[t]
  BY <1>0 DEF TypeOK
<1>7. CoverInv'
  <2>1. \A i \in 1..Len(s2c') : s2c'[i].op = "PONG" => owed'[s2c'[i].tag] \subseteq served'
    BY <1>0, <1>5 DEF QueueInv, CoverInv
  <2>2. \A t \in Tag : flushed'[t] = "resolved" => owed'[t] \subseteq served'
    BY <1>0, <1>1, <1>6 DEF QueueInv, CoverInv
  <2>3. Covered(owed', served', c2s')
    BY <1>0 DEF QueueInv, CoverInv
  <2>4. transport = "open" => Covered(owed', served', Written') /\ recent' \subseteq served' \cup Pubs(Written')
    BY <1>0, <1>3 DEF QueueInv, CoverInv
  <2> QED
    BY <1>0, <1>3, <2>1, <2>2, <2>3, <2>4 DEF QueueInv, CoverInv
<1>8. FreshInv'
  <2>1. \A t \in Tag : flushed'[t] = "none" => flushed[t] = "none"
    BY <1>6
  <2>2. \A t \in Tag : flushed'[t] = "none" => t \notin Marks(s2c') /\ t \notin Marks(c2s')
    BY <1>0, <1>3, <1>5, <2>1 DEF QueueInv, FreshInv
  <2>3. Kept' => \A t \in Tag : flushed'[t] = "none" => t \notin Marks(Written')
    BY <1>0, <1>3, <2>1 DEF QueueInv, FreshInv
  <2>4. \A i \in 1..Len(pongs') : flushed'[pongs'[i]] # "none"
    <3>1. \A i \in 1..Len(Tail(pongs)) : Tail(pongs)[i] \in Tag
      BY <1>2
    <3> QED
      BY <1>1, <1>6, <3>1
  <2>5. flushed'[Connect] # "none"
    BY <1>0, <1>6, TagType DEF QueueInv, FreshInv
  <2> QED
    BY <2>2, <2>3, <2>4, <2>5 DEF FreshInv
<1> QED
  BY <1>4, <1>7, <1>8 DEF QueueInv

-----------------------------------------------------------------------------
(* The server.                                                             *)

(* The server processes a command: a publication is served, a PING is      *)
(* answered after everything sent before it.                               *)
LEMMA RecvKeeps ==
  ASSUME BarrierInv, TypeOK', serverRecv
  PROVE  QueueInv'
<1> DEFINE h == Head(c2s)
           r == Tail(c2s)
<1>0. TypeOK /\ QueueInv /\ WireInv /\ transport \in {"open", "leaving"}
  BY DEF BarrierInv, StrandedInv, serverRecv, Served
<1>1. /\ c2s \in Seq(Command) /\ c2s # <<>> /\ s2c \in Seq(Frame) /\ outbound \in Seq(Command)
      /\ h \in Command /\ r \in Seq(Command) /\ c2s' = r
  BY <1>0, SMTT(30) DEF TypeOK, serverRecv
<1>2. /\ UNCHANGED <<transport, infoReceived, outbound, pongs, flushed, recent, owed>>
      /\ s2c' = IF h.op = "PING" THEN Append(s2c, PONG(h.tag)) ELSE s2c
      /\ served' = IF h.op = "PUB" THEN served \cup {h.sid} ELSE served
  BY DEF serverRecv, client
<1>3. infoReceived
  BY <1>0, <1>1 DEF WireInv
<1>4. /\ Written \in Seq(Command) /\ Written # <<>> /\ Head(Written) = h
      /\ Tail(Written) = r \o outbound /\ Written' = Tail(Written) /\ Tail(Written) \in Seq(Command)
  <2>1. /\ c2s \o outbound \in Seq(Command) /\ c2s \o outbound # <<>>
        /\ Head(c2s \o outbound) = Head(c2s) /\ Tail(c2s \o outbound) = Tail(c2s) \o outbound
        /\ Tail(c2s \o outbound) \in Seq(Command)
    BY <1>1
  <2> QED
    BY <1>1, <1>2, <2>1 DEF Written
<1>5. h.op = "PING" => h.tag \in Tag /\ PONG(h.tag) \in Frame /\ PONG(h.tag).op = "PONG"
                       /\ PONG(h.tag).tag = h.tag
  BY <1>1, FrameType, Ops DEF Command
<1>6. Marked(h) <=> h.op = "PING"
  <2>1. h.op \in {"SUB", "UNSUB", "PUB", "PING"}
    BY <1>1 DEF Command
  <2> QED
    BY <2>1 DEF Marked
<1>7. served' = served \cup Pubs(<<h>>)
  BY <1>1, <1>2, Single
<1>8. /\ Marks(r) \subseteq Marks(c2s) /\ (h.op = "PING" => h.tag \in Marks(c2s))
      /\ Covered(owed, served, c2s) =>
           Covered(owed, served', r) /\ (h.op = "PING" => owed[h.tag] \subseteq served)
  BY <1>1, <1>6, <1>7, First
<1>9. /\ Marks(Written') \subseteq Marks(Written)
      /\ Pubs(Written) = Pubs(<<h>>) \cup Pubs(Written')
      /\ Covered(owed, served, Written) => Covered(owed, served', Written')
  BY <1>4, <1>7, First
<1> HIDE DEF h, r
<1>10. Kept' = Kept /\ ~Starting /\ ~Starting' /\ NoInfoYet' /\ (Kept <=> transport = "open")
  BY <1>0, <1>2, <1>3 DEF Kept, Starting, NoInfoYet
<1>11. Tags(c2s) \in Seq(Tag) /\ Tags(r) \in Seq(Tag) /\ Tags(Written) \in Seq(Tag)
       /\ Tags(Tail(Written)) \in Seq(Tag) /\ Tags(s2c) \in Seq(Tag)
  BY <1>1, <1>4, Taggings, TagsConcat
<1>12. /\ h.op = "PING" => /\ Tags(c2s) = <<h.tag>> \o Tags(r)
                           /\ Tags(Written) = <<h.tag>> \o Tags(Tail(Written))
                           /\ Tags(s2c') = Append(Tags(s2c), h.tag)
       /\ h.op # "PING" => Tags(c2s) = Tags(r) /\ Tags(Written) = Tags(Tail(Written))
                           /\ Tags(s2c') = Tags(s2c)
  <2>1. /\ Marked(h) => Tags(c2s) = <<h.tag>> \o Tags(r)
        /\ ~Marked(h) => Tags(c2s) = Tags(r)
    BY <1>1, Taggings, TagsHead DEF h, r
  <2>2. /\ Marked(h) => Tags(Written) = <<h.tag>> \o Tags(Tail(Written))
        /\ ~Marked(h) => Tags(Written) = Tags(Tail(Written))
    BY <1>4, Taggings, TagsHead
  <2>3. ASSUME h.op = "PING" PROVE Tags(s2c') = Append(Tags(s2c), h.tag)
    <3>1. Tags(Append(s2c, PONG(h.tag))) = Tagged(Tags(s2c), PONG(h.tag))
      BY <1>1, <1>5, <2>3, TagsAppend
    <3>2. Marked(PONG(h.tag))
      BY <1>5, <2>3 DEF Marked
    <3> QED
      BY <1>2, <1>5, <2>3, <3>1, <3>2 DEF Tagged
  <2> QED
    BY <1>2, <1>6, <2>1, <2>2, <2>3
<1>13. \A ts, us \in Seq(Tag), t \in Tag : Append(ts, t) \o us = ts \o (<<t>> \o us)
  OBVIOUS
<1>14. Tags(s2c') \o Tags(r) = Tags(s2c) \o Tags(c2s)
       /\ Tags(s2c') \o Tags(Tail(Written)) = Tags(s2c) \o Tags(Written)
  <2>1. CASE h.op = "PING"
    <3>1. /\ Append(Tags(s2c), h.tag) \o Tags(r) = Tags(s2c) \o (<<h.tag>> \o Tags(r))
          /\ Append(Tags(s2c), h.tag) \o Tags(Tail(Written))
               = Tags(s2c) \o (<<h.tag>> \o Tags(Tail(Written)))
      BY <1>5, <1>11, <1>13, <2>1
    <3> QED
      BY <1>12, <2>1, <3>1
  <2>2. CASE h.op # "PING"
    BY <1>12, <2>2
  <2> QED
    BY <2>1, <2>2
<1>15. PairInv'
  BY <1>0, <1>1, <1>2, <1>3, <1>4, <1>10, <1>14 DEF QueueInv, PairInv
<1>16. \A i \in 1..Len(s2c') : \/ i \in 1..Len(s2c) /\ s2c'[i] = s2c[i]
                               \/ h.op = "PING" /\ s2c'[i] = PONG(h.tag)
  <2>1. \A e \in Frame : \A i \in 1..Len(Append(s2c, e)) :
           (i \in 1..Len(s2c) /\ Append(s2c, e)[i] = s2c[i]) \/ Append(s2c, e)[i] = e
    BY <1>1
  <2>2. CASE h.op = "PING"
    <3>1. s2c' = Append(s2c, PONG(h.tag))
      BY <1>2, <2>2
    <3> QED
      BY <1>5, <2>1, <2>2, <3>1
  <2>3. CASE h.op # "PING"
    BY <1>2, <2>3
  <2> QED
    BY <2>2, <2>3
<1>17. CoverInv'
  <2>1. \A t \in Tag : flushed'[t] = "resolved" => owed'[t] \subseteq served'
    BY <1>0, <1>2, <1>7 DEF QueueInv, CoverInv
  <2>2. ASSUME NEW i \in 1..Len(s2c'), s2c'[i].op = "PONG"
        PROVE  owed'[s2c'[i].tag] \subseteq served'
    <3>1. CASE i \in 1..Len(s2c) /\ s2c'[i] = s2c[i]
      BY <1>0, <1>2, <1>7, <2>2, <3>1 DEF QueueInv, CoverInv
    <3>2. CASE h.op = "PING" /\ s2c'[i] = PONG(h.tag)
      BY <1>0, <1>2, <1>5, <1>7, <1>8, <3>2 DEF QueueInv, CoverInv
    <3> QED
      BY <1>16, <3>1, <3>2
  <2>3. Covered(owed', served', c2s')
    BY <1>0, <1>1, <1>2, <1>8 DEF QueueInv, CoverInv
  <2>4. Kept' => Covered(owed', served', Written') /\ recent' \subseteq served' \cup Pubs(Written')
    BY <1>0, <1>2, <1>7, <1>9, <1>10 DEF QueueInv, CoverInv
  <2>5. owed'[Connect] = {}
    BY <1>0, <1>2 DEF QueueInv, CoverInv
  <2> QED
    BY <2>1, <2>2, <2>3, <2>4, <2>5 DEF CoverInv
<1>18. Marks(s2c') \subseteq Marks(s2c) \cup Marks(c2s)
  <2>1. ASSUME NEW t \in Marks(s2c') PROVE t \in Marks(s2c) \cup Marks(c2s)
    <3>1. PICK i \in 1..Len(s2c') : Marked(s2c'[i]) /\ t = s2c'[i].tag
      BY MarksHas
    <3>2. CASE i \in 1..Len(s2c) /\ s2c'[i] = s2c[i]
      BY <3>1, <3>2, MarksHas
    <3>3. CASE h.op = "PING" /\ s2c'[i] = PONG(h.tag)
      BY <1>5, <1>8, <3>1, <3>3
    <3> QED
      BY <1>16, <3>2, <3>3
  <2> QED
    BY <2>1
<1>19. FreshInv'
  BY <1>0, <1>1, <1>2, <1>8, <1>9, <1>10, <1>18 DEF QueueInv, FreshInv
<1> QED
  BY <1>15, <1>17, <1>19 DEF QueueInv

(* The server sends a message. *)
LEMMA SendKeeps ==
  ASSUME BarrierInv, TypeOK', NEW s \in Sid, serverMsg(s)
  PROVE  QueueInv'
<1>0. TypeOK /\ QueueInv /\ s2c \in Seq(Frame) /\ s \in Nat
  <2>1. TypeOK /\ QueueInv /\ Sid \subseteq Nat
    BY CallFacts
  <2> QED
    BY <2>1 DEF TypeOK
<1>1. /\ UNCHANGED <<transport, infoReceived, outbound, pongs, c2s, flushed, recent, owed, served>>
      /\ s2c' = Append(s2c, MSG(s))
  BY DEF serverMsg, client, history
<1>2. Written' = Written /\ Kept' = Kept /\ Starting' = Starting /\ NoInfoYet' = NoInfoYet
  BY <1>1 DEF Written, Kept, Starting, NoInfoYet
<1>3. MSG(s) \in Frame /\ MSG(s).op = "MSG" /\ ~Marked(MSG(s))
  BY <1>0, FrameType, TagType, Ops DEF Marked
<1>4. Tags(s2c') = Tags(s2c)
  BY <1>0, <1>1, <1>3, TagsAppend DEF Tagged
<1>5. \A i \in 1..Len(s2c') : (i \in 1..Len(s2c) /\ s2c'[i] = s2c[i]) \/ s2c'[i] = MSG(s)
  <2>1. \A e \in Frame : \A i \in 1..Len(Append(s2c, e)) :
           (i \in 1..Len(s2c) /\ Append(s2c, e)[i] = s2c[i]) \/ Append(s2c, e)[i] = e
    BY <1>0
  <2> QED
    BY <1>1, <1>3, <2>1
<1>6. PairInv'
  BY <1>0, <1>1, <1>2, <1>4 DEF QueueInv, PairInv
<1>7. CoverInv'
  <2>1. \A i \in 1..Len(s2c') : s2c'[i].op = "PONG" => owed'[s2c'[i].tag] \subseteq served'
    BY <1>0, <1>1, <1>3, <1>5 DEF QueueInv, CoverInv
  <2> QED
    BY <1>0, <1>1, <1>2, <2>1 DEF QueueInv, CoverInv
<1>8. Marks(s2c') \subseteq Marks(s2c)
  <2>1. ASSUME NEW t \in Marks(s2c') PROVE t \in Marks(s2c)
    BY <1>3, <1>5, MarksHas
  <2> QED
    BY <2>1
<1>9. FreshInv'
  BY <1>0, <1>1, <1>2, <1>8 DEF QueueInv, FreshInv
<1> QED
  BY <1>6, <1>7, <1>9 DEF QueueInv

-----------------------------------------------------------------------------
(* INFO, PONG and the end of a dial.                                       *)

(* processInfo(): the first INFO of a transport writes the PING that the   *)
(* dial waits for, ahead of what waits in outbound.                        *)
LEMMA InfoKeeps ==
  ASSUME BarrierInv, TypeOK', processInfo
  PROVE  QueueInv'
<1>0. TypeOK /\ QueueInv /\ WireInv /\ transport \in {"open", "leaving"}
  BY DEF BarrierInv, StrandedInv, processInfo, Reading
<1>1. /\ UNCHANGED <<transport, outbound, pongs, flushed, recent, owed, served>>
      /\ infoReceived' /\ s2c' = Tail(s2c) /\ s2c # <<>> /\ Head(s2c).op = "INFO"
  BY DEF processInfo, history, Reading
<1>2. ReadsPast
  BY <1>1 DEF ReadsPast, Marked
<1>3. /\ Tags(s2c') = Tags(s2c) /\ Marks(s2c') \subseteq Marks(s2c)
      /\ \A i \in 1..Len(s2c') : \E j \in 1..Len(s2c) : s2c'[i] = s2c[j]
  BY <1>0, <1>2, Reads
<1>4. Kept' = Kept /\ ~Starting' /\ NoInfoYet' /\ (Kept <=> transport = "open")
  BY <1>0, <1>1 DEF Kept, Starting, NoInfoYet
<1>5. /\ c2s \in Seq(Command) /\ outbound \in Seq(Command) /\ Written \in Seq(Command)
  BY <1>0, WrittenType DEF TypeOK
<1>6. CASE c2s' = c2s /\ (transport = "open" => infoReceived)
  <2>1. Written' = Written
    BY <1>1, <1>6 DEF Written
  <2>2. PairInv'
    BY <1>0, <1>1, <1>3, <1>4, <1>6, <2>1 DEF QueueInv, PairInv
  <2>3. CoverInv'
    BY <1>0, <1>1, <1>3, <1>4, <1>6, <2>1 DEF QueueInv, CoverInv
  <2>4. FreshInv'
    BY <1>0, <1>1, <1>3, <1>4, <1>6, <2>1 DEF QueueInv, FreshInv
  <2> QED
    BY <2>2, <2>3, <2>4 DEF QueueInv
<1>7. CASE transport = "open" /\ ~infoReceived
  <2> DEFINE p == <<PING(Connect)>>
  <2>1. p \in Seq(Command) /\ PING(Connect) \in Command
    BY PingType, TagType
  <2>2. c2s = <<>>
    BY <1>0, <1>7 DEF WireInv
  <2>3. c2s' = p
    <3>1. c2s' = TransportSend(IO, p).wire
      BY <1>7 DEF processInfo
    <3>2. TransportSend(IO, p).wire = c2s \o p
      BY <1>7 DEF TransportSend, IO
    <3> HIDE DEF p
    <3>3. <<>> \o p = p
      BY <2>1
    <3> QED
      BY <2>2, <3>1, <3>2, <3>3
  <2>4. Written = outbound /\ Written' = p \o outbound
    <3>1. <<>> \o outbound = outbound
      BY <1>5
    <3> QED
      BY <1>1, <2>2, <2>3, <3>1 DEF Written
  <2>5. /\ Marks(p) = {Connect} /\ Pubs(p) = {} /\ Tags(p) = <<Connect>>
        /\ Covered(owed, served, p)
    <3>1. Marked(PING(Connect)) /\ PING(Connect).op = "PING" /\ PING(Connect).tag = Connect
      BY Ops DEF Marked
    <3>2. owed[Connect] \subseteq served
      BY <1>0 DEF QueueInv, CoverInv
    <3> QED
      BY <2>1, <3>1, <3>2, Single
  <2> HIDE DEF p
  <2>6. /\ Tags(p \o outbound) = Tags(p) \o Tags(outbound) /\ Tags(outbound) \in Seq(Tag)
        /\ Marks(p \o outbound) = Marks(p) \cup Marks(outbound)
        /\ Pubs(p \o outbound) = Pubs(p) \cup Pubs(outbound)
    <3>1. Tags(p \o outbound) = Tags(p) \o Tags(outbound) /\ Tags(outbound) \in Seq(Tag)
      BY <1>5, <2>1, Taggings, TagsConcat
    <3>2. Marks(p \o outbound) = Marks(p) \cup Marks(outbound)
      BY <1>5, <2>1, MarksConcat
    <3>3. Pubs(p \o outbound) = Pubs(p) \cup Pubs(outbound)
      BY <1>5, <2>1, PubsOfBoth
    <3> QED
      BY <3>1, <3>2, <3>3
  <2>7. Starting
    BY <1>7 DEF Starting
  <2>8. PairInv'
    <3>1. pongs = <<Connect>> \o Tags(outbound) /\ Tags(s2c) = <<>>
      BY <1>0, <2>4, <2>7 DEF QueueInv, PairInv
    <3>2. <<>> \o (<<Connect>> \o Tags(outbound)) = <<Connect>> \o Tags(outbound)
      <4>1. <<Connect>> \o Tags(outbound) \in Seq(Tag)
        BY <2>6, TagType
      <4> QED
        BY <4>1
    <3>3. Tags(s2c') \o Tags(Written') = pongs'
      BY <1>1, <1>3, <2>4, <2>5, <2>6, <3>1, <3>2
    <3> QED
      BY <1>1, <1>4, <1>7, <3>3 DEF PairInv
  <2>9. CoverInv'
    <3>1. Covered(owed, served, outbound) /\ recent \subseteq served \cup Pubs(outbound)
      BY <1>0, <1>4, <1>7, <2>4 DEF QueueInv, CoverInv
    <3>2. served \cup Pubs(p) = served
      BY <2>5
    <3>3. Covered(owed, served, p \o outbound)
      BY <1>5, <2>1, <2>5, <3>1, <3>2, CoveredConcat
    <3>4. \A i \in 1..Len(s2c') : s2c'[i].op = "PONG" => owed'[s2c'[i].tag] \subseteq served'
      BY <1>0, <1>1, <1>3 DEF QueueInv, CoverInv
    <3> QED
      BY <1>0, <1>1, <2>3, <2>4, <2>5, <2>6, <3>1, <3>3, <3>4 DEF QueueInv, CoverInv
  <2>10. FreshInv'
    <3>1. flushed[Connect] # "none" /\ \A t \in Tag : flushed[t] = "none" => t \notin Marks(outbound)
      BY <1>0, <1>4, <1>7, <2>4 DEF QueueInv, FreshInv
    <3> QED
      BY <1>0, <1>1, <1>3, <2>3, <2>4, <2>5, <2>6, <3>1 DEF QueueInv, FreshInv
  <2> QED
    BY <2>8, <2>9, <2>10 DEF QueueInv
<1>8. \/ c2s' = c2s /\ (transport = "open" => infoReceived)
      \/ transport = "open" /\ ~infoReceived
  <2>1. CASE infoReceived
    BY <2>1 DEF processInfo
  <2>2. CASE transport # "open"
    BY <2>2 DEF processInfo, TransportSend, IO
  <2> QED
    BY <2>1, <2>2
<1> QED
  BY <1>6, <1>7, <1>8

(* A flush() or a drain of a subscription hears its PONG. *)
LEMMA PongStep ==
  ASSUME BarrierInv, TypeOK', processPong
  PROVE  QueueInv'
<1>0. TypeOK /\ QueueInv
  BY DEF BarrierInv, StrandedInv
<1>1. /\ Reading /\ Head(s2c).op = "PONG" /\ pongs # <<>>
      /\ s2c' = Tail(s2c) /\ pongs' = Tail(pongs)
      /\ flushed' = [flushed EXCEPT ![Head(pongs)] = "resolved"]
      /\ UNCHANGED <<transport, infoReceived, recent, owed, served, c2s, outbound>>
  BY DEF processPong, link, history
<1>2. Written' = Written
  BY <1>1 DEF Written
<1>3. ASSUME transport = "open"
      PROVE  /\ Tags(Written') = Tags(Written) /\ Pubs(Written') = Pubs(Written)
             /\ Marks(Written') \subseteq Marks(Written) /\ Marks(c2s') \subseteq Marks(Written)
             /\ Covered(owed, served, Written') /\ Covered(owed, served, c2s')
  <2>1. Marks(c2s \o outbound) = Marks(c2s) \cup Marks(outbound)
    BY <1>0, MarksConcat, SMTT(30) DEF TypeOK
  <2>2. Marks(c2s) \subseteq Marks(Written)
    BY <2>1 DEF Written
  <2>3. Covered(owed, served, Written) /\ Covered(owed, served, c2s)
    BY <1>0, <1>3 DEF QueueInv, CoverInv, Kept
  <2> QED
    BY <1>1, <1>2, <2>2, <2>3
<1> QED
  BY <1>1, <1>3, PongKeeps

(* SUBs and UNSUBs between two sequences of commands change nothing.       *)
LEMMA Inserted ==
  ASSUME NEW a \in Seq(Command), NEW x \in Seq(Command), NEW b \in Seq(Command),
         \A i \in 1..Len(x) : x[i].op \in {"SUB", "UNSUB"}, NEW o, NEW S
  PROVE  /\ Tags((a \o x) \o b) = Tags(a \o b) /\ Marks((a \o x) \o b) = Marks(a \o b)
         /\ Pubs((a \o x) \o b) = Pubs(a \o b)
         /\ Covered(o, S, a \o b) => Covered(o, S, (a \o x) \o b)
<1>1. /\ Tags(x) = <<>> /\ Marks(x) = {} /\ Pubs(x) = {} /\ \A T : Covered(o, T, x)
  BY Plain
<1>2. a \o x \in Seq(Command)
  OBVIOUS
<1>3. Tags(a \o x) = Tags(a)
  <2>1. Tags(a \o x) = Tags(a) \o Tags(x) /\ Tags(a) \in Seq(Tag)
    BY Taggings, TagsConcat
  <2>2. \A t \in Seq(Tag) : t \o <<>> = t
    OBVIOUS
  <2> QED
    BY <1>1, <2>1, <2>2
<1>4. Marks(a \o x) = Marks(a) /\ Pubs(a \o x) = Pubs(a)
  <2>1. Marks(a \o x) = Marks(a) \cup Marks(x)
    BY MarksConcat
  <2>2. Pubs(a \o x) = Pubs(a) \cup Pubs(x)
    BY PubsOfBoth
  <2> QED
    BY <1>1, <2>1, <2>2
<1>5. Tags((a \o x) \o b) = Tags(a \o b)
  <2>1. Tags((a \o x) \o b) = Tags(a \o x) \o Tags(b)
    BY <1>2, Taggings, TagsConcat
  <2>2. Tags(a \o b) = Tags(a) \o Tags(b)
    BY Taggings, TagsConcat
  <2> QED
    BY <1>3, <2>1, <2>2
<1>6. Marks((a \o x) \o b) = Marks(a \o b)
  <2>1. Marks((a \o x) \o b) = Marks(a \o x) \cup Marks(b)
    BY <1>2, MarksConcat, ZenonT(40)
  <2>2. Marks(a \o b) = Marks(a) \cup Marks(b)
    BY MarksConcat
  <2> QED
    BY <1>4, <2>1, <2>2
<1>7. Pubs((a \o x) \o b) = Pubs(a \o b)
  <2>1. Pubs((a \o x) \o b) = Pubs(a \o x) \cup Pubs(b)
    BY <1>2, PubsOfBoth, ZenonT(40)
  <2>2. Pubs(a \o b) = Pubs(a) \cup Pubs(b)
    BY PubsOfBoth
  <2> QED
    BY <1>4, <2>1, <2>2
<1>8. ASSUME Covered(o, S, a \o b) PROVE Covered(o, S, (a \o x) \o b)
  <2>1. Covered(o, S, a) /\ Covered(o, S \cup Pubs(a), b)
    BY <1>8, CoveredConcat
  <2>2. Covered(o, S, a \o x)
    BY <1>1, <2>1, CoveredConcat
  <2> QED
    BY <1>2, <1>4, <2>1, <2>2, CoveredConcat
<1> QED
  BY <1>5, <1>6, <1>7, <1>8

(* The dial ends: the subscriptions and then the buffer go to the          *)
(* transport.                                                              *)
LEMMA DialWrites ==
  ASSUME TypeOK, dialDone
  PROVE  /\ outbound' = <<>> /\ (transport # "open" => c2s' = c2s)
         /\ \E q \in InOrder(Listed), x \in Seq(Command) :
              /\ Len(x) = Len(q) /\ \A i \in 1..Len(x) : x[i] = SUB(q[i])
              /\ transport = "open" => c2s' = (c2s \o x) \o outbound
<1>0. IO \in IOType /\ c2s \in Seq(Command) /\ outbound \in Seq(Command) /\ Sid \subseteq Nat
  BY IOTyped DEF TypeOK, Sid
<1>1. PICK q \in InOrder(Listed) :
        SetIO([TransportSend(sendSubscriptions(IO, q), outbound) EXCEPT !.out = <<>>])
  BY DEF dialDone
<1>2. q \in Seq(Sid)
  BY InOrderType DEF Listed
<1> DEFINE x == [i \in 1..Len(q) |-> SUB(q[i])]
           io == sendSubscriptions(IO, q)
<1>3. x \in Seq(Command) /\ Len(x) = Len(q) /\ \A i \in 1..Len(x) : x[i] = SUB(q[i])
  <2>1. \A i \in 1..Len(q) : SUB(q[i]) \in Command
    <3>1. \A i \in 1..Len(q) : q[i] \in Sid
      BY <1>2
    <3>2. 0 \in Nat
      OBVIOUS
    <3> QED
      BY <1>0, <3>1, <3>2, CommandType
  <2>2. x \in Seq(Command)
    BY <1>2, <2>1
  <2>3. Len(x) = Len(q)
    BY <1>2
  <2> QED
    BY <2>2, <2>3
<1>4. io = TransportSend(IO, x) /\ io \in IOType
  BY <1>0, <1>2, sendSubscriptionsType DEF sendSubscriptions
<1> HIDE DEF x
<1>5. io.wire = IF transport = "open" THEN c2s \o x ELSE c2s
  BY <1>4 DEF TransportSend, IO
<1> HIDE DEF io
<1>6. /\ TransportSend(io, outbound) \in IOType
      /\ TransportSend(io, outbound).wire = IF transport = "open" THEN io.wire \o outbound ELSE io.wire
  BY <1>0, <1>4, TransportSendType DEF TransportSend, IOType
<1>7. c2s' = TransportSend(io, outbound).wire /\ outbound' = <<>>
  <2>1. \A v \in IOType : [v EXCEPT !.out = <<>>].wire = v.wire /\ [v EXCEPT !.out = <<>>].out = <<>>
    BY DEF IOType
  <2> QED
    BY <1>1, <1>6, <2>1 DEF SetIO, io
<1>8. transport # "open" => c2s' = c2s
  BY <1>5, <1>6, <1>7
<1>9. transport = "open" => c2s' = (c2s \o x) \o outbound
  BY <1>5, <1>6, <1>7
<1> QED
  BY <1>3, <1>7, <1>8, <1>9

(* That keeps the invariant. *)
LEMMA DialKeeps ==
  ASSUME BarrierInv, TypeOK', dialDone
  PROVE  QueueInv'
<1>0. /\ TypeOK /\ QueueInv
      /\ c2s \in Seq(Command) /\ outbound \in Seq(Command)
  BY CallFacts DEF TypeOK
<1>1. /\ Reading /\ Head(s2c).op = "PONG" /\ pongs # <<>>
      /\ s2c' = Tail(s2c) /\ pongs' = Tail(pongs)
      /\ flushed' = [flushed EXCEPT ![Head(pongs)] = "resolved"]
      /\ UNCHANGED <<transport, infoReceived, recent, owed, served>>
  BY DEF dialDone, history
<1>2. outbound' = <<>> /\ (transport # "open" => c2s' = c2s)
  BY <1>0, DialWrites
<1>3. PICK q \in InOrder(Listed), x \in Seq(Command) :
        /\ Len(x) = Len(q) /\ \A i \in 1..Len(x) : x[i] = SUB(q[i])
        /\ transport = "open" => c2s' = (c2s \o x) \o outbound
  BY <1>0, DialWrites
<1>4. \A i \in 1..Len(x) : x[i].op \in {"SUB", "UNSUB"}
  BY <1>3, Ops
<1>5. ASSUME transport = "open"
      PROVE  /\ Tags(Written') = Tags(Written) /\ Pubs(Written') = Pubs(Written)
             /\ Marks(Written') \subseteq Marks(Written) /\ Marks(c2s') \subseteq Marks(Written)
             /\ Covered(owed, served, Written') /\ Covered(owed, served, c2s')
  <2>1. c2s' = (c2s \o x) \o outbound
    BY <1>3, <1>5
  <2>2. Written' = c2s'
    <3>1. \A w \in Seq(Command) : w \o <<>> = w
      OBVIOUS
    <3>2. (c2s \o x) \o outbound \in Seq(Command)
      BY <1>0
    <3> QED
      BY <1>2, <2>1, <3>1, <3>2 DEF Written
  <2>3. Covered(owed, served, c2s \o outbound)
    BY <1>0, <1>5 DEF QueueInv, CoverInv, Kept, Written
  <2>4. /\ Tags(c2s') = Tags(c2s \o outbound) /\ Marks(c2s') = Marks(c2s \o outbound)
        /\ Pubs(c2s') = Pubs(c2s \o outbound) /\ Covered(owed, served, c2s')
    BY <1>0, <1>4, <2>1, <2>3, Inserted
  <2> QED
    BY <2>2, <2>4 DEF Written
<1> QED
  BY <1>1, <1>2, <1>5, PongKeeps

-----------------------------------------------------------------------------
(* What ends without a PONG.                                               *)

(* What ends the drain of a subscription, or the subscription. *)
Ends(new, old) == (new.drain = old.drain \/ new.drain = "settled") /\ (new.listed => old.listed)

(* A step that calls nothing, and answers only those who wait. *)
LEMMA CallEnds ==
  ASSUME CallInv, UNCHANGED <<flushes, sidCounter>>, connDrain' = connDrain \/ connDrain' = "settled",
         \A t \in Tag : t # Connect => StaysFresh(t),
         \A s \in Sid : Ends(subs'[s], subs[s])
  PROVE  CallInv'
<1>1. /\ StaysFresh(Final) /\ \A f \in 1..MaxFlushes : StaysFresh(FlushCall(f))
      /\ \A s \in Sid : StaysFresh(DrainOf(s))
  BY TagType, TagsDiffer
<1>2. \A s \in Sid : subs'[s].drain = "no" => subs[s].drain = "no"
  BY DEF Ends
<1>3. \A s \in Sid : subs'[s].listed => s <= sidCounter'
  BY DEF Ends, CallInv
<1> QED
  BY <1>1, <1>2, <1>3, CallKeeps

(* Settling drains, and closing. *)
LEMMA EndsOps ==
  ASSUME subs \in [Sid -> Subscription]
  PROVE  /\ \A tags : \A s \in Sid : Ends(settleDrains(tags)[s], subs[s])
         /\ doClose => \A s \in Sid : Ends(subs'[s], subs[s])
         /\ \A s \in Sid : Ends(subs[s], subs[s])
<1>0. \A s \in Sid : Ends(subs[s], subs[s])
  BY DEF Ends
<1>1. ASSUME NEW tags, NEW s \in Sid PROVE Ends(settleDrains(tags)[s], subs[s])
  <2>1. cancelSub(s, subs[s]) \in Subscription /\ Milder(cancelSub(s, subs[s]), subs[s])
    BY MilderOps, SubscriptionOps
  <2>2. Ends([cancelSub(s, subs[s]) EXCEPT !.drain = "settled"], subs[s])
    BY <2>1 DEF Subscription, Milder, Ends
  <2>3. \/ settleDrains(tags)[s] = [cancelSub(s, subs[s]) EXCEPT !.drain = "settled"]
        \/ settleDrains(tags)[s] = subs[s]
    BY DEF settleDrains
  <2> QED
    BY <1>0, <2>2, <2>3
<1>2. ASSUME doClose, NEW s \in Sid PROVE Ends(subs'[s], subs[s])
  <2>1. Milder(closeSub(s, subs[s]), subs[s])
    BY MilderOps
  <2>2. subs'[s] = closeSub(s, subs[s]) \/ subs'[s] = subs[s]
    BY <1>2 DEF doClose
  <2> QED
    BY <2>1, <2>2 DEF Milder, Ends
<1> QED
  BY <1>0, <1>1, <1>2

(* The calls, when frames are read or sent. *)
LEMMA CallFrames ==
  ASSUME BarrierInv, TypeOK',
         processInfo \/ processPong \/ drainClose \/ dialDone \/ serverRecv
           \/ \E s \in Sid : serverMsg(s)
  PROVE  CallInv'
<1>0. TypeOK /\ CallInv /\ subs \in [Sid -> Subscription] /\ flushed \in [Tag -> {"none", "pending", "resolved", "rejected"}]
  BY CallFacts DEF TypeOK
<1>1. CASE processInfo \/ serverRecv \/ \E s \in Sid : serverMsg(s)
  <2>1. UNCHANGED <<flushes, flushed, connDrain, sidCounter, subs>>
    BY <1>1 DEF processInfo, serverRecv, serverMsg, client, counters
  <2> QED
    BY <1>0, <2>1, CallIdle DEF Milder
<1>2. CASE processPong \/ drainClose \/ dialDone
  <2>1. /\ Reading /\ Head(s2c).op = "PONG" /\ pongs # <<>>
        /\ flushed' = [flushed EXCEPT ![Head(pongs)] = "resolved"]
        /\ UNCHANGED <<flushes, sidCounter>> /\ (connDrain' = connDrain \/ connDrain' = "settled")
        /\ subs' = settleDrains({Head(pongs)}) \/ doClose \/ subs' = subs
    BY <1>2 DEF processPong, drainClose, dialDone, counters
  <2>2. flushed[Head(pongs)] # "none" /\ Head(pongs) \in Tag
    BY <2>1, Finds
  <2>3. \A t \in Tag : StaysFresh(t)
    BY <1>0, <2>1, <2>2 DEF StaysFresh
  <2>4. \A s \in Sid : Ends(subs'[s], subs[s])
    BY <1>0, <2>1, EndsOps
  <2> QED
    BY <1>0, <2>1, <2>3, <2>4, CallEnds
<1> QED
  BY <1>1, <1>2

(* The last PONG of drain(), and the ends of a transport without one. *)
LEMMA BarrierGone ==
  ASSUME BarrierInv, TypeOK',
         drainClose \/ close \/ giveUp \/ dialFail \/ socketLost \/ transportLeft
  PROVE  QueueInv' /\ CallInv'
<1>0. /\ TypeOK /\ QueueInv /\ CallInv /\ subs \in [Sid -> Subscription] /\ pongs \in Seq(Tag)
      /\ flushed \in [Tag -> {"none", "pending", "resolved", "rejected"}]
  BY CallFacts DEF TypeOK
<1>1. /\ \A t \in Tag : flushed[t] = "resolved" => owed[t] \subseteq served
      /\ \A i \in 1..Len(pongs) : flushed[pongs[i]] # "none"
  BY <1>0 DEF QueueInv, CoverInv, FreshInv
<1>2. CASE drainClose
  <2>1. /\ Reading /\ Head(s2c).op = "PONG" /\ pongs # <<>> /\ Head(pongs) = Final
        /\ pongs' = Tail(pongs) /\ flushed' = [flushed EXCEPT ![Final] = "resolved"]
        /\ transport' = "gone" /\ c2s' = <<>> /\ s2c' = <<>> /\ UNCHANGED <<owed, served>>
    BY <1>2 DEF drainClose, doClose, history
  <2>2. /\ owed[Final] \subseteq served
        /\ \A i \in 1..Len(Tail(pongs)) : flushed[Tail(pongs)[i]] # "none"
    BY <2>1, Finds
  <2>3. \A t \in Tag : flushed'[t] = IF t = Final THEN "resolved" ELSE flushed[t]
    BY <1>0, <2>1
  <2>4. \A t \in Tag : flushed'[t] = "resolved" => owed[t] \subseteq served
    BY <1>1, <2>2, <2>3
  <2>5. \A i \in 1..Len(pongs') : flushed'[pongs'[i]] # "none"
    <3>1. \A i \in 1..Len(Tail(pongs)) : Tail(pongs)[i] \in Tag
      BY <1>0, <2>1
    <3> QED
      BY <2>1, <2>2, <2>3, <3>1
  <2>6. QueueInv'
    BY <1>0, <2>1, <2>4, <2>5, GoneKeeps
  <2> QED
    BY <1>2, <2>6, CallFrames
<1>3. CASE close \/ giveUp \/ dialFail \/ socketLost \/ transportLeft
  <2>1. /\ UNCHANGED <<pongs, flushed, owed, served, flushes, sidCounter, connDrain>>
        /\ transport' = "gone" /\ c2s' = <<>> /\ s2c' = <<>>
        /\ doClose \/ subs' = subs
    BY <1>3 DEF close, giveUp, doClose, dialFail, socketLost, transportLeft, disconnected,
                WireDown, app, counters, history
  <2>2. QueueInv'
    BY <1>0, <1>1, <2>1, GoneKeeps
  <2>3. \A s \in Sid : Ends(subs'[s], subs[s])
    BY <1>0, <2>1, EndsOps
  <2>4. CallInv'
    BY <1>0, <2>1, <2>3, CallEnds DEF StaysFresh
  <2> QED
    BY <2>2, <2>4
<1> QED
  BY <1>2, <1>3

-----------------------------------------------------------------------------
(* Dials.                                                                  *)

(* prepare(): every caller that waits is told, and the PING of the next    *)
(* CONNECT is the first one waited for.                                    *)
LEMMA PrepareKeeps ==
  ASSUME BarrierInv, TypeOK', prepare
  PROVE  QueueInv' /\ CallInv'
<1>0. /\ TypeOK /\ QueueInv /\ CallInv /\ WireInv /\ subs \in [Sid -> Subscription]
      /\ owed \in [Tag -> SUBSET PubId]
  BY CallFacts DEF TypeOK, BarrierInv, StrandedInv
<1>1. /\ c2s' = <<>> /\ s2c' = <<>> /\ outbound' = <<>> /\ recent' = {} /\ pongs' = <<Connect>>
      /\ ~infoReceived' /\ transport' = "connecting" /\ served' = served
      /\ owed' = [owed EXCEPT ![Connect] = {}]
      /\ UNCHANGED <<flushes, sidCounter>> /\ (connDrain' = connDrain \/ connDrain' = "settled")
      /\ \E tags : subs' = settleDrains(tags)
  BY <1>0 DEF prepare, app, counters, WireInv
<1>2. /\ flushed'[Connect] = "pending"
      /\ \A t \in Tag : t # Connect => \/ flushed'[t] = flushed[t]
                                       \/ flushed'[t] = "rejected" /\ \E i \in 1..Len(pongs) : t = pongs[i]
  BY TagType DEF prepare
<1>3. \A t \in Tag : t # Connect => StaysFresh(t)
  BY <1>0, <1>2 DEF QueueInv, FreshInv, StaysFresh
<1>4. CallInv'
  <2>1. \A s \in Sid : Ends(subs'[s], subs[s])
    BY <1>0, <1>1, EndsOps
  <2> QED
    BY <1>0, <1>1, <1>3, <2>1, CallEnds
<1>5. Len(<<>>) = 0 /\ 1..0 = {} /\ <<>> \o <<>> = <<>> /\ <<Connect>> \o <<>> = <<Connect>>
      /\ Len(<<Connect>>) = 1 /\ <<Connect>>[1] = Connect /\ 1..1 = {1}
  OBVIOUS
<1>6. Written' = <<>>
  BY <1>1, <1>5 DEF Written
<1>7. Marks(<<>>) = {}
  BY <1>5 DEF Marks
<1>8. \A o, S : Covered(o, S, <<>>)
  BY <1>5 DEF Covered
<1>9. PairInv'
  BY <1>1, <1>5, <1>6, TagsEmpty DEF PairInv, NoInfoYet
<1>10. CoverInv'
  <2>1. owed'[Connect] = {} /\ \A t \in Tag : t # Connect => owed'[t] = owed[t]
    BY <1>0, <1>1, TagType
  <2>2. \A t \in Tag : flushed'[t] = "resolved" => owed'[t] \subseteq served'
    BY <1>0, <1>1, <1>2, <2>1 DEF QueueInv, CoverInv
  <2> QED
    BY <1>1, <1>5, <1>6, <1>8, <2>1, <2>2 DEF CoverInv
<1>11. FreshInv'
  BY <1>1, <1>2, <1>5, <1>6, <1>7 DEF FreshInv
<1> QED
  BY <1>4, <1>9, <1>10, <1>11 DEF QueueInv

(* The transport is connected, and the server speaks first. *)
LEMMA ConnectKeeps ==
  ASSUME BarrierInv, TypeOK', connectOk
  PROVE  QueueInv' /\ CallInv'
<1>0. TypeOK /\ QueueInv /\ CallInv /\ WireInv
  BY CallFacts DEF BarrierInv, StrandedInv
<1>1. /\ c2s = <<>> /\ c2s' = <<>> /\ s2c = <<>> /\ s2c' = <<INFO>>
      /\ transport = "connecting" /\ transport' = "open"
      /\ UNCHANGED <<outbound, pongs, recent, owed, served, flushed, infoReceived>>
      /\ UNCHANGED <<flushes, sidCounter, connDrain, subs>>
  BY <1>0 DEF connectOk, app, counters, WireInv
<1>2. ~infoReceived
  BY <1>0, <1>1 DEF QueueInv, PairInv, NoInfoYet
<1>3. Written' = Written /\ Kept /\ Kept' /\ Starting /\ Starting'
  BY <1>1, <1>2 DEF Written, Kept, Starting
<1>4. INFO \in Frame /\ ~Marked(INFO) /\ INFO.op = "INFO"
  <2>1. 0 \in Nat
    OBVIOUS
  <2> QED
    BY <2>1, FrameType, TagType, Ops DEF Marked
<1>5. Tags(s2c') = <<>> /\ Marks(s2c') = {}
  BY <1>1, <1>4, Single
<1>6. Len(<<INFO>>) = 1 /\ <<INFO>>[1] = INFO /\ 1..1 = {1}
  OBVIOUS
<1>7. PairInv'
  BY <1>0, <1>1, <1>2, <1>3, <1>5 DEF QueueInv, PairInv, NoInfoYet
<1>8. CoverInv'
  <2>1. \A i \in 1..Len(s2c') : s2c'[i].op # "PONG"
    BY <1>1, <1>4, <1>6
  <2> QED
    BY <1>0, <1>1, <1>3, <2>1 DEF QueueInv, CoverInv
<1>9. FreshInv'
  BY <1>0, <1>1, <1>3, <1>5 DEF QueueInv, FreshInv
<1>10. CallInv'
  BY <1>0, <1>1, CallIdle DEF Milder
<1> QED
  BY <1>7, <1>8, <1>9, <1>10 DEF QueueInv

(* disconnect(): what the transport sent is answered first. *)
LEMMA LeaveKeeps ==
  ASSUME BarrierInv, TypeOK', disconnect
  PROVE  QueueInv' /\ CallInv'
<1>0. /\ TypeOK /\ QueueInv /\ CallInv /\ DialInv
      /\ c2s \in Seq(Command) /\ outbound \in Seq(Command) /\ s2c \in Seq(Frame)
  BY CallFacts DEF BarrierInv, StrandedInv, TypeOK
<1>1. /\ connected /\ transport = "open" /\ transport' = "leaving"
      /\ UNCHANGED <<outbound, pongs, recent, owed, served, flushed, infoReceived, c2s, s2c>>
      /\ UNCHANGED <<flushes, sidCounter, connDrain, subs>>
  BY DEF disconnect, counters, history
<1>2. infoReceived
  BY <1>0, <1>1 DEF DialInv
<1>3. ~Kept' /\ ~Starting' /\ NoInfoYet' /\ Written' = Written
  BY <1>1 DEF Kept, Starting, NoInfoYet, Written
<1>4. /\ Tags(c2s) \in Seq(Tag) /\ Tags(outbound) \in Seq(Tag) /\ Tags(s2c) \in Seq(Tag)
      /\ Tags(Written) = Tags(c2s) \o Tags(outbound)
  BY <1>0, Taggings, TagsConcat DEF Written
<1>5. pongs = Tags(s2c) \o (Tags(c2s) \o Tags(outbound))
  BY <1>0, <1>1, <1>2, <1>4 DEF QueueInv, PairInv
<1>6. pongs = (Tags(s2c) \o Tags(c2s)) \o Tags(outbound)
  <2>1. \A a, b, c \in Seq(Tag) : a \o (b \o c) = (a \o b) \o c
    BY ConcatAssoc
  <2> QED
    BY <1>4, <1>5, <2>1
<1>7. PairInv'
  BY <1>1, <1>3, <1>4, <1>6 DEF PairInv
<1>8. CoverInv'
  BY <1>0, <1>1, <1>3 DEF QueueInv, CoverInv
<1>9. FreshInv'
  BY <1>0, <1>1, <1>3 DEF QueueInv, FreshInv
<1>10. CallInv'
  BY <1>0, <1>1, CallIdle DEF Milder
<1> QED
  BY <1>7, <1>8, <1>9, <1>10 DEF QueueInv

(* BarrierInv is inductive. *)
LEMMA BarrierStep == BarrierInv /\ [Next]_vars => BarrierInv'
<1> SUFFICES ASSUME BarrierInv, [Next]_vars PROVE BarrierInv'
  OBVIOUS
<1>1. StrandedInv'
  BY StrandedStep DEF BarrierInv
<1>2. TypeOK' /\ QueueInv /\ CallInv
  BY <1>1 DEF StrandedInv, BarrierInv
<1>3. CASE Next
  <2>1. ASSUME processInfo \/ processPong \/ dialDone \/ serverRecv \/ \E s \in Sid : serverMsg(s)
        PROVE  QueueInv' /\ CallInv'
    BY <1>2, <2>1, InfoKeeps, PongStep, DialKeeps, RecvKeeps, SendKeeps, CallFrames
  <2>2. ASSUME prepare \/ connectOk \/ disconnect
        PROVE  QueueInv' /\ CallInv'
    BY <1>2, <2>2, PrepareKeeps, ConnectKeeps, LeaveKeeps
  <2>3. QueueInv' /\ CallInv'
    BY <1>2, <1>3, <2>1, <2>2, BarrierPlain, BarrierFlushes, BarrierGone DEF Next
  <2> QED
    BY <1>1, <2>3 DEF BarrierInv
<1>4. CASE UNCHANGED vars
  <2>1. /\ UNCHANGED <<transport, infoReceived, outbound, c2s, s2c, pongs, flushed, recent, owed, served>>
        /\ UNCHANGED <<flushes, connDrain, sidCounter, subs>>
    BY <1>4 DEF vars, client, history, counters
  <2>2. Written' = Written /\ Kept' = Kept /\ Starting' = Starting /\ NoInfoYet' = NoInfoYet
    BY <2>1 DEF Written, Kept, Starting, NoInfoYet
  <2>3. QueueInv'
    BY <1>2, <2>1, <2>2 DEF QueueInv, PairInv, CoverInv, FreshInv
  <2>4. CallInv'
    BY <1>2, <2>1, CallIdle DEF Milder
  <2> QED
    BY <1>1, <2>3, <2>4 DEF BarrierInv
<1> QED
  BY <1>3, <1>4

(* It holds initially. *)
LEMMA BarrierInit == Init => BarrierInv
<1> SUFFICES ASSUME Init PROVE BarrierInv
  OBVIOUS
<1>1. StrandedInv
  BY StrandedInit
<1>2. /\ transport = "none" /\ c2s = <<>> /\ s2c = <<>> /\ outbound = <<>> /\ pongs = <<>>
      /\ flushed = [t \in Tag |-> "none"] /\ owed = [t \in Tag |-> {}]
      /\ subs = [s \in Sid |-> NoSub] /\ sidCounter = 0
  BY DEF Init
<1>3. Len(<<>>) = 0 /\ 1..0 = {} /\ ~Kept /\ ~Starting /\ NoInfoYet
  BY <1>2 DEF Kept, Starting, NoInfoYet
<1>4. Marks(<<>>) = {} /\ \A o, S : Covered(o, S, <<>>)
  BY <1>3 DEF Marks, Covered
<1>5. PairInv
  BY <1>2, <1>3 DEF PairInv
<1>6. CoverInv
  BY <1>2, <1>3, <1>4, TagType DEF CoverInv
<1>7. FreshInv
  BY <1>2, <1>3, <1>4 DEF FreshInv
<1>8. CallInv
  BY <1>2, TagType DEF CallInv, NoSub
<1> QED
  BY <1>1, <1>5, <1>6, <1>7, <1>8 DEF BarrierInv, QueueInv

(* A PONG resolves the very flush() whose PING it answers, and what it     *)
(* resolves is a barrier: every publication made before that flush(),      *)
(* since the buffer was last reset, has been processed by the server. For  *)
(* any number of subscriptions, calls, publications and reconnects, calls  *)
(* made while disconnected and the flushes of drains included.             *)
THEOREM BarrierHolds == Spec => []FlushBarrier
<1>1. ASSUME BarrierInv PROVE FlushBarrier
  <2>0. /\ TypeOK /\ QueueInv
        /\ c2s \in Seq(Command) /\ outbound \in Seq(Command) /\ s2c \in Seq(Frame)
    BY <1>1, CallFacts DEF TypeOK
  <2>1. /\ Tags(c2s) \in Seq(Tag) /\ Tags(outbound) \in Seq(Tag) /\ Tags(s2c) \in Seq(Tag)
        /\ Tags(Written) = Tags(c2s) \o Tags(outbound)
    BY <2>0, Taggings, TagsConcat DEF Written
  <2>2. \A a, b, c \in Seq(Tag) : a \o (b \o c) = (a \o b) \o c
    BY ConcatAssoc
  <2>3. Tags(s2c) \o (Tags(c2s) \o Tags(outbound)) = (Tags(s2c) \o Tags(c2s)) \o Tags(outbound)
    BY <2>1, <2>2
  <2>4. transport = "open" /\ infoReceived => Tags(s2c) \o (Tags(c2s) \o Tags(outbound)) = pongs
    BY <2>0, <2>1 DEF QueueInv, PairInv
  <2>5. PongPairing
    BY <2>3, <2>4 DEF PongPairing
  <2> QED
    BY <2>0, <2>5 DEF QueueInv, CoverInv, FlushBarrier
<1> QED
  BY <1>1, BarrierInit, BarrierStep, PTL DEF Spec
=============================================================================
