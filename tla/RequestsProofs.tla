---------------------------- MODULE RequestsProofs ----------------------------
(***************************************************************************)
(* Proofs about module Requests, for any set of requests, any strategies,  *)
(* any number of frames and connections: no request leaks, a registered    *)
(* request can be answered, and the reader of a requestMany() is told of   *)
(* its end, of an error first, after no more messages than it asked for.   *)
(* And about module PushSubscription, for any stream and any use: what the *)
(* server holds for acknowledged was processed.                            *)
(***************************************************************************)
EXTENDS Requests, PushSubscription, TLAPS

(* The request as the promise and its timer see it. *)
OneGood(q) ==
  /\ q.listed <=> q.st = "pending"
  /\ q.timer <=> q.listed

OnlyMsgs(items) == \A i \in 1..Len(items) : items[i] = "msg"
HasEnd(items) == \E i \in 1..Len(items) : items[i] # "msg"
FailFirst(items) ==
  \A i \in 1..Len(items) : items[i] = "stop" => \E j \in 1..i : items[j] = "fail"
Counted(r) == Strategy[r] = "count" /\ MaxMessages[r] > 0

(* The inductive invariant of one requestMany(): a registered request has  *)
(* not failed and counts down from its limit to above zero.                *)
ManyGood(r, q) ==
  /\ q.timer <=> q.listed
  /\ q.listed => q.st = "pending" /\ OnlyMsgs(q.items) /\ ~q.failed
  /\ q.listed /\ Counted(r) => q.left > 0 /\ q.pushed + q.left = MaxMessages[r]
  /\ Counted(r) => q.pushed <= MaxMessages[r]
  /\ q.st = "pending" => q.listed \/ HasEnd(q.items)
  /\ q.st = "pending" /\ q.failed => FailFirst(q.items)

(* The same for a request of any kind; over: the connection is draining or *)
(* closed, which is when a noMux request may be left pending.              *)
Good(r, q, over) ==
  /\ q \in Request
  /\ r \in One => OneGood(q)
  /\ r \in Many => ManyGood(r, q)
  /\ r \in NoMux /\ ~over => OneGood(q)

(* A step registers no request anew. *)
Less(q, p) == p.listed => q.listed /\ p.inbox = q.inbox

ReqInv ==
  /\ TypeOK
  /\ \A r \in Req : Good(r, req[r], closed \/ draining)
  /\ mux => muxSub \/ draining
  /\ \A r \in Muxed : req[r].listed => mux /\ req[r].inbox = inbox

-----------------------------------------------------------------------------
(* What becomes of one request.                                            *)

(* Registering a request makes a good one. *)
LEMMA RegisteredGood ==
  ASSUME TypeOK, NEW r \in Req, NEW g \in Nat
  PROVE  /\ Registered(r, g) \in Request
         /\ Registered(r, g).listed /\ Registered(r, g).timer
         /\ Registered(r, g).st = "pending" /\ Registered(r, g).items = <<>>
         /\ Registered(r, g).inbox = g /\ ~Registered(r, g).failed
         /\ Registered(r, g).pushed = 0
         /\ r \in Many /\ MaxMessages[r] > 0 => Registered(r, g).left = MaxMessages[r]
<1> DEFINE left == IF r \in Many /\ MaxMessages[r] > 0 THEN MaxMessages[r] ELSE -1
           items == <<>>
<1>1. left \in Int /\ (r \in Many /\ MaxMessages[r] > 0 => left = MaxMessages[r])
  BY RequestsAssumption
<1>2. items \in Seq({"msg", "fail", "stop"})
  OBVIOUS
<1>3. Registered(r, g) =
        [NewRequest EXCEPT !.st = "pending", !.listed = TRUE, !.timer = TRUE,
           !.n = count + 1, !.inbox = g, !.born = epoch, !.left = left]
  BY DEF Registered
<1>4. count + 1 \in Nat /\ epoch \in Nat
  BY DEF TypeOK
<1>5. NewRequest \in Request /\ NewRequest.items = items /\ NewRequest.failed = FALSE
      /\ NewRequest.pushed = 0
  BY <1>2, -1 \in Int DEF NewRequest, Request
<1> HIDE DEF left, items
<1>6. Registered(r, g) \in Request
  BY <1>1, <1>3, <1>4, <1>5 DEF Request
<1>7. /\ Registered(r, g).listed = TRUE /\ Registered(r, g).timer = TRUE
      /\ Registered(r, g).st = "pending" /\ Registered(r, g).items = items
      /\ Registered(r, g).inbox = g /\ Registered(r, g).failed = FALSE
      /\ Registered(r, g).pushed = 0 /\ Registered(r, g).left = left
  BY <1>3, <1>5 DEF Request
<1> QED
  BY <1>1, <1>6, <1>7 DEF items

(* An outcome settles a request() for good. *)
LEMMA settleOneGood ==
  ASSUME NEW q \in Request, NEW outcome \in {"reply", "error", "timeout"}
  PROVE  /\ settleOne(q, outcome) \in Request
         /\ OneGood(settleOne(q, outcome))
         /\ ~settleOne(q, outcome).listed
         /\ settleNoMux(q, outcome) = settleOne(q, outcome)
BY DEF settleOne, settleNoMux, Request, OneGood

(* What cancel() queues. *)
LEMMA EndQueued ==
  ASSUME NEW items \in Seq({"msg", "fail", "stop"}), OnlyMsgs(items), NEW err \in BOOLEAN,
         NEW q, q = items \o (IF err THEN <<"fail", "stop">> ELSE <<"stop">>)
  PROVE  /\ q \in Seq({"msg", "fail", "stop"})
         /\ HasEnd(q)
         /\ err => FailFirst(q)
<1>1. CASE err
  <2>1. q \in Seq({"msg", "fail", "stop"}) /\ Len(q) = Len(items) + 2
    BY <1>1
  <2>2. q[Len(items) + 1] = "fail" /\ q[Len(items) + 2] = "stop"
    BY <1>1
  <2>3. \A i \in 1..Len(items) : q[i] = "msg"
    BY <1>1 DEF OnlyMsgs
  <2> QED
    BY <2>1, <2>2, <2>3 DEF HasEnd, FailFirst
<1>2. CASE ~err
  <2>1. q \in Seq({"msg", "fail", "stop"}) /\ Len(q) = Len(items) + 1
    BY <1>2
  <2>2. q[Len(items) + 1] = "stop"
    BY <1>2
  <2> QED
    BY <1>2, <2>1, <2>2 DEF HasEnd
<1> QED
  BY <1>1, <1>2

(* Cancelling a registered requestMany() leaves its reader the end, after  *)
(* the error if there is one.                                              *)
LEMMA cancelManyGood ==
  ASSUME NEW r \in Many, NEW q \in Request, NEW err \in BOOLEAN,
         q.listed, OnlyMsgs(q.items), q.st = "pending", ~q.failed,
         Counted(r) => q.pushed <= MaxMessages[r]
  PROVE  /\ cancelMany(q, err) \in Request
         /\ ManyGood(r, cancelMany(q, err))
         /\ ~cancelMany(q, err).listed
<1> DEFINE p == cancelMany(q, err)
<1>1. q.items \in Seq({"msg", "fail", "stop"})
  BY DEF Request
<1>2. p.items = q.items \o (IF err THEN <<"fail", "stop">> ELSE <<"stop">>)
  BY DEF cancelMany, Request
<1>3. /\ p.items \in Seq({"msg", "fail", "stop"})
      /\ HasEnd(p.items)
      /\ err => FailFirst(p.items)
  BY <1>1, <1>2, EndQueued
<1>4. /\ p = [q EXCEPT !.listed = FALSE, !.timer = FALSE, !.failed = @ \/ err,
                       !.items = p.items]
      /\ p.listed = FALSE /\ p.timer = FALSE /\ p.failed = err
      /\ p.st = "pending" /\ p.pushed = q.pushed
  BY <1>2 DEF cancelMany, Request
<1> HIDE DEF p
<1>5. p \in Request
  BY <1>3, <1>4 DEF Request
<1>6. ManyGood(r, p)
  BY <1>3, <1>4 DEF ManyGood
<1> QED
  BY <1>4, <1>5, <1>6 DEF p

(* A message keeps a requestMany() good: it counts, and completes exactly  *)
(* when the count is used up.                                              *)
LEMMA messageManyGood ==
  ASSUME NEW r \in Many, NEW q \in Request, NEW kind, q.listed, ManyGood(r, q)
  PROVE  /\ messageMany(r, q, kind) \in Request
         /\ ManyGood(r, messageMany(r, q, kind))
         /\ Less(q, messageMany(r, q, kind))
<1> DEFINE dec == IF Strategy[r] = "count" THEN q.left - 1 ELSE q.left
           more == Append(q.items, "msg")
           got == [q EXCEPT !.items = more, !.pushed = q.pushed + 1, !.left = dec]
<1>1. /\ q.items \in Seq({"msg", "fail", "stop"}) /\ q.left \in Int /\ q.pushed \in Nat
      /\ q.st = "pending" /\ OnlyMsgs(q.items) /\ ~q.failed
      /\ Counted(r) => q.left > 0 /\ q.pushed + q.left = MaxMessages[r]
  BY DEF ManyGood, Request
<1>2. MaxMessages[r] \in Nat
  BY RequestsAssumption
<1>3. dec \in Int /\ q.pushed + 1 \in Nat
  BY <1>1
<1>4. Counted(r) => /\ dec >= 0 /\ q.pushed + 1 + dec = MaxMessages[r]
                    /\ q.pushed + 1 <= MaxMessages[r]
  BY <1>1, <1>2 DEF Counted
<1>5. more \in Seq({"msg", "fail", "stop"}) /\ OnlyMsgs(more)
  BY <1>1 DEF OnlyMsgs
<1>6. messageMany(r, q, kind) =
        IF Complete(r, got, kind) THEN cancelMany(got, FALSE) ELSE got
  BY DEF messageMany
<1>7. Counted(r) /\ ~Complete(r, got, kind) => dec # 0
  BY DEF Counted, Complete, Request
<1> HIDE DEF more, dec
<1>8. /\ got \in Request
      /\ got.items = more /\ got.pushed = q.pushed + 1 /\ got.left = dec
      /\ got.listed = q.listed /\ got.timer = q.timer /\ got.st = q.st
      /\ got.failed = q.failed /\ got.inbox = q.inbox
  BY <1>3, <1>5 DEF Request
<1> HIDE DEF got
<1>9. CASE Complete(r, got, kind)
  BY <1>1, <1>4, <1>5, <1>6, <1>8, <1>9, cancelManyGood DEF Less
<1>10. CASE ~Complete(r, got, kind)
  <2>1. ManyGood(r, got)
    BY <1>1, <1>3, <1>4, <1>5, <1>7, <1>8, <1>10 DEF ManyGood
  <2> QED
    BY <1>6, <1>8, <1>10, <2>1 DEF Less
<1> QED
  BY <1>9, <1>10

(* An error settles a registered request of the mux. *)
LEMMA failMuxedGood ==
  ASSUME NEW r \in Muxed, NEW q, NEW over, Good(r, q, over), q.listed
  PROVE  Good(r, failMuxed(r, q), over) /\ ~failMuxed(r, q).listed
<1>1. CASE r \in One
  <2>1. r \notin Many /\ r \notin NoMux
    BY <1>1, RequestsAssumption
  <2> QED
    BY <1>1, <2>1, settleOneGood DEF failMuxed, Good
<1>2. CASE r \in Many
  <2>1. r \notin One /\ r \notin NoMux
    BY <1>2, RequestsAssumption
  <2>2. /\ cancelMany(q, TRUE) \in Request /\ ManyGood(r, cancelMany(q, TRUE))
        /\ ~cancelMany(q, TRUE).listed
    BY <1>2, cancelManyGood DEF Good, ManyGood
  <2> QED
    BY <1>2, <2>1, <2>2 DEF failMuxed, Good
<1> QED
  BY <1>1, <1>2 DEF Muxed

(* A reply keeps a registered request of the mux good. *)
LEMMA replyMuxedGood ==
  ASSUME NEW r \in Muxed, NEW q, NEW over, NEW kind, Good(r, q, over), q.listed
  PROVE  Good(r, replyMuxed(r, q, kind), over) /\ Less(q, replyMuxed(r, q, kind))
<1>1. CASE kind = "noResponders"
  BY <1>1, failMuxedGood DEF replyMuxed, Less
<1>2. CASE kind # "noResponders" /\ r \in One
  <2>1. r \notin Many /\ r \notin NoMux
    BY <1>2, RequestsAssumption
  <2> QED
    BY <1>2, <2>1, settleOneGood DEF replyMuxed, Good, Less
<1>3. CASE kind # "noResponders" /\ r \in Many
  <2>1. r \notin One /\ r \notin NoMux
    BY <1>3, RequestsAssumption
  <2> QED
    BY <1>3, <2>1, messageManyGood DEF replyMuxed, Good
<1> QED
  BY <1>1, <1>2, <1>3 DEF Muxed

(* The subscription of a noMux request is gone once it has an outcome. *)
LEMMA settleNoMuxGood ==
  ASSUME NEW r \in NoMux, NEW q, NEW over, NEW outcome \in {"reply", "error", "timeout"},
         Good(r, q, over)
  PROVE  Good(r, settleNoMux(q, outcome), over) /\ ~settleNoMux(q, outcome).listed
<1>1. r \notin One /\ r \notin Many
  BY RequestsAssumption
<1> QED
  BY <1>1, settleOneGood DEF Good

(* close() leaves every request good. *)
LEMMA closeReqGood ==
  ASSUME NEW r \in Req, NEW q, NEW over, Good(r, q, over)
  PROVE  Good(r, closeReq(r, q), TRUE) /\ Less(q, closeReq(r, q))
<1>1. Good(r, q, TRUE)
  BY DEF Good
<1>2. CASE ~q.listed
  BY <1>1, <1>2 DEF closeReq, Less
<1>3. CASE q.listed /\ r \in Muxed
  BY <1>1, <1>3, failMuxedGood DEF closeReq, Less
<1>4. CASE q.listed /\ r \notin Muxed
  <2>1. r \notin One /\ r \notin Many
    BY <1>4 DEF Muxed
  <2>2. closeReq(r, q) \in Request /\ closeReq(r, q).inbox = q.inbox
    BY <1>1, <1>4 DEF closeReq, Good, Request
  <2> QED
    BY <1>4, <2>1, <2>2 DEF Good, Less
<1> QED
  BY <1>2, <1>3, <1>4

-----------------------------------------------------------------------------
(* The steps.                                                              *)

(* A step that changes one request, and registers none with the mux. *)
LEMMA OneChanged ==
  ASSUME ReqInv, NEW r \in Req, NEW p, req' = [req EXCEPT ![r] = p],
         Good(r, p, closed \/ draining), r \in Muxed => Less(req[r], p),
         UNCHANGED conn, count' \in Nat, s2c' \in Seq(Frame), frames' \in Nat
  PROVE  ReqInv'
<1>1. UNCHANGED <<closed, draining, epoch, mux, muxSub, inbox>>
  BY DEF conn
<1>2. req \in [Req -> Request] /\ p \in Request
  BY DEF ReqInv, TypeOK, Good
<1>3. TypeOK'
  BY <1>1, <1>2 DEF ReqInv, TypeOK
<1>4. \A o \in Req : Good(o, req'[o], closed' \/ draining')
  BY <1>1, <1>2 DEF ReqInv
<1>5. \A o \in Muxed : req'[o].listed => mux' /\ req'[o].inbox = inbox'
  BY <1>1, <1>2 DEF ReqInv, Less, Req, Muxed
<1> QED
  BY <1>1, <1>3, <1>4, <1>5 DEF ReqInv

(* What the reader of a requestMany() leaves when it takes an item. *)
LEMMA TailItems ==
  ASSUME NEW items \in Seq({"msg", "fail", "stop"}), items # <<>>,
         NEW rest, rest = Tail(items)
  PROVE  /\ rest \in Seq({"msg", "fail", "stop"})
         /\ OnlyMsgs(items) => OnlyMsgs(rest)
         /\ Head(items) = "msg" /\ HasEnd(items) => HasEnd(rest)
         /\ Head(items) = "msg" /\ FailFirst(items) => FailFirst(rest)
<1>1. /\ rest \in Seq({"msg", "fail", "stop"}) /\ Len(rest) = Len(items) - 1
      /\ \A i \in 1..Len(rest) : rest[i] = items[i + 1]
      /\ Len(items) \in Nat \ {0} /\ Head(items) = items[1]
  OBVIOUS
<1>2. OnlyMsgs(items) => OnlyMsgs(rest)
  BY <1>1 DEF OnlyMsgs
<1>3. ASSUME Head(items) = "msg", HasEnd(items) PROVE HasEnd(rest)
  <2>1. PICK i \in 1..Len(items) : items[i] # "msg"
    BY <1>3 DEF HasEnd
  <2>2. i - 1 \in 1..Len(rest) /\ rest[i - 1] = items[i]
    BY <1>1, <1>3, <2>1
  <2> QED
    BY <2>1, <2>2 DEF HasEnd
<1>4. ASSUME Head(items) = "msg", FailFirst(items) PROVE FailFirst(rest)
  <2> SUFFICES ASSUME NEW i \in 1..Len(rest), rest[i] = "stop"
               PROVE  \E j \in 1..i : rest[j] = "fail"
    BY DEF FailFirst
  <2>1. PICK j \in 1..(i + 1) : items[j] = "fail"
    BY <1>1, <1>4 DEF FailFirst
  <2>2. j - 1 \in 1..i /\ rest[j - 1] = "fail"
    BY <1>1, <1>4, <2>1
  <2> QED
    BY <2>2
<1> QED
  BY <1>1, <1>2, <1>3, <1>4

(* The steps of readers and timers. *)
LEMMA ReaderSteps ==
  ASSUME ReqInv, NEW r \in Req, next(r) \/ break(r) \/ timeout(r) \/ subDrained(r)
  PROVE  ReqInv'
<1> DEFINE q == req[r]
<1>1. /\ Good(r, q, closed \/ draining) /\ q \in Request /\ req \in [Req -> Request]
      /\ count \in Nat /\ s2c \in Seq(Frame) /\ frames \in Nat
  BY DEF ReqInv, Good, TypeOK
<1>2. CASE break(r)
  <2> DEFINE p == [q EXCEPT !.st = "ended", !.listed = FALSE, !.timer = FALSE]
  <2>1. req' = [req EXCEPT ![r] = p] /\ r \in Many /\ UNCHANGED <<conn, count, s2c, frames>>
    BY <1>2 DEF break
  <2>2. r \notin One /\ r \notin NoMux
    BY <2>1, RequestsAssumption
  <2>3. Good(r, p, closed \/ draining) /\ ~p.listed
    BY <1>1, <2>1, <2>2 DEF Good, ManyGood, Request
  <2> QED
    BY <1>1, <2>1, <2>3, OneChanged DEF Less
<1>3. CASE subDrained(r)
  <2> DEFINE p == [q EXCEPT !.listed = FALSE, !.timer = FALSE]
  <2>1. /\ req' = [req EXCEPT ![r] = p] /\ r \in NoMux /\ draining
        /\ UNCHANGED <<conn, count, s2c, frames>>
    BY <1>3 DEF subDrained
  <2>2. r \notin One /\ r \notin Many
    BY <2>1, RequestsAssumption
  <2>3. Good(r, p, closed \/ draining)
    BY <1>1, <2>1, <2>2 DEF Good, Request
  <2> QED
    BY <1>1, <2>1, <2>2, <2>3, OneChanged DEF Muxed
<1>4. CASE timeout(r)
  <2>1. q.timer /\ UNCHANGED <<conn, count, s2c, frames>>
    BY <1>4 DEF timeout
  <2>2. CASE r \in One
    <3>1. r \notin Many /\ r \notin NoMux
      BY <2>2, RequestsAssumption
    <3>2. req' = [req EXCEPT ![r] = settleOne(q, "timeout")]
      BY <1>4, <2>2, <3>1 DEF timeout
    <3>3. Good(r, settleOne(q, "timeout"), closed \/ draining)
      BY <1>1, <2>2, <3>1, settleOneGood DEF Good
    <3> QED
      BY <1>1, <2>1, <3>2, <3>3, settleOneGood, OneChanged DEF Less
  <2>3. CASE r \in Many
    <3>1. r \notin One /\ r \notin NoMux
      BY <2>3, RequestsAssumption
    <3>2. req' = [req EXCEPT ![r] = cancelMany(q, FALSE)]
      BY <1>4, <2>3, <3>1 DEF timeout
    <3>3. /\ cancelMany(q, FALSE) \in Request /\ ManyGood(r, cancelMany(q, FALSE))
          /\ ~cancelMany(q, FALSE).listed
      BY <1>1, <2>1, <2>3, cancelManyGood DEF Good, ManyGood
    <3>4. Good(r, cancelMany(q, FALSE), closed \/ draining)
      BY <3>1, <3>3 DEF Good
    <3> QED
      BY <1>1, <2>1, <3>2, <3>3, <3>4, OneChanged DEF Less
  <2>4. CASE r \in NoMux
    <3>1. r \notin One /\ r \notin Many
      BY <2>4, RequestsAssumption
    <3>2. req' = [req EXCEPT ![r] = settleNoMux(q, "timeout")]
      BY <1>4, <2>4, <3>1 DEF timeout
    <3>3. Good(r, settleNoMux(q, "timeout"), closed \/ draining)
      BY <1>1, <2>4, settleNoMuxGood
    <3> QED
      BY <1>1, <2>1, <3>1, <3>2, <3>3, OneChanged DEF Muxed
  <2> QED
    BY <2>2, <2>3, <2>4 DEF Req
<1>5. CASE next(r)
  <2> DEFINE left == Tail(q.items)
             rest == [q EXCEPT !.items = left]
             over == [rest EXCEPT !.listed = FALSE, !.timer = FALSE]
  <2>1. /\ r \in Many /\ q.st = "pending" /\ q.items # <<>>
        /\ UNCHANGED <<conn, count, s2c, frames>>
    BY <1>5 DEF next
  <2>2. r \notin One /\ r \notin NoMux /\ q.items \in Seq({"msg", "fail", "stop"})
    BY <1>1, <2>1, RequestsAssumption DEF Request
  <2>3. Head(q.items) \in {"msg", "fail", "stop"}
    BY <2>1, <2>2
  <2>4. \/ Head(q.items) = "msg" /\ req' = [req EXCEPT ![r] = rest]
        \/ \E st \in {"error", "ended"} :
             req' = [req EXCEPT ![r] = [rest EXCEPT !.st = st, !.listed = FALSE,
                                                    !.timer = FALSE]]
    BY <1>5, <2>3 DEF next
  <2>5. /\ left \in Seq({"msg", "fail", "stop"})
        /\ OnlyMsgs(q.items) => OnlyMsgs(left)
        /\ Head(q.items) = "msg" /\ HasEnd(q.items) => HasEnd(left)
        /\ Head(q.items) = "msg" /\ FailFirst(q.items) => FailFirst(left)
    BY <2>1, <2>2, TailItems
  <2> HIDE DEF left
  <2>6. /\ rest \in Request /\ rest.items = left /\ rest.listed = q.listed
        /\ rest.timer = q.timer /\ rest.st = q.st /\ rest.failed = q.failed
        /\ rest.left = q.left /\ rest.pushed = q.pushed /\ rest.inbox = q.inbox
    BY <1>1, <2>5 DEF Request
  <2> HIDE DEF rest
  <2>7. CASE Head(q.items) = "msg" /\ req' = [req EXCEPT ![r] = rest]
    <3>1. Good(r, rest, closed \/ draining)
      BY <1>1, <2>1, <2>2, <2>5, <2>6, <2>7 DEF Good, ManyGood
    <3> QED
      BY <1>1, <2>1, <2>6, <2>7, <3>1, OneChanged DEF Less
  <2>8. ASSUME NEW st \in {"error", "ended"},
               req' = [req EXCEPT ![r] = [rest EXCEPT !.st = st, !.listed = FALSE,
                                                      !.timer = FALSE]]
        PROVE  ReqInv'
    <3> DEFINE p == [rest EXCEPT !.st = st, !.listed = FALSE, !.timer = FALSE]
    <3>1. /\ p \in Request /\ p.st = st /\ p.listed = FALSE /\ p.timer = FALSE
          /\ p.pushed = q.pushed
      BY <2>6 DEF Request
    <3> HIDE DEF p
    <3>2. Good(r, p, closed \/ draining)
      BY <1>1, <2>1, <2>2, <3>1 DEF Good, ManyGood
    <3>3. Less(req[r], p)
      BY <3>1 DEF Less
    <3>4. req' = [req EXCEPT ![r] = p]
      BY <2>8 DEF p
    <3> QED
      BY <1>1, <2>1, <3>2, <3>3, <3>4, OneChanged
  <2> QED
    BY <2>4, <2>7, <2>8
<1> QED
  BY <1>2, <1>3, <1>4, <1>5

(* Registering a request: the mux has its inbox. *)
LEMMA RequestSteps ==
  ASSUME ReqInv, NEW r \in Req, NEW published \in BOOLEAN,
         request(r, published) \/ requestNoMux(r, published)
  PROVE  ReqInv'
<1>1. /\ TypeOK /\ ~closed /\ ~draining /\ count' = count + 1
      /\ UNCHANGED <<closed, draining, epoch, s2c, frames>>
  BY DEF ReqInv, request, requestNoMux
<1>2. CASE requestNoMux(r, published)
  <2> DEFINE born == IF published THEN epoch ELSE 0
             p == [Registered(r, 0) EXCEPT !.born = born]
  <2>1. /\ r \in NoMux /\ req' = [req EXCEPT ![r] = p]
        /\ UNCHANGED conn /\ UNCHANGED <<s2c, frames>>
    BY <1>2 DEF requestNoMux, conn
  <2>2. r \notin One /\ r \notin Many /\ r \notin Muxed
    BY <2>1, RequestsAssumption DEF Muxed
  <2>3. born \in Nat
    BY <1>1 DEF TypeOK
  <2>4. /\ Registered(r, 0) \in Request
        /\ Registered(r, 0).listed /\ Registered(r, 0).timer
        /\ Registered(r, 0).st = "pending"
    BY <1>1, RegisteredGood
  <2> HIDE DEF born
  <2>5. Good(r, p, closed \/ draining)
    BY <2>2, <2>3, <2>4 DEF Good, OneGood, Request
  <2> HIDE DEF p
  <2>6. count' \in Nat /\ s2c' \in Seq(Frame) /\ frames' \in Nat
    BY <1>1 DEF TypeOK
  <2> QED
    BY <2>1, <2>2, <2>5, <2>6, OneChanged
<1>3. CASE request(r, published)
  <2> DEFINE g == IF mux THEN inbox ELSE inbox + 1
             q == Registered(r, g)
             lost == [q EXCEPT !.born = 0]
             p == IF published THEN q ELSE failMuxed(r, lost)
  <2>1. /\ r \in Muxed /\ req' = [req EXCEPT ![r] = p]
        /\ mux' = TRUE /\ muxSub' = (muxSub \/ ~mux) /\ inbox' = g
    BY <1>3 DEF request
  <2>2. g \in Nat /\ r \notin NoMux
    BY <1>1, <2>1, RequestsAssumption DEF TypeOK, Muxed
  <2> HIDE DEF g
  <2>3. /\ q \in Request /\ q.listed /\ q.timer /\ q.st = "pending"
        /\ q.items = <<>> /\ q.inbox = g /\ ~q.failed /\ q.pushed = 0
        /\ r \in Many /\ MaxMessages[r] > 0 => q.left = MaxMessages[r]
    BY <1>1, <2>2, RegisteredGood
  <2> HIDE DEF q
  <2>4. OnlyMsgs(q.items)
    BY <2>3 DEF OnlyMsgs
  <2>5. Good(r, q, FALSE)
    <3>1. r \in One => OneGood(q)
      BY <2>3 DEF OneGood
    <3>2. r \in Many => ManyGood(r, q)
      BY <2>3, <2>4, RequestsAssumption DEF ManyGood, Counted
    <3> QED
      BY <2>2, <2>3, <3>1, <3>2 DEF Good
  <2>6. /\ lost \in Request /\ lost.listed = q.listed /\ lost.timer = q.timer
        /\ lost.st = q.st /\ lost.items = q.items /\ lost.failed = q.failed
        /\ lost.pushed = q.pushed /\ lost.left = q.left
    BY <2>3 DEF Request
  <2> HIDE DEF lost
  <2>7. Good(r, lost, FALSE)
    BY <2>5, <2>6 DEF Good, OneGood, ManyGood
  <2>8. Good(r, p, FALSE) /\ (p.listed => p.inbox = g)
    BY <2>1, <2>3, <2>5, <2>6, <2>7, failMuxedGood
  <2> HIDE DEF p
  <2>9. req \in [Req -> Request] /\ p \in Request
    BY <1>1, <2>8 DEF TypeOK, Good
  <2>10. TypeOK'
    BY <1>1, <2>1, <2>2, <2>9 DEF TypeOK
  <2>11. \A o \in Req : Good(o, req'[o], closed' \/ draining')
    BY <1>1, <2>1, <2>8, <2>9 DEF ReqInv
  <2>12. \A o \in Muxed : req'[o].listed => req'[o].inbox = inbox'
    <3>1. \A o \in Muxed : o # r /\ req'[o].listed => mux /\ req'[o].inbox = inbox
      BY <2>1, <2>9 DEF ReqInv, Req, Muxed
    <3>2. mux => inbox' = inbox
      BY <2>1 DEF g
    <3>3. req'[r] = p
      BY <2>1, <2>9
    <3> QED
      BY <2>1, <2>8, <3>1, <3>2, <3>3
  <2>13. muxSub'
    BY <1>1, <2>1 DEF ReqInv
  <2> QED
    BY <2>1, <2>10, <2>11, <2>12, <2>13 DEF ReqInv
<1> QED
  BY <1>2, <1>3

(* A frame of the server. *)
LEMMA ReceiveStep ==
  ASSUME ReqInv, receive
  PROVE  ReqInv'
<1> DEFINE f == Head(s2c)
           over == closed \/ draining
           gone == f.kind = "muxError" /\ isMux(f)
<1>1. /\ s2c \in Seq(Frame) /\ s2c # <<>> /\ s2c' = Tail(s2c)
      /\ UNCHANGED <<closed, draining, epoch, inbox, count, frames>>
      /\ mux' = (mux /\ ~gone) /\ muxSub' = (muxSub /\ ~gone)
  BY DEF receive, ReqInv, TypeOK
<1>2. f \in Frame /\ f.r \in Req /\ s2c' \in Seq(Frame)
  <2>1. f \in Frame /\ s2c' \in Seq(Frame)
    BY <1>1
  <2> QED
    BY <2>1 DEF Frame
<1>3. /\ req \in [Req -> Request] /\ \A r \in Req : Good(r, req[r], over)
  BY DEF ReqInv, TypeOK
<1>4. /\ req' = [r \in Req |-> req'[r]]
      /\ \A r \in Req : /\ Good(r, req'[r], over) /\ Less(req[r], req'[r])
                        /\ gone /\ r \in Muxed => ~req'[r].listed
  <2>1. CASE f.kind = "pubError"
    <3>1. req' = onPubError(f)
      BY <2>1 DEF receive
    <3>2. ASSUME NEW r \in Req PROVE Good(r, req'[r], over) /\ Less(req[r], req'[r])
      <4>1. \/ r \in NoMux /\ req'[r] = settleNoMux(req[r], "error")
            \/ r \in Muxed /\ req[r].listed /\ req'[r] = failMuxed(r, req[r])
            \/ req'[r] = req[r]
        BY <3>1 DEF onPubError, FirstTo
      <4> QED
        BY <1>3, <4>1, settleNoMuxGood, failMuxedGood DEF Less
    <3> QED
      BY <2>1, <3>1, <3>2 DEF onPubError
  <2>2. CASE f.kind = "muxError"
    <3>1. req' = onMuxError(f)
      BY <2>2 DEF receive
    <3>2. ASSUME NEW r \in Req
          PROVE  /\ Good(r, req'[r], over) /\ Less(req[r], req'[r])
                 /\ gone /\ r \in Muxed => ~req'[r].listed
      <4>1. \/ gone /\ r \in Muxed /\ req[r].listed /\ req'[r] = failMuxed(r, req[r])
            \/ ~(gone /\ r \in Muxed /\ req[r].listed) /\ req'[r] = req[r]
        BY <2>2, <3>1 DEF onMuxError
      <4> HIDE DEF gone
      <4> QED
        BY <1>3, <4>1, failMuxedGood DEF Less
    <3> QED
      BY <3>1, <3>2 DEF onMuxError
  <2>3. CASE f.kind \notin {"pubError", "muxError"}
    <3>1. req' = onReply(f)
      BY <2>3 DEF receive
    <3>2. \A r \in Req : r # f.r => req'[r] = req[r]
      BY <1>3, <3>1 DEF onReply
    <3>3. \/ req'[f.r] = req[f.r]
          \/ /\ f.r \in NoMux
             /\ \E o \in {"error", "reply"} : req'[f.r] = settleNoMux(req[f.r], o)
          \/ f.r \in Muxed /\ req[f.r].listed /\ req'[f.r] = replyMuxed(f.r, req[f.r], f.kind)
      BY <1>2, <1>3, <3>1 DEF onReply, Req, Muxed
    <3>4. Good(f.r, req'[f.r], over) /\ Less(req[f.r], req'[f.r])
      BY <1>2, <1>3, <3>3, settleNoMuxGood, replyMuxedGood DEF Less
    <3>5. \A r \in Req : Less(req[r], req[r])
      BY DEF Less
    <3>6. req' = [r \in Req |-> req'[r]]
      BY <1>3, <3>1 DEF onReply
    <3> QED
      BY <1>3, <2>3, <3>2, <3>4, <3>5, <3>6
  <2> QED
    BY <2>1, <2>2, <2>3
<1>5. TypeOK'
  <2>1. req' \in [Req -> Request]
    BY <1>4 DEF Good
  <2> QED
    BY <1>1, <1>2, <2>1 DEF ReqInv, TypeOK
<1>6. \A r \in Req : Good(r, req'[r], closed' \/ draining')
  BY <1>1, <1>4
<1>7. mux' => muxSub' \/ draining'
  BY <1>1 DEF ReqInv
<1>8. \A r \in Muxed : req'[r].listed => mux' /\ req'[r].inbox = inbox'
  BY <1>1, <1>4 DEF ReqInv, Less, Req, Muxed
<1> QED
  BY <1>5, <1>6, <1>7, <1>8 DEF ReqInv

(* The steps of the connection and of the server. *)
LEMMA ConnectionSteps ==
  ASSUME ReqInv,
         \/ close \/ drain \/ muxDrained \/ reconnect
         \/ \E r \in Req, kind \in FrameKind : serverSends(r, kind)
  PROVE  ReqInv'
<1>1. req \in [Req -> Request]
  BY DEF ReqInv, TypeOK
<1>2. CASE close
  <2>1. /\ closed' = TRUE /\ s2c' = <<>> /\ req' = [r \in Req |-> closeReq(r, req[r])]
        /\ UNCHANGED <<draining, epoch, mux, muxSub, inbox, count, frames>>
    BY <1>2 DEF close
  <2>2. \A r \in Req : Good(r, req'[r], TRUE) /\ Less(req[r], req'[r])
    BY <2>1, closeReqGood DEF ReqInv
  <2>3. req' \in [Req -> Request]
    BY <2>1, <2>2 DEF Good
  <2>4. TypeOK'
    BY <2>1, <2>3 DEF ReqInv, TypeOK
  <2>5. \A r \in Req : Good(r, req'[r], closed' \/ draining')
    BY <2>1, <2>2
  <2>6. \A r \in Muxed : req'[r].listed => mux' /\ req'[r].inbox = inbox'
    BY <2>1, <2>2 DEF ReqInv, Less, Req, Muxed
  <2> QED
    BY <2>1, <2>4, <2>5, <2>6 DEF ReqInv
<1>3. CASE drain \/ muxDrained
  <2>1. /\ UNCHANGED <<closed, epoch, mux, inbox, count, req, s2c, frames>>
        /\ draining' = TRUE /\ muxSub' \in {muxSub, FALSE}
    BY <1>3 DEF drain, muxDrained, ReqInv, TypeOK
  <2>2. TypeOK'
    BY <2>1 DEF ReqInv, TypeOK
  <2>3. \A r \in Req : Good(r, req'[r], closed' \/ draining')
    BY <2>1 DEF ReqInv, Good
  <2> QED
    BY <2>1, <2>2, <2>3 DEF ReqInv
<1>4. CASE reconnect \/ \E r \in Req, kind \in FrameKind : serverSends(r, kind)
  <2>1. UNCHANGED <<closed, draining, mux, muxSub, inbox, count, req>>
    BY <1>4 DEF reconnect, serverSends, conn
  <2>2. epoch' \in Nat /\ s2c' \in Seq(Frame) /\ frames' \in Nat
    <3>1. CASE reconnect
      BY <3>1 DEF reconnect, ReqInv, TypeOK
    <3>2. ASSUME NEW r \in Req, NEW kind \in FrameKind, serverSends(r, kind)
          PROVE  epoch' \in Nat /\ s2c' \in Seq(Frame) /\ frames' \in Nat
      <4>1. [kind |-> kind, r |-> r, inbox |-> req[r].inbox] \in Frame
        BY <1>1 DEF Frame, Request
      <4> QED
        BY <3>2, <4>1 DEF serverSends, conn, ReqInv, TypeOK
    <3> QED
      BY <1>4, <3>1, <3>2
  <2>3. TypeOK'
    BY <2>1, <2>2 DEF ReqInv, TypeOK
  <2> QED
    BY <2>1, <2>3 DEF ReqInv
<1> QED
  BY <1>2, <1>3, <1>4

-----------------------------------------------------------------------------
(* The theorems.                                                           *)

(* Nothing is requested yet. *)
LEMMA ReqInit == Init => ReqInv
<1> SUFFICES ASSUME Init PROVE ReqInv
  OBVIOUS
<1> DEFINE items == <<>>
<1>1. items \in Seq({"msg", "fail", "stop"})
  OBVIOUS
<1>2. NewRequest \in Request /\ NewRequest.items = items
  BY <1>1, -1 \in Int DEF NewRequest, Request
<1>3. /\ NewRequest.st = "idle" /\ NewRequest.listed = FALSE
      /\ NewRequest.timer = FALSE /\ NewRequest.failed = FALSE /\ NewRequest.pushed = 0
  BY DEF NewRequest
<1>4. TypeOK
  <2>1. req \in [Req -> Request]
    BY <1>2 DEF Init
  <2>2. s2c \in Seq(Frame)
    BY DEF Init
  <2> QED
    BY <2>1, <2>2 DEF Init, TypeOK
<1>5. \A r \in Many : Counted(r) => 0 <= MaxMessages[r]
  BY RequestsAssumption DEF Counted
<1>6. \A r \in Req : Good(r, NewRequest, FALSE)
  BY <1>2, <1>3, <1>5 DEF Good, OneGood, ManyGood
<1>7. \A r \in Req : req[r] = NewRequest
  BY DEF Init
<1>8. Muxed \subseteq Req
  BY DEF Req, Muxed
<1> QED
  BY <1>3, <1>4, <1>6, <1>7, <1>8 DEF Init, ReqInv

(* The invariant is inductive. *)
LEMMA ReqStep == ReqInv /\ [Next]_vars => ReqInv'
<1> SUFFICES ASSUME ReqInv, [Next]_vars PROVE ReqInv'
  OBVIOUS
<1>1. CASE Next
  <2>1. CASE \E r \in Req, published \in BOOLEAN :
               request(r, published) \/ requestNoMux(r, published)
    BY <2>1, RequestSteps
  <2>2. CASE \E r \in Req : next(r) \/ break(r) \/ timeout(r) \/ subDrained(r)
    BY <2>2, ReaderSteps
  <2>3. CASE receive
    BY <2>3, ReceiveStep
  <2>4. CASE \/ close \/ drain \/ muxDrained \/ reconnect
             \/ \E r \in Req, kind \in FrameKind : serverSends(r, kind)
    BY <2>4, ConnectionSteps
  <2> QED
    BY <1>1, <2>1, <2>2, <2>3, <2>4 DEF Next
<1>2. CASE UNCHANGED vars
  BY <1>2 DEF vars, ReqInv, TypeOK, isMux
<1> QED
  BY <1>1, <1>2

(* The invariant holds always. *)
LEMMA ReqAlways == Spec => []ReqInv
BY ReqInit, ReqStep, PTL DEF Spec

(* Every variable of the requests keeps its type. *)
THEOREM RequestsTyped == Spec => []TypeOK
<1>1. ReqInv => TypeOK
  BY DEF ReqInv
<1> QED
  BY <1>1, ReqAlways, PTL

(* No request leaks: MuxSubscription.reqs holds a request() exactly while  *)
(* its promise is pending, with its timer armed, whichever of reply, -ERR, *)
(* timer and close() comes first.                                          *)
THEOREM NeverLeaks == Spec => []NoLeak
<1>1. ReqInv => NoLeak
  BY DEF ReqInv, Good, OneGood, ManyGood, OnlyMsgs, NoLeak, Req
<1> QED
  BY <1>1, ReqAlways, PTL

(* The dispatcher can answer every request in MuxSubscription.reqs, though *)
(* processError() may have replaced the mux and its inbox in between.      *)
THEOREM AlwaysAnswerable == Spec => []Answerable
<1>1. ReqInv => Answerable
  BY DEF ReqInv, Answerable
<1> QED
  BY <1>1, ReqAlways, PTL

(* RequestMany.cancel() and its callers never leave a reader waiting on an *)
(* iterator nobody will end.                                               *)
THEOREM ReaderAlwaysEnds == Spec => []ReaderWillEnd
<1>1. ReqInv => ReaderWillEnd
  BY DEF ReqInv, Good, ManyGood, HasEnd, ReaderWillEnd, Req
<1> QED
  BY <1>1, ReqAlways, PTL

(* The error with which RequestMany.cancel() ends a request is read before *)
(* the end.                                                                *)
THEOREM ErrorAlwaysSurfaces == Spec => []ErrorSurfaces
<1>1. ReqInv => ErrorSurfaces
  BY DEF ReqInv, Good, ManyGood, FailFirst, ErrorSurfaces, Req
<1> QED
  BY <1>1, ReqAlways, PTL

(* The count strategy of RequestMany.resolver() pushes no more messages    *)
(* than opts.maxMessages.                                                  *)
THEOREM CountAlwaysRespected == Spec => []CountRespected
<1>1. ReqInv => CountRespected
  BY DEF ReqInv, Good, ManyGood, Counted, CountRespected, Req
<1> QED
  BY <1>1, ReqAlways, PTL

-----------------------------------------------------------------------------
(* The acknowledgements of a JetStream subscription (PushSubscription).    *)

FrameKinds == {"msg", "fc", "status", "terminal", "reply"}
AckKinds   == {"ack", "nak", "term", "working", "next", "ackAck", "pull", "fc"}
Frames     == [kind : FrameKinds, seq : Nat]
Queued     == [kind : {"msg", "fc"}, seq : Nat]
AckFrames  == [kind : AckKinds, seq : Nat]

(* What is in a queue, the messages of it, and those of one frame.         *)
Items(q) == {q[k] : k \in 1 .. Len(q)}
OfMsg(m) == IF m.kind = "msg" THEN {m.seq} ELSE {}
Seqs(q)  == UNION {OfMsg(m) : m \in Items(q)}

(* The messages before one in the queue are in B, or ahead of it.          *)
InOrder(q, B) ==
    \A k \in 1 .. Len(q) :
        q[k].kind = "msg" =>
            \A t \in 1 .. (q[k].seq - 1) : t \in B \/ \E j \in 1 .. (k - 1) : t \in OfMsg(q[j])

(* Who is among the messages of a queue.                                   *)
LEMMA InSeqs ==
    ASSUME NEW q, NEW t
    PROVE  t \in Seqs(q) <=> \E k \in 1 .. Len(q) : t \in OfMsg(q[k])
BY DEF Seqs, Items

(* What is in a queue.                                                     *)
LEMMA InItems == \A q, x : x \in Items(q) <=> \E k \in 1 .. Len(q) : x = q[k]
BY DEF Items

(* An empty queue.                                                         *)
LEMMA Empty == Items(<<>>) = {} /\ Seqs(<<>>) = {} /\ \A B : InOrder(<<>>, B)
BY DEF Items, Seqs, InOrder

(* More may be in hand.                                                    *)
LEMMA Wider ==
    ASSUME NEW q, NEW B, NEW C, InOrder(q, B), B \subseteq C
    PROVE  InOrder(q, C)
BY DEF InOrder

(* A frame at the end of a queue.                                          *)
LEMMA Appends ==
    ASSUME NEW S, NEW q \in Seq(S), NEW x \in S
    PROVE  /\ Append(q, x) \in Seq(S) /\ Items(Append(q, x)) = Items(q) \cup {x}
           /\ Seqs(Append(q, x)) = Seqs(q) \cup OfMsg(x)
<1>. DEFINE r == Append(q, x)
<1>1. r \in Seq(S) /\ Len(q) \in Nat /\ Len(r) = Len(q) + 1 /\ r[Len(q) + 1] = x
      /\ \A k \in 1 .. Len(q) : r[k] = q[k]
  OBVIOUS
<1>. HIDE DEF r
<1>2. ASSUME NEW y PROVE y \in Items(r) <=> y \in Items(q) \/ y = x
  <2>1. y \in Items(r) => y \in Items(q) \/ y = x
    <3>1. SUFFICES ASSUME NEW k \in 1 .. Len(r), y = r[k] PROVE y \in Items(q) \/ y = x  BY InItems
    <3>2. CASE k \in 1 .. Len(q)  BY <1>1, <3>1, <3>2, InItems
    <3>3. CASE k = Len(q) + 1  BY <1>1, <3>1, <3>3
    <3>. QED  BY <1>1, <3>2, <3>3
  <2>2. y \in Items(q) => y \in Items(r)
    <3>1. SUFFICES ASSUME NEW k \in 1 .. Len(q), y = q[k] PROVE y \in Items(r)  BY InItems
    <3>2. k \in 1 .. Len(r) /\ y = r[k]  BY <1>1, <3>1
    <3>. QED  BY <3>2, InItems
  <2>3. y = x => y \in Items(r)
    <3>1. Len(q) + 1 \in 1 .. Len(r)  BY <1>1
    <3>. QED  BY <1>1, <3>1, InItems
  <2>. QED  BY <2>1, <2>2, <2>3
<1>3. Items(r) = Items(q) \cup {x}  BY <1>2
<1>4. Seqs(r) = Seqs(q) \cup OfMsg(x)  BY <1>3 DEF Seqs
<1>. QED  BY <1>1, <1>3, <1>4 DEF r

(* It keeps the order when what is before it is in B or in the queue.      *)
LEMMA AppendsInOrder ==
    ASSUME NEW S, NEW q \in Seq(S), NEW x \in S, NEW B, InOrder(q, B),
           x.kind = "msg" => 1 .. (x.seq - 1) \subseteq B \cup Seqs(q)
    PROVE  InOrder(Append(q, x), B)
<1>. DEFINE r == Append(q, x)
<1>1. Len(q) \in Nat /\ Len(r) = Len(q) + 1 /\ r[Len(q) + 1] = x /\ \A k \in 1 .. Len(q) : r[k] = q[k]
  OBVIOUS
<1>. HIDE DEF r
<1>2. SUFFICES ASSUME NEW k \in 1 .. Len(r), r[k].kind = "msg", NEW t \in 1 .. (r[k].seq - 1), t \notin B
               PROVE  \E j \in 1 .. (k - 1) : t \in OfMsg(r[j])
  BY DEF InOrder, r
<1>3. CASE k \in 1 .. Len(q)
  <2>1. PICK j \in 1 .. (k - 1) : t \in OfMsg(q[j])  BY <1>1, <1>2, <1>3 DEF InOrder
  <2>2. j \in 1 .. Len(q)  BY <1>1, <1>3
  <2>. QED  BY <1>1, <2>1, <2>2
<1>4. CASE k = Len(q) + 1
  <2>1. t \in Seqs(q)  BY <1>1, <1>2, <1>4
  <2>2. PICK j \in 1 .. Len(q) : t \in OfMsg(q[j])  BY <2>1, InSeqs
  <2>3. j \in 1 .. (k - 1)  BY <1>1, <1>4
  <2>. QED  BY <1>1, <2>2, <2>3
<1>. QED  BY <1>1, <1>3, <1>4

(* The first of a queue, and the rest.                                     *)
LEMMA Takes ==
    ASSUME NEW S, NEW q \in Seq(S), q # <<>>
    PROVE  /\ Head(q) \in S /\ Tail(q) \in Seq(S)
           /\ Items(q) = {Head(q)} \cup Items(Tail(q)) /\ Seqs(q) = OfMsg(Head(q)) \cup Seqs(Tail(q))
<1>. DEFINE r == Tail(q)
<1>1. /\ Head(q) \in S /\ r \in Seq(S) /\ Len(q) \in Nat /\ Len(r) = Len(q) - 1 /\ Len(q) > 0 /\ q[1] = Head(q)
      /\ \A k \in 1 .. Len(r) : r[k] = q[k + 1]
  OBVIOUS
<1>. HIDE DEF r
<1>2. ASSUME NEW y PROVE y \in Items(q) <=> y = Head(q) \/ y \in Items(r)
  <2>1. y \in Items(q) => y = Head(q) \/ y \in Items(r)
    <3>1. SUFFICES ASSUME NEW k \in 1 .. Len(q), y = q[k], k # 1 PROVE y \in Items(r)  BY <1>1, InItems
    <3>2. k - 1 \in 1 .. Len(r) /\ y = r[k - 1]  BY <1>1, <3>1
    <3>. QED  BY <3>2, InItems
  <2>2. y \in Items(r) => y \in Items(q)
    <3>1. SUFFICES ASSUME NEW k \in 1 .. Len(r), y = r[k] PROVE y \in Items(q)  BY InItems
    <3>2. k + 1 \in 1 .. Len(q) /\ y = q[k + 1]  BY <1>1, <3>1
    <3>. QED  BY <3>2, InItems
  <2>3. y = Head(q) => y \in Items(q)
    <3>1. 1 \in 1 .. Len(q)  BY <1>1
    <3>. QED  BY <1>1, <3>1, InItems
  <2>. QED  BY <2>1, <2>2, <2>3
<1>3. Items(q) = {Head(q)} \cup Items(r)  BY <1>2
<1>4. Seqs(q) = OfMsg(Head(q)) \cup Seqs(r)  BY <1>3 DEF Seqs
<1>. QED  BY <1>1, <1>3, <1>4 DEF r

(* The rest is in order once the first is in hand.                         *)
LEMMA TakesInOrder ==
    ASSUME NEW S, NEW q \in Seq(S), q # <<>>, NEW B, InOrder(q, B)
    PROVE  /\ InOrder(Tail(q), B \cup OfMsg(Head(q)))
           /\ Head(q).kind = "msg" => 1 .. (Head(q).seq - 1) \subseteq B
<1>. DEFINE r == Tail(q)
            C == B \cup OfMsg(Head(q))
<1>1. /\ Len(q) \in Nat /\ Len(r) = Len(q) - 1 /\ Len(q) > 0 /\ q[1] = Head(q)
      /\ \A k \in 1 .. Len(r) : r[k] = q[k + 1]
  OBVIOUS
<1>. HIDE DEF r
<1>2. ASSUME NEW k \in 1 .. Len(r), r[k].kind = "msg", NEW t \in 1 .. (r[k].seq - 1), t \notin C
      PROVE  \E j \in 1 .. (k - 1) : t \in OfMsg(r[j])
  <2>1. k + 1 \in 1 .. Len(q) /\ q[k + 1] = r[k]  BY <1>1
  <2>2. PICK j \in 1 .. ((k + 1) - 1) : t \in OfMsg(q[j])  BY <1>2, <2>1 DEF InOrder
  <2>3. j # 1  BY <1>1, <1>2, <2>2
  <2>4. j - 1 \in 1 .. (k - 1) /\ j - 1 \in 1 .. Len(r) /\ (j - 1) + 1 = j  BY <1>1, <2>3
  <2>5. r[j - 1] = q[j]  BY <1>1, <2>4
  <2>. QED  BY <2>2, <2>4, <2>5
<1>3. InOrder(r, C)  BY <1>2 DEF InOrder
<1>4. Head(q).kind = "msg" => 1 .. (Head(q).seq - 1) \subseteq B
  <2>1. 1 \in 1 .. Len(q) /\ 1 .. (1 - 1) = {}  BY <1>1
  <2>. QED  BY <1>1, <2>1 DEF InOrder
<1>. QED  BY <1>3, <1>4 DEF r

States == {"none", "open", "draining", "closed"}
Early  == {"off", "find", "info"}
Stages == Early \cup {"create", "on", "rejected"}
TypedSub  == [state : States, yields : Seq(Queued), done : BOOLEAN]
Doing     == [processed : SUBSET Nat, confirmed : SUBSET Nat, wait : Nat]
Consumers == [exists : BOOLEAN, interest : BOOLEAN, next : Nat \ {0}, pending : SUBSET Nat,
              acked : SUBSET Nat, stalled : BOOLEAN, waiting : Int]

PsTypes ==
    /\ psUse \in PushUses /\ call \in Stages
    /\ typed \in TypedSub /\ given \in Doing /\ consumer \in Consumers
    /\ current \in [seq : Nat, didAck : BOOLEAN]
    /\ wire \in Seq(Frames) /\ acks \in Seq(AckFrames)

(* An ack that says the user has processed the message, and with the       *)
(* policy "all" those before it.                                           *)
Affirms(a) == a.kind \in {"ack", "ackAck", "next"}
Done(s)    == s \in given.processed /\ (psUse.policy = "all" => 1 .. s \subseteq given.processed)

(* What the user has had, and what it has or will have without the wire.   *)
Had    == given.processed \cup {current.seq} \cup {0}
InHand == Had \cup Seqs(typed.yields)

(* Nothing comes before the subscription, and nothing is queued or in the  *)
(* hands of a user who has a callback.                                     *)
Opened ==
    /\ call \in Early => typed.state = "none"
    /\ typed.state = "none" =>
         ~consumer.interest /\ wire = <<>> /\ acks = <<>> /\ current = Nobody /\ typed.yields = <<>>
    /\ typed.done => typed.state = "closed" \/ (typed.state = "none" /\ call = "rejected")
    /\ ~psUse.iterator => current = Nobody /\ typed.yields = <<>>

(* With the policy "all" nothing overtakes a message that is not processed.*)
Ordered ==
    /\ 1 .. (current.seq - 1) \subseteq given.processed
    /\ InOrder(typed.yields, Had)
    /\ typed.state # "closed" =>
         InOrder(wire, InHand) /\ 1 .. (consumer.next - 1) \subseteq InHand \cup Seqs(wire)

AckInv ==
    /\ PsTypes
    /\ consumer.acked \subseteq given.processed /\ given.confirmed \subseteq consumer.acked
    /\ consumer.pending \subseteq 1 .. (consumer.next - 1)
    /\ \A a \in Items(acks) : Affirms(a) => Done(a.seq)
    /\ \A f \in Items(wire) : f.kind = "reply" => f.seq \in consumer.acked
    /\ Opened
    /\ psUse.policy = "all" => Ordered

(* How a subscription may be used.                                         *)
LEMMA Use ==
    ASSUME AckInv
    PROVE  Options(psUse) /\ (psUse.policy = "all" => "lose" \notin psUse.faults)
BY PushAssumption DEF AckInv, PsTypes

(* Nothing is sent, processed or acknowledged at the start.                *)
LEMMA AckInit == ASSUME PsInit PROVE AckInv
<1>1. PICK o \in PushUses : PsState(o)  BY DEF PsInit
<1>2. PsTypes
  <2>1. <<>> \in Seq(Queued) /\ <<>> \in Seq(Frames) /\ <<>> \in Seq(AckFrames)  OBVIOUS
  <2>2. typed \in TypedSub  BY <1>1, <2>1 DEF PsState, TypedSub, States
  <2>3. given \in Doing  BY <1>1 DEF PsState, Doing
  <2>4. consumer \in Consumers  BY <1>1 DEF PsState, Consumers
  <2>. QED  BY <1>1, <2>1, <2>2, <2>3, <2>4 DEF PsTypes, PsState, Stages, Early, Nobody
<1>3. /\ psUse = o /\ call = "off" /\ typed.state = "none" /\ typed.yields = <<>> /\ ~typed.done
      /\ current = Nobody /\ current.seq = 0 /\ given.processed = {} /\ given.confirmed = {}
      /\ ~consumer.interest /\ consumer.next = 1 /\ consumer.pending = {} /\ consumer.acked = {}
      /\ wire = <<>> /\ acks = <<>>
  BY <1>1 DEF PsState, Nobody
<1>4. Opened  BY <1>3 DEF Opened
<1>5. Ordered
  <2>1. 1 .. (0 - 1) = {} /\ 1 .. (1 - 1) = {}  OBVIOUS
  <2>. QED  BY <1>3, <2>1, Empty DEF Ordered
<1>. QED  BY <1>2, <1>3, <1>4, <1>5, Empty DEF AckInv

(* A step that leaves the messages alone, or ends the subscription.        *)
LEMMA Quiet ==
    ASSUME AckInv, Opened', psUse' = psUse, call' \in Stages, wire' = wire, acks' = acks,
           typed' \in TypedSub, given' \in Doing, consumer' \in Consumers,
           given'.processed = given.processed, given'.confirmed = given.confirmed,
           consumer'.next = consumer.next, consumer'.pending = consumer.pending,
           consumer'.acked = consumer.acked,
           typed.state = "closed" => typed'.state = "closed",
           \/ current' = current /\ typed'.yields = typed.yields
           \/ current' = Nobody /\ typed'.yields = <<>> /\ typed'.state = "closed"
    PROVE  AckInv'
<1>1. PsTypes'
  <2>1. Nobody \in [seq : Nat, didAck : BOOLEAN]  BY DEF Nobody
  <2>. QED  BY <2>1 DEF AckInv, PsTypes
<1>2. \A s : Done(s)' <=> Done(s)  BY DEF Done
<1>3. \A a \in Items(acks)' : Affirms(a) => Done(a.seq)'  BY <1>2 DEF AckInv
<1>4. psUse.policy = "all" => Ordered'
  <2>. HAVE psUse.policy = "all"
  <2>1. Ordered  BY DEF AckInv
  <2>2. CASE current' = current /\ typed'.yields = typed.yields
    <3>1. Had' = Had /\ InHand' = InHand  BY <2>2 DEF Had, InHand
    <3>. QED  BY <2>1, <2>2, <3>1 DEF Ordered
  <2>3. CASE current' = Nobody /\ typed'.yields = <<>> /\ typed'.state = "closed"
    <3>1. current'.seq = 0 /\ 1 .. (0 - 1) = {}  BY <2>3 DEF Nobody
    <3>. QED  BY <2>3, <3>1, Empty DEF Ordered
  <2>. QED  BY <2>2, <2>3
<1>. QED  BY <1>1, <1>3, <1>4 DEF AckInv

(* A frame is sent to the client.                                          *)
LEMMA Arrives ==
    ASSUME AckInv, typed.state # "none", NEW f \in Frames, wire' = Append(wire, f),
           UNCHANGED <<psUse, call, typed, current, given>>,
           acks' \in Seq(AckFrames), Items(acks') \subseteq Items(acks),
           consumer' \in Consumers, consumer'.next >= consumer.next,
           consumer.acked \subseteq consumer'.acked, consumer'.acked \subseteq given.processed,
           consumer'.pending \subseteq 1 .. (consumer'.next - 1),
           f.kind = "msg" => f.seq <= consumer.next,
           f.kind = "msg" => 1 .. (consumer'.next - 1) \subseteq 1 .. (consumer.next - 1) \cup {f.seq},
           f.kind # "msg" => consumer'.next = consumer.next,
           f.kind = "reply" => f.seq \in consumer'.acked
    PROVE  AckInv'
<1>0. /\ wire \in Seq(Frames) /\ wire' \in Seq(Frames) /\ Items(wire') = Items(wire) \cup {f}
      /\ Seqs(wire') = Seqs(wire) \cup OfMsg(f)
  BY Appends DEF AckInv, PsTypes
<1>1. PsTypes'  BY <1>0 DEF AckInv, PsTypes
<1>2. Opened'  BY DEF AckInv, Opened
<1>3. \A g \in Items(wire') : g.kind = "reply" => g.seq \in consumer'.acked  BY <1>0 DEF AckInv
<1>4. \A s : Done(s)' <=> Done(s)  BY DEF Done
<1>5. \A a \in Items(acks)' : Affirms(a) => Done(a.seq)'  BY <1>4 DEF AckInv
<1>6. psUse.policy = "all" => Ordered'
  <2>. HAVE psUse.policy = "all"
  <2>1. Ordered  BY DEF AckInv
  <2>2. Had' = Had /\ InHand' = InHand  BY DEF Had, InHand
  <2>3. ASSUME typed.state # "closed"
        PROVE  InOrder(wire', InHand) /\ 1 .. (consumer'.next - 1) \subseteq InHand \cup Seqs(wire')
    <3>1. InOrder(wire, InHand) /\ 1 .. (consumer.next - 1) \subseteq InHand \cup Seqs(wire)
      BY <2>1, <2>3 DEF Ordered
    <3>2. f.kind = "msg" => 1 .. (f.seq - 1) \subseteq 1 .. (consumer.next - 1)
      <4>1. f.seq \in Nat /\ consumer.next \in Nat  BY DEF AckInv, PsTypes, Frames, Consumers
      <4>. QED  BY <4>1
    <3>3. f.kind = "msg" => 1 .. (f.seq - 1) \subseteq InHand \cup Seqs(wire)  BY <3>1, <3>2
    <3>4. InOrder(wire', InHand)  BY <1>0, <3>1, <3>3, AppendsInOrder
    <3>5. f.kind = "msg" => OfMsg(f) = {f.seq}  BY DEF OfMsg
    <3>6. 1 .. (consumer'.next - 1) \subseteq InHand \cup Seqs(wire')
      BY <1>0, <3>1, <3>5
    <3>. QED  BY <3>4, <3>6
  <2>. QED  BY <2>1, <2>2, <2>3 DEF Ordered
<1>. QED  BY <1>1, <1>2, <1>3, <1>5, <1>6 DEF AckInv

(* What the consumer knows of the messages it sent.                        *)
LEMMA Acknowledges ==
    ASSUME AckInv, typed.state # "none", UNCHANGED <<psUse, call, typed, current, given, wire>>,
           acks' \in Seq(AckFrames), Items(acks') \subseteq Items(acks),
           consumer' \in Consumers, consumer'.next = consumer.next, consumer'.pending \subseteq consumer.pending,
           consumer.acked \subseteq consumer'.acked, consumer'.acked \subseteq given.processed
    PROVE  AckInv'
<1>1. PsTypes'  BY DEF AckInv, PsTypes
<1>2. Opened'  BY DEF AckInv, Opened
<1>3. \A s : Done(s)' <=> Done(s)  BY DEF Done
<1>4. \A a \in Items(acks)' : Affirms(a) => Done(a.seq)'  BY <1>3 DEF AckInv
<1>5. psUse.policy = "all" => Ordered'
  <2>. HAVE psUse.policy = "all"
  <2>1. Ordered  BY DEF AckInv
  <2>2. Had' = Had /\ InHand' = InHand  BY DEF Had, InHand
  <2>. QED  BY <2>1, <2>2 DEF Ordered
<1>. QED  BY <1>1, <1>2, <1>4, <1>5 DEF AckInv

(* The records with one field replaced.                                    *)
LEMMA TypedSets ==
    ASSUME NEW t \in TypedSub, NEW st \in States, NEW d \in BOOLEAN, NEW u,
           u \in {[t EXCEPT !.state = st], [t EXCEPT !.state = st, !.done = d],
                  [[t EXCEPT !.done = TRUE] EXCEPT !.state = st]}
    PROVE  u \in TypedSub /\ u.state = st /\ u.yields = t.yields
BY DEF TypedSub

(* The server takes the subscription, or its end.                          *)
LEMMA Interested ==
    ASSUME NEW c \in Consumers, NEW b \in BOOLEAN
    PROVE  LET d == [c EXCEPT !.interest = b]
           IN  d \in Consumers /\ d.interest = b /\ d.next = c.next /\ d.pending = c.pending /\ d.acked = c.acked
BY DEF Consumers

(* The consumer is created, or gone.                                       *)
LEMMA Exists ==
    ASSUME NEW c \in Consumers, NEW b \in BOOLEAN
    PROVE  LET d == [c EXCEPT !.exists = b]
           IN  d \in Consumers /\ d.interest = c.interest /\ d.next = c.next /\ d.pending = c.pending
               /\ d.acked = c.acked
BY DEF Consumers

(* The consumer waits for the answer to a flow control, or goes on.        *)
LEMMA Stalls ==
    ASSUME NEW c \in Consumers, NEW b \in BOOLEAN
    PROVE  LET d == [c EXCEPT !.stalled = b]
           IN  d \in Consumers /\ d.interest = c.interest /\ d.next = c.next /\ d.pending = c.pending
               /\ d.acked = c.acked
BY DEF Consumers

(* The pulls that wait at the consumer.                                    *)
LEMMA Waits ==
    ASSUME NEW c \in Consumers, NEW n \in Int
    PROVE  LET d == [c EXCEPT !.waiting = n]
           IN  d \in Consumers /\ d.interest = c.interest /\ d.next = c.next /\ d.pending = c.pending
               /\ d.acked = c.acked
BY DEF Consumers

(* A pull is answered.                                                     *)
LEMMA SentKeeps ==
    ASSUME NEW c \in Consumers
    PROVE  /\ Sent(c) \in Consumers /\ Sent(c).interest = c.interest /\ Sent(c).next = c.next
           /\ Sent(c).pending = c.pending /\ Sent(c).acked = c.acked
<1>1. c.waiting \in Int  BY DEF Consumers
<1>. DEFINE n == IF psUse.pull THEN c.waiting - 1 ELSE c.waiting
<1>2. n \in Int  BY <1>1
<1>3. Sent(c) = [c EXCEPT !.waiting = n]  BY DEF Sent
<1>. HIDE DEF n
<1>. QED  BY <1>2, <1>3, Waits

(* subscribe() rejects, and what it made is undone.                        *)
LEMMA RejectKeeps ==
    ASSUME AckInv, call \in Early \cup {"create"}, Reject,
           UNCHANGED <<psUse, current, given, wire, acks>>
    PROVE  AckInv'
<1>. DEFINE st == IF typed.state = "none" THEN "none" ELSE "closed"
<1>1. typed \in TypedSub /\ consumer \in Consumers /\ given \in Doing  BY DEF AckInv, PsTypes
<1>2. typed.state \in States /\ st \in States  BY <1>1 DEF TypedSub, States
<1>3. call' = "rejected" /\ typed' = [typed EXCEPT !.state = st, !.done = TRUE]
      /\ consumer' = [consumer EXCEPT !.interest = FALSE]
  BY DEF Reject
<1>4. typed' \in TypedSub /\ typed'.state = st /\ typed'.yields = typed.yields
  <2>. HIDE DEF st
  <2>. QED  BY <1>1, <1>2, <1>3, TypedSets
<1>5. /\ consumer' \in Consumers /\ ~consumer'.interest /\ consumer'.next = consumer.next
      /\ consumer'.pending = consumer.pending /\ consumer'.acked = consumer.acked
  BY <1>1, <1>3, Interested
<1>6. Opened'  BY <1>3, <1>4, <1>5 DEF AckInv, Opened, Early
<1>7. call' \in Stages  BY <1>3 DEF Stages
<1>. QED  BY <1>1, <1>4, <1>5, <1>6, <1>7, Quiet

(* The subscription is made, before the consumer is.                       *)
LEMMA MaybeKeeps ==
    ASSUME AckInv, call \in Early, NEW attached \in BOOLEAN, maybeCreateConsumer(attached),
           UNCHANGED <<psUse, current, given, wire, acks>>
    PROVE  AckInv'
<1>1. typed \in TypedSub /\ consumer \in Consumers /\ given \in Doing  BY DEF AckInv, PsTypes
<1>2. typed.state = "none" /\ ~consumer.interest /\ wire = <<>> /\ acks = <<>> /\ current = Nobody
      /\ typed.yields = <<>>
  BY DEF AckInv, Opened
<1>3. CASE psUse.isBind /\ ~attached
  <2>1. call' = "rejected" /\ typed' = [typed EXCEPT !.state = "closed", !.done = TRUE] /\ consumer' = consumer
    BY <1>3, Zenon DEF maybeCreateConsumer
  <2>2. typed' \in TypedSub /\ typed'.state = "closed" /\ typed'.yields = typed.yields
    BY <1>1, <2>1, TypedSets DEF States
  <2>3. Opened'  BY <1>2, <2>1, <2>2 DEF AckInv, Opened, Early
  <2>. QED  BY <1>1, <2>1, <2>2, <2>3, Quiet DEF Stages
<1>4. CASE ~(psUse.isBind /\ ~attached)
  <2>1. /\ call' \in {"on", "create"} /\ typed' = [typed EXCEPT !.state = "open"]
        /\ consumer' = [consumer EXCEPT !.interest = TRUE]
    BY <1>4, Zenon DEF maybeCreateConsumer
  <2>2. typed' \in TypedSub /\ typed'.state = "open" /\ typed'.yields = typed.yields
    BY <1>1, <2>1, TypedSets DEF States
  <2>5. typed'.done = typed.done  BY <1>1, <2>1 DEF TypedSub
  <2>3. /\ consumer' \in Consumers /\ consumer'.next = consumer.next
        /\ consumer'.pending = consumer.pending /\ consumer'.acked = consumer.acked
    BY <1>1, <2>1, Interested
  <2>6. ~typed.done  BY <1>2 DEF AckInv, Opened, Early
  <2>4. Opened'  BY <1>2, <2>1, <2>2, <2>5, <2>6 DEF AckInv, Opened, Early
  <2>. QED  BY <1>1, <1>2, <2>1, <2>2, <2>3, <2>4, Quiet DEF Stages
<1>. QED  BY <1>3, <1>4

(* The steps of subscribe().                                               *)
LEMMA Subscribing ==
    ASSUME AckInv, subscribe \/ findStream \/ processInfo \/ ServerCreates \/ Created
    PROVE  AckInv'
<1>0. typed \in TypedSub /\ consumer \in Consumers /\ given \in Doing /\ Opened /\ call \in Stages
  BY DEF AckInv, PsTypes
<1>. DEFINE Rest == UNCHANGED <<psUse, typed, current, given, consumer, wire, acks>>
<1>1. ASSUME Rest, call' \in {"find", "info"}, call \in Early
      PROVE  AckInv'
  <2>1. Opened'  BY <1>0, <1>1 DEF Opened, Early
  <2>. QED  BY <1>0, <1>1, <2>1, Quiet DEF Stages, Early
<1>2. ASSUME Rest, call' = "on", call = "create"
      PROVE  AckInv'
  <2>1. Opened'  BY <1>0, <1>2 DEF Opened, Early
  <2>. QED  BY <1>0, <1>2, <2>1, Quiet DEF Stages, Early
<1>3. CASE subscribe
  <2>1. Rest /\ call' = "find" /\ call = "off"  BY <1>3 DEF subscribe
  <2>. QED  BY <2>1, <1>1 DEF Early
<1>4. CASE findStream
  <2>1. /\ call = "find" /\ UNCHANGED <<psUse, current, given, wire, acks>>
        /\ \/ call' = "info" /\ UNCHANGED <<typed, consumer>>
           \/ maybeCreateConsumer(FALSE)
           \/ Reject
    BY <1>4 DEF findStream
  <2>2. CASE call' = "info" /\ UNCHANGED <<typed, consumer>>  BY <1>1, <2>1, <2>2 DEF Early
  <2>3. CASE maybeCreateConsumer(FALSE)  BY <2>1, <2>3, MaybeKeeps DEF Early
  <2>4. CASE Reject  BY <2>1, <2>4, RejectKeeps DEF Early
  <2>. QED  BY <2>1, <2>2, <2>3, <2>4
<1>5. CASE processInfo
  <2>1. /\ call = "info" /\ UNCHANGED <<psUse, current, given, wire, acks>>
        /\ maybeCreateConsumer(psUse.found = "same") \/ Reject
    BY <1>5 DEF processInfo
  <2>2. CASE maybeCreateConsumer(psUse.found = "same")
    <3>1. (psUse.found = "same") \in BOOLEAN  OBVIOUS
    <3>. QED  BY <2>1, <2>2, <3>1, MaybeKeeps DEF Early
  <2>3. CASE Reject  BY <2>1, <2>3, RejectKeeps DEF Early
  <2>. QED  BY <2>1, <2>2, <2>3
<1>6. CASE ServerCreates
  <2>1. /\ consumer' = [consumer EXCEPT !.exists = TRUE]
        /\ UNCHANGED <<psUse, call, typed, current, given, wire, acks>>
    BY <1>6 DEF ServerCreates
  <2>2. /\ consumer' \in Consumers /\ consumer'.interest = consumer.interest /\ consumer'.next = consumer.next
        /\ consumer'.pending = consumer.pending /\ consumer'.acked = consumer.acked
    BY <1>0, <2>1, Exists
  <2>3. Opened'  BY <1>0, <2>1, <2>2 DEF Opened
  <2>. QED  BY <1>0, <2>1, <2>2, <2>3, Quiet
<1>7. CASE Created
  <2>1. /\ call = "create" /\ UNCHANGED <<psUse, current, given, wire, acks>>
        /\ \/ call' = "on" /\ UNCHANGED <<typed, consumer>>
           \/ Reject
    BY <1>7 DEF Created
  <2>2. CASE call' = "on" /\ UNCHANGED <<typed, consumer>>  BY <1>2, <2>1, <2>2
  <2>3. CASE Reject  BY <2>1, <2>3, RejectKeeps
  <2>. QED  BY <2>1, <2>2, <2>3
<1>. QED  BY <1>3, <1>4, <1>5, <1>6, <1>7

(* A subscription that was made stays made.                                *)
LEMMA StaysOpened ==
    ASSUME Opened, typed'.state # "none", call' \notin Early, psUse' = psUse,
           typed'.done => typed'.state = "closed",
           current' = current \/ current' = Nobody, typed'.yields = typed.yields \/ typed'.yields = <<>>
    PROVE  Opened'
BY DEF Opened

(* The subscription ends, or is about to.                                  *)
LEMMA Leaving ==
    ASSUME AckInv, unsubscribe \/ Drained \/ destroy \/ Break \/ ackAckTimeout \/ heartbeatMissed
    PROVE  AckInv'
<1>0. typed \in TypedSub /\ consumer \in Consumers /\ given \in Doing /\ Opened /\ call \in Stages
  BY DEF AckInv, PsTypes
<1>1. CASE unsubscribe
  <2>1. /\ call = "on" /\ typed.state = "open" /\ UNCHANGED <<psUse, call, current, given, wire, acks>>
        /\ consumer' = [consumer EXCEPT !.interest = FALSE]
    BY <1>1 DEF unsubscribe
  <2>2. PICK st \in {"draining", "closed"} : typed' = [typed EXCEPT !.state = st, !.done = st = "closed"]
    BY <1>1 DEF unsubscribe
  <2>. DEFINE d == st = "closed"
  <2>3. d \in BOOLEAN /\ st \in States  BY DEF States
  <2>8. typed' = [typed EXCEPT !.state = st, !.done = d]  BY <2>2
  <2>4. typed' \in TypedSub /\ typed'.state = st /\ typed'.yields = typed.yields
    <3>. HIDE DEF d
    <3>. QED  BY <1>0, <2>3, <2>8 DEF TypedSub
  <2>5. typed'.done => st = "closed"  BY <1>0, <2>2 DEF TypedSub
  <2>6. /\ consumer' \in Consumers /\ ~consumer'.interest /\ consumer'.next = consumer.next
        /\ consumer'.pending = consumer.pending /\ consumer'.acked = consumer.acked
    BY <1>0, <2>1, Interested
  <2>7. Opened'
    <3>1. /\ typed'.state # "none"
          /\ typed'.done => typed'.state = "closed"  BY <2>4, <2>5
    <3>2. /\ call' \notin Early /\ psUse' = psUse /\ current' = current  BY <2>1 DEF Early
    <3>. QED  BY <1>0, <2>4, <3>1, <3>2, StaysOpened
  <2>9. /\ psUse' = psUse /\ call' \in Stages /\ wire' = wire /\ acks' = acks /\ given' \in Doing
        /\ given' = given /\ current' = current /\ typed.state # "closed"
    BY <1>0, <2>1
  <2>. QED  BY <2>4, <2>6, <2>7, <2>9, Quiet
<1>2. CASE Drained
  <2>1. /\ typed.state = "draining" /\ UNCHANGED <<psUse, call, current, given, consumer, wire, acks>>
        /\ typed' = [[typed EXCEPT !.done = TRUE] EXCEPT !.state = "closed"]
    BY <1>2 DEF Drained, stop
  <2>2. typed' \in TypedSub /\ typed'.state = "closed" /\ typed'.yields = typed.yields
    BY <1>0, <2>1, TypedSets DEF States
  <2>3. Opened'
    <3>1. call' \notin Early /\ psUse' = psUse /\ current' = current  BY <1>0, <2>1 DEF Opened
    <3>. QED  BY <1>0, <2>2, <3>1, StaysOpened
  <2>4. /\ psUse' = psUse /\ call' \in Stages /\ wire' = wire /\ acks' = acks /\ given' \in Doing
        /\ given' = given /\ current' = current /\ consumer' \in Consumers /\ consumer' = consumer
    BY <1>0, <2>1
  <2>. QED  BY <2>2, <2>3, <2>4, Quiet
<1>3. CASE destroy
  <2>1. /\ consumer' = [consumer EXCEPT !.exists = FALSE]
        /\ UNCHANGED <<psUse, call, typed, current, given, wire, acks>>
    BY <1>3 DEF destroy
  <2>2. /\ consumer' \in Consumers /\ consumer'.interest = consumer.interest /\ consumer'.next = consumer.next
        /\ consumer'.pending = consumer.pending /\ consumer'.acked = consumer.acked
    BY <1>0, <2>1, Exists
  <2>3. Opened'  BY <1>0, <2>1, <2>2 DEF Opened
  <2>. QED  BY <1>0, <2>1, <2>2, <2>3, Quiet
<1>4. CASE Break
  <2>1. /\ current # Nobody /\ current' = Nobody /\ UNCHANGED <<psUse, call, wire, acks>>
        /\ typed' = [[typed EXCEPT !.done = TRUE] EXCEPT !.state = "closed", !.yields = <<>>]
        /\ consumer' = [consumer EXCEPT !.interest = FALSE] /\ given' = [given EXCEPT !.wait = 0]
    BY <1>4 DEF Break, stop
  <2>2. typed' \in TypedSub /\ typed'.state = "closed" /\ typed'.yields = <<>>
    <3>1. <<>> \in Seq(Queued)  OBVIOUS
    <3>. QED  BY <1>0, <2>1, <3>1 DEF TypedSub, States
  <2>3. given' \in Doing /\ given'.processed = given.processed /\ given'.confirmed = given.confirmed
    BY <1>0, <2>1 DEF Doing
  <2>4. /\ consumer' \in Consumers /\ ~consumer'.interest /\ consumer'.next = consumer.next
        /\ consumer'.pending = consumer.pending /\ consumer'.acked = consumer.acked
    BY <1>0, <2>1, Interested
  <2>5. Opened'
    <3>1. call' \notin Early /\ psUse' = psUse /\ current' = Nobody  BY <1>0, <2>1 DEF Opened
    <3>. QED  BY <1>0, <2>2, <3>1, StaysOpened
  <2>6. /\ psUse' = psUse /\ call' \in Stages /\ wire' = wire /\ acks' = acks /\ current' = Nobody
    BY <1>0, <2>1
  <2>. QED  BY <2>2, <2>3, <2>4, <2>5, <2>6, Quiet
<1>5. CASE ackAckTimeout
  <2>1. /\ given' = [given EXCEPT !.wait = 0] /\ UNCHANGED <<psUse, call, typed, current, consumer, wire, acks>>
    BY <1>5 DEF ackAckTimeout
  <2>2. given' \in Doing /\ given'.processed = given.processed /\ given'.confirmed = given.confirmed
    BY <1>0, <2>1 DEF Doing
  <2>3. Opened'  BY <1>0, <2>1 DEF Opened
  <2>. QED  BY <1>0, <2>1, <2>2, <2>3, Quiet
<1>6. CASE heartbeatMissed
  <2>1. /\ call = "on" /\ typed.state = "open" /\ UNCHANGED <<psUse, call, current, given, wire, acks>>
    BY <1>6 DEF heartbeatMissed, iterCallback
  <2>2. CASE psUse.iterator
    <3>1. /\ typed' = [[typed EXCEPT !.done = TRUE] EXCEPT !.state = "closed"]
          /\ consumer' = [consumer EXCEPT !.interest = FALSE]
      <4>1. iterCallback(Control("terminal")) /\ Control("terminal").kind = "terminal"
        BY <1>6, <2>2 DEF heartbeatMissed, Control
      <4>. QED  BY <4>1, Zenon DEF iterCallback, stop
    <3>2. typed' \in TypedSub /\ typed'.state = "closed" /\ typed'.yields = typed.yields
      BY <1>0, <3>1, TypedSets DEF States
    <3>3. /\ consumer' \in Consumers /\ ~consumer'.interest /\ consumer'.next = consumer.next
          /\ consumer'.pending = consumer.pending /\ consumer'.acked = consumer.acked
      BY <1>0, <3>1, Interested
    <3>4. Opened'
      <4>1. call' \notin Early /\ psUse' = psUse /\ current' = current  BY <2>1 DEF Early
      <4>. QED  BY <1>0, <3>2, <4>1, StaysOpened
    <3>5. /\ psUse' = psUse /\ call' \in Stages /\ wire' = wire /\ acks' = acks /\ given' \in Doing
          /\ given' = given /\ current' = current
      BY <1>0, <2>1
    <3>. QED  BY <3>2, <3>3, <3>4, <3>5, Quiet
  <2>3. CASE ~psUse.iterator
    <3>1. UNCHANGED <<typed, consumer>>  BY <1>6, <2>3 DEF heartbeatMissed
    <3>2. Opened'  BY <1>0, <2>1, <3>1 DEF Opened
    <3>. QED  BY <1>0, <2>1, <3>1, <3>2, Quiet
  <2>. QED  BY <2>2, <2>3
<1>. QED  BY <1>1, <1>2, <1>3, <1>4, <1>5, <1>6

(* What a consumer sends.                                                  *)
LEMMA Delivering ==
    ASSUME AckInv, Deliver \/ FlowControl \/ (\E s \in 1..Stored : Redeliver(s))
                     \/ (\E k \in {"status", "terminal"} : Status(k))
    PROVE  AckInv'
<1>0. /\ consumer \in Consumers /\ acks \in Seq(AckFrames) /\ consumer.next \in Nat \ {0}
      /\ consumer.pending \subseteq 1 .. (consumer.next - 1) /\ consumer.acked \subseteq given.processed
  BY DEF AckInv, PsTypes, Consumers
<1>1. consumer.interest => typed.state # "none"  BY DEF AckInv, Opened
<1>2. CASE Deliver
  <2>. DEFINE n == consumer.next
              m == n + 1
              p == IF psUse.policy = "none" THEN consumer.pending ELSE consumer.pending \cup {n}
  <2>1. /\ consumer.interest /\ wire' = Append(wire, Message(n))
        /\ UNCHANGED <<psUse, call, typed, current, given, acks>>
        /\ consumer' = [Sent(consumer) EXCEPT !.next = @ + 1,
             !.pending = IF psUse.policy = "none" THEN @ ELSE @ \cup {n}]
    BY <1>2 DEF Deliver, Ready, ToClient
  <2>2. /\ Sent(consumer) \in Consumers /\ Sent(consumer).next = n /\ Sent(consumer).acked = consumer.acked
        /\ Sent(consumer).pending = consumer.pending
    BY <1>0, SentKeeps
  <2>3. consumer' = [Sent(consumer) EXCEPT !.next = m, !.pending = p]  BY <2>1, <2>2
  <2>4. m \in Nat \ {0} /\ p \in SUBSET Nat /\ p \subseteq 1 .. (m - 1) /\ m >= n
        /\ 1 .. (m - 1) \subseteq 1 .. (n - 1) \cup {n}
    BY <1>0
  <2>5. Message(n) \in Frames /\ Message(n).kind = "msg" /\ Message(n).seq = n
    BY <1>0 DEF Message, Frames, FrameKinds
  <2>. HIDE DEF m, p
  <2>6. consumer' \in Consumers /\ consumer'.next = m /\ consumer'.pending = p /\ consumer'.acked = consumer.acked
    BY <2>2, <2>3, <2>4 DEF Consumers
  <2>. HIDE DEF n
  <2>7. n = consumer.next /\ n <= n /\ n \in Nat  BY <1>0 DEF n
  <2>8. /\ acks' = acks /\ typed.state # "none" /\ UNCHANGED <<psUse, call, typed, current, given>>
    BY <1>1, <2>1
  <2>9. wire' = Append(wire, Message(n))  BY <2>1
  <2>. QED  BY <1>0, <2>4, <2>5, <2>6, <2>7, <2>8, <2>9, Arrives
<1>3. ASSUME NEW f \in Frames, consumer.interest, wire' = Append(wire, f),
             UNCHANGED <<psUse, call, typed, current, given, acks>>,
             consumer' \in Consumers, consumer'.next = consumer.next, consumer'.pending = consumer.pending,
             consumer'.acked = consumer.acked,
             f.kind = "msg" => f.seq \in consumer.pending, f.kind # "reply"
      PROVE  AckInv'
  <2>1. f.kind = "msg" => f.seq <= consumer.next  BY <1>0, <1>3
  <2>2. consumer'.next >= consumer.next  BY <1>0, <1>3
  <2>. QED  BY <1>0, <1>1, <1>3, <2>1, <2>2, Arrives
<1>4. ASSUME NEW s \in 1 .. Stored, Redeliver(s) PROVE AckInv'
  <2>1. /\ consumer.interest /\ wire' = Append(wire, Message(s)) /\ consumer' = Sent(consumer)
        /\ UNCHANGED <<psUse, call, typed, current, given, acks>> /\ s \in consumer.pending
    BY <1>4 DEF Redeliver, Ready, ToClient
  <2>2. Message(s) \in Frames /\ Message(s).kind = "msg" /\ Message(s).seq = s
    BY PushAssumption DEF Message, Frames, FrameKinds
  <2>. QED  BY <1>0, <1>3, <2>1, <2>2, SentKeeps
<1>5. CASE FlowControl
  <2>1. /\ consumer.interest /\ wire' = Append(wire, Control("fc")) /\ consumer' = [consumer EXCEPT !.stalled = TRUE]
        /\ UNCHANGED <<psUse, call, typed, current, given, acks>>
    BY <1>5 DEF FlowControl, Ready, ToClient
  <2>2. Control("fc") \in Frames /\ Control("fc").kind = "fc"  BY DEF Control, Frames, FrameKinds
  <2>. QED  BY <1>0, <1>3, <2>1, <2>2, Stalls
<1>6. ASSUME NEW k \in {"status", "terminal"}, Status(k) PROVE AckInv'
  <2>1. /\ consumer.interest /\ wire' = Append(wire, Control(k))
        /\ UNCHANGED <<psUse, call, typed, current, given, acks>>
        /\ consumer' = [consumer EXCEPT !.exists = FALSE] \/ consumer' = Sent(consumer)
    BY <1>6 DEF Status, ToClient
  <2>2. Control(k) \in Frames /\ Control(k).kind = k  BY DEF Control, Frames, FrameKinds
  <2>3. /\ consumer' \in Consumers /\ consumer'.next = consumer.next /\ consumer'.pending = consumer.pending
        /\ consumer'.acked = consumer.acked
    <3>1. CASE consumer' = [consumer EXCEPT !.exists = FALSE]  BY <1>0, <3>1, Exists
    <3>2. CASE consumer' = Sent(consumer)  BY <1>0, <3>2, SentKeeps
    <3>. QED  BY <2>1, <3>1, <3>2
  <2>. QED  BY <1>3, <2>1, <2>2, <2>3
<1>. QED  BY <1>2, <1>4, <1>5, <1>6

(* The connection is lost.                                                 *)
LEMMA LoseKeeps == ASSUME AckInv, Lose PROVE AckInv'
<1>1. /\ "lose" \in psUse.faults /\ wire' = <<>> /\ acks' = <<>> /\ consumer' = [consumer EXCEPT !.waiting = 0]
      /\ UNCHANGED <<psUse, call, typed, current, given>>
  BY DEF Lose, Fault
<1>2. psUse.policy # "all"  BY <1>1, Use
<1>3. consumer \in Consumers  BY DEF AckInv, PsTypes
<1>4. /\ consumer' \in Consumers /\ consumer'.interest = consumer.interest /\ consumer'.next = consumer.next
      /\ consumer'.pending = consumer.pending /\ consumer'.acked = consumer.acked
  BY <1>1, <1>3, Waits
<1>5. wire' \in Seq(Frames) /\ acks' \in Seq(AckFrames)  BY <1>1
<1>6. Items(wire') = {} /\ Items(acks') = {}  BY <1>1, Empty
<1>7. PsTypes'  BY <1>1, <1>4, <1>5 DEF AckInv, PsTypes
<1>8. Opened'  BY <1>1, <1>4 DEF AckInv, Opened
<1>. QED  BY <1>1, <1>2, <1>4, <1>6, <1>7, <1>8 DEF AckInv

(* The server takes an ack.                                                *)
LEMMA AckArrivesKeeps == ASSUME AckInv, AckArrives PROVE AckInv'
<1>. DEFINE a == Head(acks)
            final == {a.seq} \cup {s \in consumer.pending : psUse.policy = "all" /\ s <= a.seq}
            done == [consumer EXCEPT !.pending = @ \ final, !.acked = @ \cup final]
            w == consumer.waiting + 1
            p == consumer.pending \ final
            q == consumer.acked \cup final
<1>0. /\ consumer \in Consumers /\ acks \in Seq(AckFrames) /\ acks # <<>> /\ given \in Doing
      /\ consumer.pending \subseteq 1 .. (consumer.next - 1) /\ consumer.acked \subseteq given.processed
  BY DEF AckInv, PsTypes, AckArrives
<1>1. /\ acks' = Tail(acks) /\ UNCHANGED <<psUse, call, typed, current, given>>
      /\ wire' = IF a.kind = "ackAck" THEN Append(wire, [a EXCEPT !.kind = "reply"]) ELSE wire
      /\ consumer' = CASE a.kind \in {"ack", "ackAck"} -> done
                       [] a.kind = "next" -> [done EXCEPT !.waiting = @ + 1]
                       [] a.kind = "term" -> [consumer EXCEPT !.pending = @ \ {a.seq}]
                       [] a.kind = "pull" -> [consumer EXCEPT !.waiting = @ + 1]
                       [] a.kind = "fc" -> [consumer EXCEPT !.stalled = FALSE]
                       [] OTHER -> consumer
  BY DEF AckArrives
<1>2. a \in AckFrames /\ acks' \in Seq(AckFrames) /\ a \in Items(acks) /\ Items(acks') \subseteq Items(acks)
  BY <1>0, <1>1, Takes
<1>3. typed.state # "none"  BY <1>0 DEF AckInv, Opened
<1>4. a.seq \in Nat  BY <1>2 DEF AckFrames
<1>5. Affirms(a) => final \subseteq given.processed
  <2>. HAVE Affirms(a)
  <2>1. Done(a.seq)  BY <1>2 DEF AckInv
  <2>2. \A s \in consumer.pending : s <= a.seq => s \in 1 .. a.seq
    <3>1. consumer.next \in Nat  BY <1>0 DEF Consumers
    <3>. QED  BY <1>0, <1>4, <3>1
  <2>. QED  BY <2>1, <2>2 DEF Done
<1>6. w \in Int /\ final \in SUBSET Nat /\ a.seq \in final
  BY <1>0, <1>4 DEF Consumers
<1>17. done = [consumer EXCEPT !.pending = p, !.acked = q]  OBVIOUS
<1>18. p \in SUBSET Nat /\ q \in SUBSET Nat /\ p \subseteq consumer.pending  BY <1>0, <1>6 DEF Consumers
<1>19. done \in Consumers /\ done.next = consumer.next /\ done.pending = p /\ done.acked = q
       /\ done.waiting = consumer.waiting
  <2>. HIDE DEF p, q, done
  <2>. QED  BY <1>0, <1>17, <1>18 DEF Consumers
<1>7. a.kind = "next" => consumer' = [done EXCEPT !.waiting = w]
  <2>. HIDE DEF done, final
  <2>. QED  BY <1>1, <1>19
<1>8. a.kind = "pull" => consumer' = [consumer EXCEPT !.waiting = w]  BY <1>0, <1>1 DEF Consumers
<1>9. a.kind \in {"ack", "ackAck"} => consumer' = done  BY <1>1
<1>10. a.kind = "term" => consumer' = [consumer EXCEPT !.pending = @ \ {a.seq}]  BY <1>1
<1>11. a.kind = "fc" => consumer' = [consumer EXCEPT !.stalled = FALSE]  BY <1>1
<1>12. a.kind \notin {"ack", "ackAck", "next", "term", "pull", "fc"} => consumer' = consumer  BY <1>1
<1>. HIDE DEF w
<1>13. /\ consumer' \in Consumers /\ consumer'.next = consumer.next /\ consumer'.pending \subseteq consumer.pending
       /\ consumer'.acked = consumer.acked \/ (Affirms(a) /\ consumer'.acked = consumer.acked \cup final)
       /\ a.kind = "ackAck" => consumer'.acked = consumer.acked \cup final
  <2>. HIDE DEF final
  <2>6. p \subseteq consumer.pending /\ q = consumer.acked \cup final  BY <1>18
  <2>. HIDE DEF done, p, q, a
  <2>1. CASE a.kind \in {"ack", "ackAck"}  BY <1>9, <1>19, <2>1, <2>6 DEF Affirms
  <2>2. CASE a.kind = "next"
    <3>1. consumer' = [done EXCEPT !.waiting = w]  BY <1>7, <2>2
    <3>2. /\ consumer' \in Consumers /\ consumer'.next = done.next /\ consumer'.pending = done.pending
          /\ consumer'.acked = done.acked
      BY <1>6, <1>19, <3>1, Waits
    <3>. QED  BY <1>19, <2>2, <2>6, <3>2 DEF Affirms
  <2>3. CASE a.kind = "term"
    <3>. DEFINE m == consumer.pending \ {a.seq}
    <3>1. m \in SUBSET Nat /\ m \subseteq consumer.pending  BY <1>0 DEF Consumers
    <3>2. consumer' = [consumer EXCEPT !.pending = m]  BY <1>10, <2>3
    <3>. HIDE DEF m, a
    <3>3. /\ consumer' \in Consumers /\ consumer'.next = consumer.next /\ consumer'.pending = m
          /\ consumer'.acked = consumer.acked
      BY <1>0, <3>1, <3>2 DEF Consumers
    <3>. QED  BY <2>3, <3>1, <3>3
  <2>4. CASE a.kind = "pull"  BY <1>0, <1>6, <1>8, <2>4, Waits
  <2>5. CASE a.kind = "fc"  BY <1>0, <1>11, <2>5, Stalls
  <2>. QED  BY <1>0, <1>12, <2>1, <2>2, <2>3, <2>4, <2>5
<1>14. consumer.acked \subseteq consumer'.acked /\ consumer'.acked \subseteq given.processed
  BY <1>0, <1>5, <1>13
<1>. HIDE DEF final, done
<1>15. CASE a.kind # "ackAck"
  <2>1. wire' = wire  BY <1>1, <1>15
  <2>. HIDE DEF a
  <2>. QED  BY <1>1, <1>2, <1>3, <1>13, <1>14, <2>1, Acknowledges
<1>16. CASE a.kind = "ackAck"
  <2>. DEFINE f == [a EXCEPT !.kind = "reply"]
  <2>1. f \in Frames /\ f.kind = "reply" /\ f.seq = a.seq  BY <1>2 DEF AckFrames, Frames, FrameKinds
  <2>2. wire' = Append(wire, f)  BY <1>1, <1>16
  <2>3. f.seq \in consumer'.acked  BY <1>6, <1>13, <1>16, <2>1
  <2>4. /\ consumer'.pending \subseteq 1 .. (consumer'.next - 1) /\ consumer'.next >= consumer.next
    BY <1>0, <1>13 DEF Consumers
  <2>. HIDE DEF f, a
  <2>. QED  BY <1>1, <1>2, <1>3, <1>13, <1>14, <2>1, <2>2, <2>3, <2>4, Arrives
<1>. QED  BY <1>15, <1>16

(* What is acknowledged stays true, and a new ack has to be.               *)
LEMMA Affirming ==
    ASSUME AckInv, psUse' = psUse, given.processed \subseteq given'.processed,
           \/ acks' = acks
           \/ \E a \in AckFrames : acks' = Append(acks, a) /\ (Affirms(a) => Done(a.seq)')
    PROVE  acks' \in Seq(AckFrames) /\ \A a \in Items(acks') : Affirms(a) => Done(a.seq)'
<1>1. \A s : Done(s) => Done(s)'  BY DEF Done
<1>2. acks \in Seq(AckFrames) /\ \A a \in Items(acks) : Affirms(a) => Done(a.seq)'
  BY <1>1 DEF AckInv, PsTypes
<1>3. CASE acks' = acks  BY <1>2, <1>3
<1>4. ASSUME NEW b \in AckFrames, acks' = Append(acks, b), Affirms(b) => Done(b.seq)'
      PROVE  acks' \in Seq(AckFrames) /\ \A a \in Items(acks') : Affirms(a) => Done(a.seq)'
  <2>1. acks' \in Seq(AckFrames) /\ Items(acks') = Items(acks) \cup {b}  BY <1>2, <1>4, Appends
  <2>. QED  BY <1>2, <1>4, <2>1
<1>. QED  BY <1>3, <1>4

(* What is published for a message, and for a flow control.                *)
LEMMA AutoAcks ==
    ASSUME NEW q \in Seq(AckFrames), NEW s \in Nat
    PROVE  /\ q \o autoAck(s) = q \/ q \o autoAck(s) = Append(q, [kind |-> "ack", seq |-> s])
           /\ [kind |-> "ack", seq |-> s] \in AckFrames /\ Control("fc") \in AckFrames /\ Control("pull") \in AckFrames
           /\ q \o <<>> = q /\ q \o <<Control("fc")>> = Append(q, Control("fc"))
<1>1. q \o <<>> = q  OBVIOUS
<1>2. \A x : q \o <<x>> = Append(q, x)  OBVIOUS
<1>3. autoAck(s) = <<>> \/ autoAck(s) = <<[kind |-> "ack", seq |-> s]>>  BY DEF autoAck
<1>. QED  BY <1>1, <1>2, <1>3 DEF AckFrames, AckKinds, Control

(* The user is done with the message it has, or acknowledges it.           *)
LEMMA Reading ==
    ASSUME AckInv, current # Nobody, UNCHANGED <<psUse, call, typed, consumer, wire>>,
           given' \in Doing, given'.confirmed = given.confirmed,
           \/ current' = Nobody /\ current.seq \in given'.processed
           \/ current' \in [seq : Nat, didAck : BOOLEAN] /\ current'.seq = current.seq,
           given'.processed \in {given.processed, given.processed \cup {current.seq}},
           \/ acks' = acks
           \/ \E a \in AckFrames : /\ acks' = Append(acks, a)
                                   /\ Affirms(a) => a.seq = current.seq /\ current.seq \in given'.processed
    PROVE  AckInv'
<1>0. /\ current.seq \in Nat /\ Nobody \in [seq : Nat, didAck : BOOLEAN] /\ Nobody.seq = 0 /\ Opened
      /\ typed.state # "none" /\ given.processed \subseteq given'.processed /\ given \in Doing
  BY DEF AckInv, PsTypes, Opened, Nobody
<1>1. ASSUME NEW c, c = current.seq, c \in given'.processed
      PROVE  Done(c)'
  <2>1. SUFFICES ASSUME psUse.policy = "all" PROVE 1 .. c \subseteq given'.processed
    BY <1>1 DEF Done
  <2>2. 1 .. (c - 1) \subseteq given.processed  BY <1>1, <2>1 DEF AckInv, Ordered
  <2>3. 1 .. c \subseteq 1 .. (c - 1) \cup {c}  BY <1>0, <1>1
  <2>. QED  BY <1>0, <1>1, <2>2, <2>3
<1>2. \/ acks' = acks
      \/ \E a \in AckFrames : acks' = Append(acks, a) /\ (Affirms(a) => Done(a.seq)')
  BY <1>1
<1>3. acks' \in Seq(AckFrames) /\ \A a \in Items(acks') : Affirms(a) => Done(a.seq)'
  BY <1>0, <1>2, Affirming
<1>4. PsTypes'  BY <1>0, <1>3 DEF AckInv, PsTypes
<1>5. Opened'  BY <1>0 DEF Opened
<1>6. psUse.policy = "all" => Ordered'
  <2>. HAVE psUse.policy = "all"
  <2>1. Ordered  BY DEF AckInv
  <2>2. Had \subseteq Had'  BY <1>0 DEF Had
  <2>3. InHand \subseteq InHand'  BY <2>2 DEF InHand
  <2>4. InOrder(typed.yields, Had')  BY <2>1, <2>2, Wider DEF Ordered
  <2>5. typed.state # "closed" => InOrder(wire, InHand') /\ 1 .. (consumer.next - 1) \subseteq InHand' \cup Seqs(wire)
    BY <2>1, <2>3, Wider DEF Ordered
  <2>6. 1 .. (current'.seq - 1) \subseteq given'.processed
    <3>1. 1 .. (0 - 1) = {}  OBVIOUS
    <3>. QED  BY <1>0, <2>1, <3>1 DEF Ordered
  <2>. QED  BY <2>4, <2>5, <2>6 DEF Ordered
<1>7. consumer'.acked \subseteq given'.processed /\ given'.confirmed \subseteq consumer'.acked
      /\ consumer'.pending \subseteq 1 .. (consumer'.next - 1)
  BY <1>0 DEF AckInv
<1>8. \A f \in Items(wire') : f.kind = "reply" => f.seq \in consumer'.acked  BY DEF AckInv
<1>. QED  BY <1>3, <1>4, <1>5, <1>6, <1>7, <1>8 DEF AckInv

(* The user is done with a message.                                        *)
LEMMA ProcessedKeeps == ASSUME AckInv, Processed PROVE AckInv'
<1>. DEFINE P == given.processed \cup {current.seq}
            b == [kind |-> "ack", seq |-> current.seq]
<1>0. acks \in Seq(AckFrames) /\ current.seq \in Nat /\ given \in Doing  BY DEF AckInv, PsTypes
<1>1. /\ current # Nobody /\ current' = Nobody /\ UNCHANGED <<psUse, call, typed, consumer, wire>>
      /\ given' = [given EXCEPT !.processed = P]
      /\ acks' = acks \o (IF current.didAck THEN <<>> ELSE autoAck(current.seq))
  BY <1>0 DEF Processed, Doing
<1>2. given' \in Doing /\ given'.processed = P /\ given'.confirmed = given.confirmed
  <2>1. P \in SUBSET Nat  BY <1>0 DEF Doing
  <2>. HIDE DEF P
  <2>. QED  BY <1>0, <1>1, <2>1 DEF Doing
<1>3. acks' = acks \/ (b \in AckFrames /\ acks' = Append(acks, b))  BY <1>0, <1>1, AutoAcks
<1>4. b.seq = current.seq /\ current.seq \in P  OBVIOUS
<1>. HIDE DEF b, P
<1>5. \/ acks' = acks
      \/ \E a \in AckFrames : /\ acks' = Append(acks, a)
                              /\ Affirms(a) => a.seq = current.seq /\ current.seq \in given'.processed
  BY <1>2, <1>3, <1>4
<1>6. current.seq \in given'.processed /\ given'.processed \in {given.processed, given.processed \cup {current.seq}}
  BY <1>2, <1>4 DEF P
<1>. QED  BY <1>1, <1>2, <1>5, <1>6, Reading

(* The user acknowledges the message it has.                               *)
LEMMA DoAckKeeps == ASSUME AckInv, NEW k \in Calls, doAck(k) PROVE AckInv'
<1>0. acks \in Seq(AckFrames) /\ current \in [seq : Nat, didAck : BOOLEAN] /\ given \in Doing /\ current.seq \in Nat
  BY DEF AckInv, PsTypes
<1>1. current # Nobody /\ UNCHANGED <<psUse, call, typed, consumer, wire>>  BY DEF doAck
<1>2. CASE UNCHANGED <<current, given, acks>>  BY <1>0, <1>1, <1>2, Reading
<1>3. CASE ~UNCHANGED <<current, given, acks>>
  <2>. DEFINE d == current.didAck \/ isFinal(k)
              P == IF k \in {"ack", "ackAck", "next"} THEN given.processed \cup {current.seq} ELSE given.processed
              w == IF k = "ackAck" THEN current.seq ELSE given.wait
              a == [kind |-> k, seq |-> current.seq]
  <2>1. /\ current' = [current EXCEPT !.didAck = @ \/ isFinal(k)]
        /\ acks' = Append(acks, [kind |-> k, seq |-> current.seq])
        /\ given' = [given EXCEPT
             !.processed = IF k \in {"ack", "ackAck", "next"} THEN @ \cup {current.seq} ELSE @,
             !.wait = IF k = "ackAck" THEN current.seq ELSE @]
    BY <1>3 DEF doAck
  <2>2. given' = [given EXCEPT !.processed = P, !.wait = w]  BY <1>0, <2>1 DEF Doing
  <2>3. current' = [current EXCEPT !.didAck = d]  BY <1>0, <2>1
  <2>4. d \in BOOLEAN  BY DEF isFinal
  <2>5. P \in SUBSET Nat /\ w \in Nat  BY <1>0 DEF Doing
  <2>6. a \in AckFrames /\ a.seq = current.seq /\ acks' = Append(acks, a) /\ (Affirms(a) => current.seq \in P)
    BY <1>0, <2>1 DEF AckFrames, AckKinds, Calls, Affirms
  <2>7. P \in {given.processed, given.processed \cup {current.seq}}  OBVIOUS
  <2>. HIDE DEF d, P, w, a
  <2>8. given' \in Doing /\ given'.processed = P /\ given'.confirmed = given.confirmed
    BY <1>0, <2>2, <2>5 DEF Doing
  <2>9. current' \in [seq : Nat, didAck : BOOLEAN] /\ current'.seq = current.seq  BY <1>0, <2>3, <2>4
  <2>11. \/ acks' = acks
         \/ \E b \in AckFrames : /\ acks' = Append(acks, b)
                                 /\ Affirms(b) => b.seq = current.seq /\ current.seq \in given'.processed
    BY <2>6, <2>8
  <2>12. given'.processed \in {given.processed, given.processed \cup {current.seq}}  BY <2>7, <2>8
  <2>. QED  BY <1>1, <2>8, <2>9, <2>11, <2>12, Reading
<1>. QED  BY <1>2, <1>3

(* The subscription gives the user the next message.                       *)
LEMMA TakeKeeps == ASSUME AckInv, Take PROVE AckInv'
<1>. DEFINE f == Head(typed.yields)
            r == Tail(typed.yields)
            c == IF f.kind = "fc" THEN Nobody ELSE [seq |-> f.seq, didAck |-> FALSE]
<1>0. /\ typed \in TypedSub /\ typed.yields \in Seq(Queued) /\ typed.yields # <<>> /\ current = Nobody
      /\ acks \in Seq(AckFrames) /\ Opened /\ typed.state # "none" /\ psUse.iterator
  BY DEF AckInv, PsTypes, TypedSub, Take, Opened
<1>1. f \in Queued /\ r \in Seq(Queued) /\ Seqs(typed.yields) = OfMsg(f) \cup Seqs(r)  BY <1>0, Takes
<1>2. /\ UNCHANGED <<psUse, call, given, consumer, wire>> /\ current' = c
      /\ typed' = [typed EXCEPT !.yields = r] /\ acks' = acks \o protocolFilterFn(f)
  BY <1>0 DEF Take
<1>3. f.kind \in {"msg", "fc"} /\ f.seq \in Nat  BY <1>1 DEF Queued
<1>4. /\ c \in [seq : Nat, didAck : BOOLEAN]
      /\ f.kind = "fc" => c = Nobody /\ c.seq = 0 /\ OfMsg(f) = {}
      /\ f.kind = "msg" => c.seq = f.seq /\ OfMsg(f) = {f.seq}
  BY <1>3 DEF Nobody, OfMsg
<1>5. acks' = acks \/ (Control("fc") \in AckFrames /\ acks' = Append(acks, Control("fc")))
  BY <1>0, <1>2, AutoAcks DEF protocolFilterFn
<1>. HIDE DEF f, r, c
<1>6. typed' \in TypedSub /\ typed'.yields = r /\ typed'.state = typed.state /\ typed'.done = typed.done
  BY <1>0, <1>1, <1>2 DEF TypedSub
<1>7. acks' \in Seq(AckFrames) /\ \A a \in Items(acks') : Affirms(a) => Done(a.seq)'
  <2>1. ~Affirms(Control("fc"))  BY DEF Affirms, Control
  <2>. QED  BY <1>2, <1>5, <2>1, Affirming
<1>8. PsTypes'  BY <1>2, <1>4, <1>6, <1>7 DEF AckInv, PsTypes
<1>9. Opened'  BY <1>0, <1>2, <1>6 DEF Opened
<1>10. psUse.policy = "all" => Ordered'
  <2>. HAVE psUse.policy = "all"
  <2>1. Ordered  BY DEF AckInv
  <2>2. /\ InOrder(r, Had \cup OfMsg(f))
        /\ f.kind = "msg" => 1 .. (f.seq - 1) \subseteq Had
    BY <1>0, <2>1, TakesInOrder DEF Ordered, f, r
  <2>3. Had = given.processed \cup {0}  BY <1>0 DEF Had, Nobody
  <2>4. Had' = Had \cup OfMsg(f)  BY <1>2, <1>3, <1>4, <2>3 DEF Had
  <2>5. InHand' = InHand
    <3>1. InHand' = Had' \cup Seqs(r)  BY <1>6 DEF InHand
    <3>. QED  BY <1>1, <2>4, <3>1 DEF InHand
  <2>6. 1 .. (current'.seq - 1) \subseteq given'.processed
    <3>1. 1 .. (0 - 1) = {} /\ \A n \in Nat : 0 \notin 1 .. n - 1  OBVIOUS
    <3>. QED  BY <1>2, <1>3, <1>4, <2>2, <2>3, <3>1
  <2>7. InOrder(typed'.yields, Had')  BY <1>6, <2>2, <2>4
  <2>8. typed'.state # "closed" =>
          InOrder(wire', InHand') /\ 1 .. (consumer'.next - 1) \subseteq InHand' \cup Seqs(wire')
    BY <1>2, <1>6, <2>1, <2>5 DEF Ordered
  <2>. QED  BY <2>6, <2>7, <2>8 DEF Ordered
<1>. QED  BY <1>2, <1>7, <1>8, <1>9, <1>10 DEF AckInv

(* A pull is sent.                                                         *)
LEMMA PullKeeps == ASSUME AckInv, pull PROVE AckInv'
<1>1. /\ typed.state = "open" /\ acks' = Append(acks, Control("pull"))
      /\ UNCHANGED <<psUse, call, typed, current, given, consumer, wire>>
  BY DEF pull
<1>2. Control("pull") \in AckFrames /\ ~Affirms(Control("pull"))  BY DEF AckFrames, AckKinds, Affirms, Control
<1>3. acks' \in Seq(AckFrames) /\ \A a \in Items(acks') : Affirms(a) => Done(a.seq)'
  BY <1>1, <1>2, Affirming
<1>4. PsTypes'  BY <1>1, <1>3 DEF AckInv, PsTypes
<1>5. Opened'  BY <1>1 DEF AckInv, Opened
<1>6. psUse.policy = "all" => Ordered'  BY <1>1 DEF AckInv, Ordered, InHand, Had
<1>. QED  BY <1>1, <1>3, <1>4, <1>5, <1>6 DEF AckInv

(* A frame that is taken from the wire is in hand, or is no message, or    *)
(* the subscription is closed.                                             *)
LEMMA Received ==
    ASSUME AckInv, wire # <<>>, UNCHANGED <<psUse, call, current>>, wire' = Tail(wire),
           typed' \in TypedSub, given' \in Doing, consumer' \in Consumers,
           given.processed \subseteq given'.processed,
           consumer'.next = consumer.next, consumer'.pending = consumer.pending,
           consumer'.acked = consumer.acked, given'.confirmed \subseteq consumer.acked,
           acks' \in Seq(AckFrames), \A a \in Items(acks') : Affirms(a) => Done(a.seq)',
           typed'.state = typed.state \/ typed'.state = "closed", typed'.done => typed'.state = "closed",
           ~psUse.iterator => typed'.yields = typed.yields,
           psUse.policy = "all" => InOrder(typed'.yields, Had'),
           typed'.state # "closed" => InHand \cup OfMsg(Head(wire)) \subseteq InHand'
    PROVE  AckInv'
<1>0. /\ wire \in Seq(Frames) /\ Opened /\ typed.state # "none" /\ consumer.acked \subseteq given.processed
      /\ consumer.pending \subseteq 1 .. (consumer.next - 1)
  BY DEF AckInv, PsTypes, Opened
<1>1. /\ wire' \in Seq(Frames) /\ Items(wire') \subseteq Items(wire)
      /\ Seqs(wire) = OfMsg(Head(wire)) \cup Seqs(wire')
  BY <1>0, Takes
<1>2. PsTypes'  BY <1>1 DEF AckInv, PsTypes
<1>3. Opened'  BY <1>0 DEF Opened
<1>4. \A f \in Items(wire') : f.kind = "reply" => f.seq \in consumer'.acked  BY <1>1 DEF AckInv
<1>5. psUse.policy = "all" => Ordered'
  <2>. HAVE psUse.policy = "all"
  <2>1. Ordered  BY DEF AckInv
  <2>2. 1 .. (current'.seq - 1) \subseteq given'.processed  BY <2>1 DEF Ordered
  <2>3. ASSUME typed'.state # "closed"
        PROVE  InOrder(wire', InHand') /\ 1 .. (consumer'.next - 1) \subseteq InHand' \cup Seqs(wire')
    <3>1. InOrder(wire, InHand) /\ 1 .. (consumer.next - 1) \subseteq InHand \cup Seqs(wire)
      BY <2>1, <2>3 DEF Ordered
    <3>2. InOrder(wire', InHand \cup OfMsg(Head(wire)))  BY <1>0, <3>1, TakesInOrder
    <3>3. InHand \cup OfMsg(Head(wire)) \subseteq InHand'  BY <2>3
    <3>4. InOrder(wire', InHand')  BY <3>2, <3>3, Wider
    <3>. QED  BY <1>1, <3>1, <3>3, <3>4
  <2>. QED  BY <2>2, <2>3 DEF Ordered
<1>. QED  BY <1>0, <1>2, <1>3, <1>4, <1>5 DEF AckInv

(* The subscription gets a frame, for an iterator or for a callback.       *)
LEMMA ReceiveKeeps == ASSUME AckInv, Receive PROVE AckInv'
<1>. DEFINE f == Head(wire)
<1>0. /\ wire \in Seq(Frames) /\ wire # <<>> /\ wire' = Tail(wire) /\ UNCHANGED <<psUse, call, current>>
      /\ typed \in TypedSub /\ typed.yields \in Seq(Queued) /\ given \in Doing /\ consumer \in Consumers
      /\ acks \in Seq(AckFrames) /\ typed.state # "none" /\ Opened
      /\ consumer.acked \subseteq given.processed /\ given.confirmed \subseteq consumer.acked
  BY DEF AckInv, PsTypes, Opened, TypedSub, Receive
<1>1. f \in Frames /\ f \in Items(wire)  BY <1>0, Takes
<1>2. typed.done => typed.state = "closed"  BY <1>0 DEF Opened
<1>3. psUse.policy = "all" => InOrder(typed.yields, Had)  BY DEF AckInv, Ordered
<1>4. psUse.policy = "all" /\ typed.state # "closed" /\ f.kind = "msg" => 1 .. (f.seq - 1) \subseteq InHand
  BY <1>0, TakesInOrder DEF AckInv, Ordered
<1>5. ASSUME UNCHANGED acks
      PROVE  given.processed \subseteq given'.processed =>
               acks' \in Seq(AckFrames) /\ \A a \in Items(acks') : Affirms(a) => Done(a.seq)'
  BY <1>0, <1>5, Affirming
<1>6. f.kind # "msg" => OfMsg(f) = {}  BY DEF OfMsg
<1>7. CASE f.kind = "reply"
  <2>. DEFINE C == given.confirmed \cup {f.seq}
  <2>1. /\ UNCHANGED <<typed, consumer, acks>>
        /\ given' \in {given, [given EXCEPT !.wait = 0, !.confirmed = @ \cup {f.seq}]}
    BY <1>7 DEF Receive
  <2>2. f.seq \in consumer.acked  BY <1>1, <1>7 DEF AckInv
  <2>3. f.seq \in Nat /\ C \in SUBSET Nat /\ C \subseteq consumer.acked
    BY <1>0, <1>1, <2>2 DEF Frames, Doing
  <2>4. given' = given \/ given' = [given EXCEPT !.wait = 0, !.confirmed = C]  BY <1>0, <2>1 DEF Doing
  <2>. HIDE DEF C
  <2>5. given' \in Doing /\ given'.processed = given.processed /\ given'.confirmed \subseteq consumer.acked
    <3>1. CASE given' = given  BY <1>0, <3>1
    <3>2. CASE given' = [given EXCEPT !.wait = 0, !.confirmed = C]  BY <1>0, <2>3, <3>2 DEF Doing
    <3>. QED  BY <2>4, <3>1, <3>2
  <2>6. Had' = Had /\ InHand' = InHand  BY <1>0, <2>1, <2>5 DEF Had, InHand
  <2>7. acks' \in Seq(AckFrames) /\ \A a \in Items(acks') : Affirms(a) => Done(a.seq)'  BY <1>5, <2>1, <2>5
  <2>8. InHand \cup OfMsg(f) \subseteq InHand'  BY <1>6, <1>7, <2>6
  <2>. QED  BY <1>0, <1>2, <1>3, <2>1, <2>5, <2>6, <2>7, <2>8, Received
<1>8. CASE f.kind # "reply" /\ typed.state = "closed"
  <2>1. UNCHANGED <<typed, consumer, given, acks>>  BY <1>8 DEF Receive
  <2>2. Had' = Had  BY <1>0, <2>1 DEF Had
  <2>3. acks' \in Seq(AckFrames) /\ \A a \in Items(acks') : Affirms(a) => Done(a.seq)'  BY <1>5, <2>1
  <2>. QED  BY <1>0, <1>2, <1>3, <1>8, <2>1, <2>2, <2>3, Received
<1>9. CASE f.kind # "reply" /\ typed.state # "closed" /\ psUse.iterator
  <2>0. iterCallback(f)  BY <1>9 DEF Receive
  <2>1. UNCHANGED <<given, acks>>  BY <2>0 DEF iterCallback
  <2>2. Had' = Had  BY <1>0, <2>1 DEF Had
  <2>3. acks' \in Seq(AckFrames) /\ \A a \in Items(acks') : Affirms(a) => Done(a.seq)'  BY <1>5, <2>1
  <2>4. CASE f.kind = "terminal"
    <3>1. /\ typed' = [[typed EXCEPT !.done = TRUE] EXCEPT !.state = "closed"]
          /\ consumer' = [consumer EXCEPT !.interest = FALSE]
      BY <2>0, <2>4, Zenon DEF iterCallback, stop
    <3>2. typed' \in TypedSub /\ typed'.state = "closed" /\ typed'.yields = typed.yields
      BY <1>0, <3>1, TypedSets DEF States
    <3>3. /\ consumer' \in Consumers /\ consumer'.next = consumer.next
          /\ consumer'.pending = consumer.pending /\ consumer'.acked = consumer.acked
      BY <1>0, <3>1, Interested
    <3>4. psUse.policy = "all" => InOrder(typed'.yields, Had')  BY <1>3, <2>2, <3>2
    <3>. QED  BY <1>0, <2>1, <2>3, <3>2, <3>3, <3>4, Received
  <2>5. CASE f.kind = "status"
    <3>1. typed' = typed /\ consumer' = consumer  BY <2>0, <2>5 DEF iterCallback
    <3>2. InHand \cup OfMsg(f) \subseteq InHand'  BY <1>6, <2>2, <2>5, <3>1 DEF InHand
    <3>. QED  BY <1>0, <1>2, <1>3, <2>1, <2>2, <2>3, <3>1, <3>2, Received
  <2>6. CASE f.kind \in {"msg", "fc"}
    <3>. DEFINE q == Append(typed.yields, f)
    <3>0. ~typed.done  BY <1>2, <1>9
    <3>1. typed' = [typed EXCEPT !.yields = q] /\ consumer' = consumer
      BY <1>0, <2>0, <2>6, <3>0 DEF iterCallback, TypedSub
    <3>2. f \in Queued  BY <1>1, <2>6 DEF Frames, Queued
    <3>3. q \in Seq(Queued) /\ Seqs(q) = Seqs(typed.yields) \cup OfMsg(f)  BY <1>0, <3>2, Appends
    <3>4. psUse.policy = "all" => InOrder(q, Had)
      <4>. HAVE psUse.policy = "all"
      <4>1. f.kind = "msg" => 1 .. (f.seq - 1) \subseteq Had \cup Seqs(typed.yields)  BY <1>4, <1>9 DEF InHand
      <4>. QED  BY <1>0, <1>3, <3>2, <4>1, AppendsInOrder
    <3>. HIDE DEF q, f
    <3>5. typed' \in TypedSub /\ typed'.yields = q /\ typed'.state = typed.state /\ typed'.done = typed.done
      BY <1>0, <3>1, <3>3 DEF TypedSub
    <3>6. InHand \cup OfMsg(f) \subseteq InHand'  BY <2>2, <3>3, <3>5 DEF InHand
    <3>. QED  BY <1>0, <1>2, <1>9, <2>1, <2>2, <2>3, <3>1, <3>4, <3>5, <3>6, Received DEF f
  <2>. QED  BY <1>1, <1>9, <2>4, <2>5, <2>6 DEF Frames, FrameKinds
<1>10. CASE f.kind # "reply" /\ typed.state # "closed" /\ ~psUse.iterator
  <2>. DEFINE a == [kind |-> "ack", seq |-> f.seq]
              P == IF f.kind = "msg" THEN given.processed \cup {f.seq} ELSE given.processed
  <2>0. userCallback(f)  BY <1>10 DEF Receive
  <2>1. /\ typed' = typed /\ consumer' = consumer
        /\ given' = IF f.kind = "msg" THEN [given EXCEPT !.processed = @ \cup {f.seq}] ELSE given
    BY <2>0 DEF userCallback
  <2>2. f.seq \in Nat  BY <1>1 DEF Frames
  <2>3. given' = [given EXCEPT !.processed = P]  BY <1>0, <2>1 DEF Doing
  <2>4. P \in SUBSET Nat /\ given.processed \subseteq P /\ OfMsg(f) \subseteq P  BY <1>0, <2>2 DEF Doing, OfMsg
  <2>5. \/ acks' = acks
        \/ f.kind = "msg" /\ a \in AckFrames /\ acks' = Append(acks, a)
        \/ Control("fc") \in AckFrames /\ acks' = Append(acks, Control("fc"))
    BY <1>0, <2>0, <2>2, AutoAcks DEF userCallback, protocolFilterFn
  <2>6. typed.yields = <<>> /\ Had = given.processed \cup {0} /\ InHand = Had
    BY <1>0, <1>10, Empty DEF Opened, Nobody, Had, InHand
  <2>7. f.kind = "msg" => f.seq \in P  OBVIOUS
  <2>. HIDE DEF P, a
  <2>8. given' \in Doing /\ given'.processed = P /\ given'.confirmed = given.confirmed  BY <1>0, <2>3, <2>4 DEF Doing
  <2>9. ASSUME f.kind = "msg", NEW s, s = f.seq PROVE Done(s)'
    <3>1. SUFFICES ASSUME psUse.policy = "all" PROVE 1 .. s \subseteq P  BY <1>0, <2>7, <2>8, <2>9 DEF Done
    <3>2. 1 .. (s - 1) \subseteq given.processed \cup {0}  BY <1>4, <1>10, <2>6, <2>9, <3>1
    <3>3. 1 .. s \subseteq 1 .. (s - 1) \cup {s} /\ 0 \notin 1 .. s  BY <2>2, <2>9
    <3>. QED  BY <2>4, <2>7, <2>9, <3>2, <3>3
  <2>10. \/ acks' = acks
         \/ \E b \in AckFrames : acks' = Append(acks, b) /\ (Affirms(b) => Done(b.seq)')
    <3>1. ASSUME f.kind = "msg", a \in AckFrames, acks' = Append(acks, a)
          PROVE  \E b \in AckFrames : acks' = Append(acks, b) /\ (Affirms(b) => Done(b.seq)')
      <4>1. \E b \in AckFrames : b = a  BY <3>1
      <4>2. PICK b \in AckFrames : b = a  BY <4>1
      <4>3. b.seq = f.seq  BY <4>2 DEF a
      <4>4. Done(b.seq)'  BY <2>9, <3>1, <4>3
      <4>. QED  BY <3>1, <4>2, <4>4
    <3>2. ~Affirms(Control("fc"))  BY DEF Affirms, Control
    <3>. QED  BY <2>5, <3>1, <3>2
  <2>11. acks' \in Seq(AckFrames) /\ \A b \in Items(acks') : Affirms(b) => Done(b.seq)'
    BY <1>0, <2>4, <2>8, <2>10, Affirming
  <2>12. psUse.policy = "all" => InOrder(typed'.yields, Had')  BY <2>1, <2>6, Empty
  <2>13. InHand \cup OfMsg(f) \subseteq InHand'  BY <1>0, <2>1, <2>4, <2>6, <2>8 DEF InHand, Had
  <2>. QED  BY <1>0, <1>2, <2>1, <2>4, <2>8, <2>11, <2>12, <2>13, Received
<1>. QED  BY <1>7, <1>8, <1>9, <1>10

(* Every step keeps the account of the acks.                               *)
LEMMA AckStep == ASSUME AckInv, [PsNext]_psVars PROVE AckInv'
<1>1. CASE UNCHANGED psVars
  <2>1. UNCHANGED <<psUse, call, typed, current, given, consumer, wire, acks>>  BY <1>1 DEF psVars
  <2>2. PsTypes'  BY <2>1 DEF AckInv, PsTypes
  <2>3. Opened'  BY <2>1 DEF AckInv, Opened
  <2>4. \A s : Done(s)' <=> Done(s)  BY <2>1 DEF Done
  <2>5. Ordered' <=> Ordered  BY <2>1 DEF Ordered, InHand, Had
  <2>. QED  BY <2>1, <2>2, <2>3, <2>4, <2>5 DEF AckInv
<1>2. CASE PsNext
  <2>1. CASE subscribe \/ findStream \/ processInfo \/ ServerCreates \/ Created  BY <2>1, Subscribing
  <2>2. CASE Deliver \/ FlowControl \/ (\E s \in 1..Stored : Redeliver(s))
               \/ (\E k \in {"status", "terminal"} : Status(k))
    BY <2>2, Delivering
  <2>3. CASE unsubscribe \/ Drained \/ destroy \/ Break \/ ackAckTimeout \/ heartbeatMissed  BY <2>3, Leaving
  <2>4. CASE \E k \in Calls : doAck(k)  BY <2>4, DoAckKeeps
  <2>. QED
    BY <1>2, <2>1, <2>2, <2>3, <2>4, LoseKeeps, AckArrivesKeeps, ReceiveKeeps, TakeKeeps, ProcessedKeeps, PullKeeps
    DEF PsNext
<1>. QED  BY <1>1, <1>2

(* What the server holds for acknowledged was processed by the user, for   *)
(* any stream and any use, with any losses and redeliveries: an ack is     *)
(* published when the user is done with the message, and with the policy   *)
(* "all", which needs a connection that loses nothing, no message overtakes*)
(* one that is not processed (typedsub.ts callback, queued_iterator.ts     *)
(* iterate(), jsmsg.ts).                                                   *)
THEOREM AcksAreTruthful == PsSpec => []AcksAreTrue
<1>1. AckInv => AcksAreTrue  BY DEF AckInv, AcksAreTrue
<1>. QED  BY AckInit, AckStep, <1>1, PTL DEF PsSpec
===============================================================================
