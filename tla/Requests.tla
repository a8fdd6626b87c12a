------------------------------- MODULE Requests -------------------------------
(***************************************************************************)
(* Request/reply: request() and requestMany() of NatsConnectionImpl        *)
(* (nats-base-client/nats.ts), the requests they make (request.ts) and the *)
(* shared subscription that dispatches the replies (muxsubscription.ts).   *)
(*                                                                         *)
(* A request is settled by a reply, by an error the server sends, by its   *)
(* timer, or by the end of the connection, in any order; replies may come  *)
(* late, repeatedly, or be lost with the connection. The server and the    *)
(* responders behind it are external.                                      *)
(***************************************************************************)
EXTENDS Integers, Sequences, FiniteSets

CONSTANTS
  One,          \* requests made by request()
  Many,         \* requests made by requestMany()
  NoMux,        \* requests made by request() with the noMux option
  Strategy,     \* the strategy of each requestMany()
  MaxMessages,  \* opts.maxMessages of each requestMany(), 0: not given
  Subject,      \* the subject each request is published to
  MaxFrames,    \* bound: frames the server sends
  MaxEpochs     \* bound: connections

Req == One \cup Many \cup NoMux
Muxed == One \cup Many

ASSUME RequestsAssumption ==
  /\ One \cap Many = {} /\ One \cap NoMux = {} /\ Many \cap NoMux = {}
  /\ IsFiniteSet(Req)
  /\ Strategy \in [Many -> {"timer", "count", "jitterTimer", "sentinelMsg"}]
  /\ MaxMessages \in [Many -> Nat]
  /\ MaxFrames \in Nat /\ MaxEpochs \in Nat

VARIABLES
  closed,  \* _closed
  draining, \* NatsConnectionImpl.draining
  epoch,   \* which connection this is
  mux,     \* Subscriptions.mux is set: the shared subscription exists
  muxSub,  \* the shared subscription is in Subscriptions.subs
  inbox,   \* muxSubscriptions.baseInbox, as a generation number
  count,   \* requests registered so far
  req,     \* each request, see Request
  s2c,     \* frames the server sent on this connection, not yet parsed
  frames   \* frames sent so far

vars == <<closed, draining, epoch, mux, muxSub, inbox, count, req, s2c, frames>>

conn == <<closed, draining, epoch, mux, muxSub, inbox>>

Request ==
  [st : {"idle", "pending", "reply", "error", "timeout", "ended"},
             \* the promise, or what the reader of the iterator has seen
   listed : BOOLEAN,  \* in MuxSubscription.reqs (noMux: in Subscriptions.subs)
   timer : BOOLEAN,   \* the timer is armed
   n : Nat,           \* order of registration
   inbox : Nat,       \* the inbox the reply goes to
   born : Nat,        \* the connection it was published on
   left : Int,        \* RequestMany.max
   items : Seq({"msg", "fail", "stop"}), \* queued on the iterator
   pushed : Nat,      \* history: messages queued on the iterator
   failed : BOOLEAN]  \* history: the request was cancelled with an error

FrameKind == {"reply", "empty", "noResponders", "pubError", "muxError"}
Frame == [kind : FrameKind, r : Req, inbox : Nat]

NewRequest ==
  [st |-> "idle", listed |-> FALSE, timer |-> FALSE, n |-> 0, inbox |-> 0,
   born |-> 0, left |-> -1, items |-> <<>>, pushed |-> 0, failed |-> FALSE]

(* The type invariant: requests and the frames about them. *)
TypeOK ==
  /\ closed \in BOOLEAN /\ draining \in BOOLEAN
  /\ mux \in BOOLEAN /\ muxSub \in BOOLEAN
  /\ epoch \in Nat /\ inbox \in Nat /\ count \in Nat /\ frames \in Nat
  /\ req \in [Req -> Request]
  /\ s2c \in Seq(Frame)

Init ==
  /\ closed = FALSE /\ draining = FALSE /\ epoch = 1
  /\ mux = FALSE /\ muxSub = FALSE /\ inbox = 0 /\ count = 0
  /\ req = [r \in Req |-> NewRequest]
  /\ s2c = <<>> /\ frames = 0

-----------------------------------------------------------------------------
(* What becomes of one request q.                                          *)

(* RequestMany.cancel(): an error is queued ahead of the end, which the    *)
(* done promise queues.                                                    *)
(* Faulty variants: the end is queued first; it is not queued. *)
cancelMany_EndFirst(q, err) ==
  [q EXCEPT !.listed = FALSE, !.timer = FALSE, !.failed = @ \/ err,
            !.items = @ \o (IF err THEN <<"stop", "fail">> ELSE <<"stop">>)]
cancelMany_Silent(q, err) ==
  [q EXCEPT !.listed = FALSE, !.timer = FALSE, !.failed = @ \/ err,
            !.items = @ \o (IF err THEN <<"fail">> ELSE <<>>)]
cancelMany(q, err) ==
  [q EXCEPT !.listed = FALSE, !.timer = FALSE, !.failed = @ \/ err,
            !.items = @ \o (IF err THEN <<"fail", "stop">> ELSE <<"stop">>)]

(* RequestOne.resolver() and cancel(): the first outcome is kept. *)
(* Faulty variant: the request stays registered. *)
settleOne_Registered(q, outcome) ==
  [q EXCEPT !.timer = FALSE, !.st = IF @ = "pending" THEN outcome ELSE @]
settleOne(q, outcome) ==
  [q EXCEPT !.listed = FALSE, !.timer = FALSE,
            !.st = IF @ = "pending" THEN outcome ELSE @]

(* RequestMany.resolver() without an error. *)
(* Faulty variant: the count ends below zero. *)
Complete_Below(r, q, kind) ==
  \/ Strategy[r] = "count" /\ q.left < 0
  \/ Strategy[r] = "sentinelMsg" /\ kind = "empty"
Complete(r, q, kind) ==
  \/ Strategy[r] = "count" /\ q.left = 0
  \/ Strategy[r] = "sentinelMsg" /\ kind = "empty"

messageMany(r, q, kind) ==
  LET got == [q EXCEPT !.items = Append(@, "msg"), !.pushed = @ + 1,
                       !.left = IF Strategy[r] = "count" THEN @ - 1 ELSE @]
  IN IF Complete(r, got, kind) THEN cancelMany(got, FALSE) ELSE got

(* resolver(err): an error of any origin. *)
failMuxed(r, q) ==
  IF r \in One THEN settleOne(q, "error") ELSE cancelMany(q, TRUE)

(* resolver(null, msg), after isRequestError() on the message. *)
replyMuxed(r, q, kind) ==
  IF kind = "noResponders" THEN failMuxed(r, q)
  ELSE IF r \in One THEN settleOne(q, "reply")
  ELSE messageMany(r, q, kind)

(* The subscription of a noMux request has max 1: it is gone after the     *)
(* first message or error, and its timer with it.                          *)
settleNoMux(q, outcome) ==
  [q EXCEPT !.listed = FALSE, !.timer = FALSE,
            !.st = IF @ = "pending" THEN outcome ELSE @]

-----------------------------------------------------------------------------
(* Calls of the application.                                               *)

(* initMux(), muxSubscriptions.add(), publish(); a publish that throws     *)
(* (the payload is too large) cancels the request at once, but leaves a    *)
(* noMux subscription to its timer. _check refuses requests on a closed or *)
(* draining connection.                                                    *)
Registered(r, g) ==
  [NewRequest EXCEPT !.st = "pending", !.listed = TRUE, !.timer = TRUE,
     !.n = count + 1, !.inbox = g, !.born = epoch,
     !.left = IF r \in Many /\ MaxMessages[r] > 0 THEN MaxMessages[r] ELSE -1]

request(r, published) ==
  LET g == IF mux THEN inbox ELSE inbox + 1
      q == Registered(r, g)
  IN
  /\ ~closed /\ ~draining /\ r \in Muxed /\ req[r].st = "idle"
  /\ mux' = TRUE /\ muxSub' = (muxSub \/ ~mux) /\ inbox' = g
  /\ count' = count + 1
  /\ req' = [req EXCEPT ![r] = IF published THEN q
                               ELSE failMuxed(r, [q EXCEPT !.born = 0])]
  /\ UNCHANGED <<closed, draining, epoch, s2c, frames>>

requestNoMux(r, published) ==
  /\ ~closed /\ ~draining /\ r \in NoMux /\ req[r].st = "idle"
  /\ count' = count + 1
  /\ req' = [req EXCEPT ![r] =
               [Registered(r, 0) EXCEPT !.born = IF published THEN epoch ELSE 0]]
  /\ UNCHANGED <<closed, draining, epoch, mux, muxSub, inbox, s2c, frames>>

(* The reader of requestMany() takes the next item off the iterator. An    *)
(* end makes iterClosed cancel the request once more.                      *)
next(r) ==
  LET q == req[r]
      rest == [q EXCEPT !.items = Tail(@)]
  IN
  /\ r \in Many /\ q.st = "pending" /\ q.items # <<>>
  /\ req' = [req EXCEPT ![r] =
       CASE Head(q.items) = "msg" -> rest
         [] Head(q.items) = "fail" ->
              [rest EXCEPT !.st = "error", !.listed = FALSE, !.timer = FALSE]
         [] Head(q.items) = "stop" ->
              [rest EXCEPT !.st = "ended", !.listed = FALSE, !.timer = FALSE]]
  /\ UNCHANGED <<conn, count, s2c, frames>>

(* The reader breaks out of the loop. *)
break(r) ==
  /\ r \in Many /\ req[r].st = "pending"
  /\ req' = [req EXCEPT ![r] =
               [@ EXCEPT !.st = "ended", !.listed = FALSE, !.timer = FALSE]]
  /\ UNCHANGED <<conn, count, s2c, frames>>

(* _close(): the requests of the mux fail; the subscriptions of the others *)
(* are closed, which cancels their timers.                                 *)
(* Faulty variant: only the timers are cancelled. *)
closeReq_TimersOnly(r, q) == [q EXCEPT !.timer = FALSE]
closeReq(r, q) ==
  IF ~q.listed THEN q
  ELSE IF r \in Muxed THEN failMuxed(r, q)
  ELSE [q EXCEPT !.timer = FALSE]

close ==
  /\ ~closed
  /\ closed' = TRUE
  /\ req' = [r \in Req |-> closeReq(r, req[r])]
  /\ s2c' = <<>>
  /\ UNCHANGED <<draining, epoch, mux, muxSub, inbox, count, frames>>

(* drain() on the connection: every subscription drains, which ends it     *)
(* without a word to the requests that wait on it; then close().           *)
drain ==
  /\ ~closed /\ ~draining
  /\ draining' = TRUE
  /\ UNCHANGED <<closed, epoch, mux, muxSub, inbox, count, req, s2c, frames>>

muxDrained ==
  /\ ~closed /\ draining /\ muxSub
  /\ muxSub' = FALSE
  /\ UNCHANGED <<closed, draining, epoch, mux, inbox, count, req, s2c, frames>>

subDrained(r) ==
  /\ ~closed /\ draining /\ r \in NoMux /\ req[r].listed
  /\ req' = [req EXCEPT ![r] = [@ EXCEPT !.listed = FALSE, !.timer = FALSE]]
  /\ UNCHANGED <<conn, count, s2c, frames>>

-----------------------------------------------------------------------------
(* Timers and frames.                                                      *)

(* The timer of a request: p.catch cancels a RequestOne, the timer of a    *)
(* RequestMany cancels it, the timeout of a noMux subscription reports     *)
(* Timeout to the callback, which unsubscribes.                            *)
timeout(r) ==
  /\ req[r].timer
  /\ req' = [req EXCEPT ![r] =
       CASE r \in One -> settleOne(@, "timeout")
         [] r \in Many -> cancelMany(@, FALSE)
         [] r \in NoMux -> settleNoMux(@, "timeout")]
  /\ UNCHANGED <<conn, count, s2c, frames>>

(* The oldest registered request to the same subject. *)
FirstTo(R, subject) ==
  {r \in R : /\ req[r].listed /\ Subject[r] = subject
             /\ \A o \in R : req[o].listed /\ Subject[o] = subject
                               => req[r].n <= req[o].n}

(* The shared subscription the frame is about is this one. *)
isMux(f) == mux /\ f.inbox = inbox

(* dispatcher(): a reply finds its request by inbox and token. *)
onReply(f) ==
  [req EXCEPT ![f.r] =
     IF ~@.listed THEN @
     ELSE IF f.r \in NoMux
          THEN settleNoMux(@, IF f.kind = "noResponders" THEN "error" ELSE "reply")
     ELSE IF isMux(f) /\ muxSub THEN replyMuxed(f.r, @, f.kind) ELSE @]

(* processError() for a denied publish: one noMux and one mux request to   *)
(* the subject fail.                                                       *)
onPubError(f) ==
  [r \in Req |->
     IF r \in FirstTo(NoMux, Subject[f.r]) THEN settleNoMux(req[r], "error")
     ELSE IF r \in FirstTo(Muxed, Subject[f.r]) THEN failMuxed(r, req[r])
     ELSE req[r]]

(* processError() for the denied subscription of the mux: every request on *)
(* it fails, and the next request makes a new one.                         *)
(* Faulty variant: only the oldest request fails. *)
onMuxError_First(f) ==
  [r \in Req |-> IF isMux(f) /\ r \in FirstTo(Muxed, Subject[f.r])
                 THEN failMuxed(r, req[r]) ELSE req[r]]
onMuxError(f) ==
  [r \in Req |-> IF isMux(f) /\ r \in Muxed /\ req[r].listed
                 THEN failMuxed(r, req[r]) ELSE req[r]]

receive ==
  LET f == Head(s2c) IN
  /\ s2c # <<>>
  /\ s2c' = Tail(s2c)
  /\ req' = CASE f.kind = "pubError" -> onPubError(f)
              [] f.kind = "muxError" -> onMuxError(f)
              [] OTHER -> onReply(f)
  /\ mux' = (mux /\ ~(f.kind = "muxError" /\ isMux(f)))
  /\ muxSub' = (muxSub /\ ~(f.kind = "muxError" /\ isMux(f)))
  /\ UNCHANGED <<closed, draining, epoch, inbox, count, frames>>

(* The server: it answers a request that reached it, any number of times   *)
(* and at any time, or denies its publication or the mux.                  *)
serverSends(r, kind) ==
  /\ ~closed /\ req[r].st # "idle" /\ req[r].born = epoch
  /\ kind = "muxError" => r \in Muxed
  /\ frames < MaxFrames /\ frames' = frames + 1
  /\ s2c' = Append(s2c, [kind |-> kind, r |-> r, inbox |-> req[r].inbox])
  /\ UNCHANGED <<conn, count, req>>

(* The connection is lost and another one made: what was on its way is     *)
(* gone, the requests are left alone.                                      *)
reconnect ==
  /\ ~closed /\ epoch < MaxEpochs
  /\ epoch' = epoch + 1
  /\ s2c' = <<>>
  /\ UNCHANGED <<closed, draining, mux, muxSub, inbox, count, req, frames>>

-----------------------------------------------------------------------------
Next ==
  \/ \E r \in Req : \/ \E published \in BOOLEAN : request(r, published)
                    \/ \E published \in BOOLEAN : requestNoMux(r, published)
                    \/ next(r) \/ break(r) \/ timeout(r) \/ subDrained(r)
                    \/ \E kind \in FrameKind : serverSends(r, kind)
  \/ close \/ drain \/ muxDrained \/ receive \/ reconnect

Spec == Init /\ [][Next]_vars

(* Timers fire, frames that arrived are parsed and readers read on. *)
Fairness ==
  /\ WF_vars(receive)
  /\ \A r \in Req : WF_vars(timeout(r)) /\ WF_vars(next(r))

FairSpec == Spec /\ Fairness

-----------------------------------------------------------------------------
(* Safety.                                                                 *)

(* Nothing leaks: a request() is registered, with its timer armed, exactly *)
(* while its promise is pending; a requestMany() that is registered has    *)
(* its timer armed and its end not queued yet. Whatever settles it first - *)
(* reply, -ERR, timer, close, the reader - removes it and stops its timer. *)
(* With noMux the same holds of the subscription until close() or drain(). *)
NoLeak ==
  /\ \A r \in One : /\ req[r].listed <=> req[r].st = "pending"
                    /\ req[r].timer <=> req[r].listed
  /\ \A r \in Many :
       /\ req[r].timer <=> req[r].listed
       /\ req[r].listed => /\ req[r].st = "pending"
                           /\ \A i \in 1..Len(req[r].items) : req[r].items[i] = "msg"
  /\ \A r \in NoMux : ~closed /\ ~draining =>
       /\ req[r].listed <=> req[r].st = "pending"
       /\ req[r].timer <=> req[r].listed

(* A registered request can still be answered: the mux exists and its      *)
(* inbox is the one the request was published with, though a denied mux is *)
(* replaced by one with another inbox. Only drain() of the connection      *)
(* takes the subscription away under a request.                            *)
Answerable ==
  \A r \in Muxed : req[r].listed =>
    /\ mux /\ req[r].inbox = inbox
    /\ muxSub \/ draining

(* A reader of requestMany() that has not ended will be told: either the   *)
(* request is still registered, or an end is queued. After close() too.    *)
ReaderWillEnd ==
  \A r \in Many : req[r].st = "pending" =>
    req[r].listed \/ \E i \in 1..Len(req[r].items) : req[r].items[i] # "msg"

(* An error is never masked by the end that follows it: the reader of a    *)
(* requestMany() that failed gets the error first.                         *)
ErrorSurfaces ==
  \A r \in Many : (req[r].st = "pending" /\ req[r].failed) =>
    \A i \in 1..Len(req[r].items) :
      req[r].items[i] = "stop" => \E j \in 1..i : req[r].items[j] = "fail"

(* The count strategy queues at most maxMessages messages. *)
CountRespected ==
  \A r \in Many : (Strategy[r] = "count" /\ MaxMessages[r] > 0)
    => req[r].pushed <= MaxMessages[r]

-----------------------------------------------------------------------------
(* Liveness.                                                               *)

(* Every request() and requestMany() on the mux comes to an end, whatever  *)
(* the server answers and however often the connection is lost.            *)
Settles == \A r \in Muxed : req[r].st = "pending" ~> req[r].st # "pending"

-----------------------------------------------------------------------------
(* A statement of the documentation that the code does not keep.           *)

(* "number of milliseconds before the request will timeout" (core.ts):     *)
(* also a request with noMux comes to an end.                              *)
NoMuxSettles == \A r \in NoMux : req[r].st = "pending" ~> req[r].st # "pending"
=============================================================================
