---------------------------- MODULE PullConsumer ----------------------------
(***************************************************************************)
(* PullConsumerMessagesImpl (jetstream/consumer.ts): the messages of a     *)
(* consume() or a fetch() on a pull consumer, with the QueuedIterator it   *)
(* extends, its IdleHeartbeatMonitor and the fetch timer. The server, its  *)
(* consumer and the connection are external: they are modelled by what the *)
(* client sees of them.                                                    *)
(*                                                                         *)
(* The object is the record it. A pull is a pair of what it asks for; its  *)
(* publication is the queue it.out, which the server takes when the        *)
(* connection is up. Functions pushed on the iterator are entries of       *)
(* it.yields like messages: an iterator runs them when it reaches them, a  *)
(* callback consumer at once.                                              *)
(***************************************************************************)
EXTENDS Integers, Sequences, FiniteSets, SequencesExt

CONSTANTS
  Scenarios,     \* arguments of a consume() or fetch(), what may go wrong, and
                 \* bounds: resets under way, pulls when the monitor may add one
  DefaultBatch,  \* max_messages when none is given (100 in the code)
  Messages,      \* messages of the stream
  MsgBytes,      \* size of a message
  MaxFaults      \* bound: how often the server or the network fail

(* What a caller may choose: consume() or fetch(), the latter perhaps for  *)
(* next() and then with patience for two heartbeats, and the limits.       *)
Options ==
  [refilling : BOOLEAN, callback : BOOLEAN, bind : BOOLEAN, abort : BOOLEAN,
   next : BOOLEAN, patient : BOOLEAN, max_messages : Nat, max_bytes : Nat,
   threshold_messages : Nat, threshold_bytes : Nat]

ASSUME PullAssumption ==
  /\ DefaultBatch \in Nat \ {0} /\ Messages \in Nat /\ MsgBytes \in Nat \ {0}
  /\ MaxFaults \in Nat
  /\ \A c \in Scenarios :
       /\ c.args \in Options /\ c.resets \in Nat /\ c.pulls \in Nat
       /\ c.faults \subseteq {"delete", "disconnect", "reject", "late", "denied", "throws"}

VARIABLES
  opts,      \* the parsed options
  it,        \* the PullConsumerMessagesImpl
  resets,    \* calls of resetPendingWithInfo() under way
  events,    \* connection events its status loop has not seen
  conn,      \* the connection is up
  exists,    \* the consumer exists at the server
  waiting,   \* pulls waiting at the server
  wire,      \* frames on their way to the client
  fresh,     \* messages not yet published to the stream
  avail,     \* messages the server has to deliver
  faults     \* the scenario, and how many faults there were

vars == <<opts, it, resets, events, conn, exists, waiting, wire, fresh, avail, faults>>
----------------------------------------------------------------------------
(* Options: 75% of the limits, rounded, are the thresholds of a consume(). *)
Threshold(limit) == LET r == (3 * limit + 2) \div 4 IN IF r = 0 THEN 1 ELSE r

Or(a, b) == IF a # 0 THEN a ELSE b

ValidArgs(a) == ~(a.max_messages # 0 /\ a.max_bytes # 0)

parseOptions(a) ==
  LET max == Or(a.max_messages, DefaultBatch) IN
  [a EXCEPT !.max_messages = max,
            !.threshold_messages = Or(@, Threshold(max)),
            !.threshold_bytes = Or(@, Threshold(a.max_bytes))]
----------------------------------------------------------------------------
(* The queue of the iterator. *)
Msg == [kind |-> "msg"]
Pull(p) == [kind |-> "pull", ask |-> p]
Stop == [kind |-> "stop"]
End(err) == [kind |-> "end", err |-> err]

push(s, e) == IF s.done THEN s ELSE [s EXCEPT !.yields = Append(@, e)]

(* The promise of next(), settled once. *)
resolve(s, result) == [s EXCEPT !.outcome = IF @ = "pending" THEN result ELSE @]

QueuedStop(s, err) ==
  IF s.done THEN s
  ELSE resolve([s EXCEPT !.done = TRUE, !.err = err], IF err THEN "error" ELSE "null")

publishPull(s, p) == [s EXCEPT !.out = Append(@, p)]

(* stop(): the subscription, the timers and the status loop end at once,   *)
(* the iterator when it reaches the end that is queued for it.             *)
(* Faulty variant: nothing is done when the subscription is closed. *)
stop_Once(s, err) ==
  IF s.done \/ ~s.sub THEN s
  ELSE LET u == [s EXCEPT !.sub = FALSE, !.monitor = "null", !.missed = 0,
                          !.timer = FALSE, !.status = FALSE]
       IN IF opts.callback THEN QueuedStop(u, err) ELSE push(u, End(err))
(* Faulty variant: the iterator does not wait for what is queued. *)
stop_AtOnce(s, err) ==
  QueuedStop([s EXCEPT !.sub = FALSE, !.monitor = "null", !.missed = 0,
                       !.timer = FALSE, !.status = FALSE], err)
stop(s, err) ==
  IF s.done THEN s
  ELSE LET u == [s EXCEPT !.sub = FALSE, !.monitor = "null", !.missed = 0,
                          !.timer = FALSE, !.status = FALSE]
       IN IF opts.callback THEN QueuedStop(u, err) ELSE push(u, End(err))

pushStop(s) == IF opts.callback THEN stop(s, FALSE) ELSE push(s, Stop)

pullOptions(p) == [msgs |-> opts.max_messages - p.msgs, bytes |-> opts.max_bytes - p.bytes]

pull(s, ask) ==
  LET u == [s EXCEPT !.pending = [msgs |-> @.msgs + ask.msgs, bytes |-> @.bytes + ask.bytes,
                                  requests |-> @.requests + 1]]
  IN IF opts.callback THEN publishPull(u, ask) ELSE push(u, Pull(ask))

None == [msgs |-> 0, bytes |-> 0, requests |-> 0]

(* Any pending state is gone: pull anew. *)
repull(s) == pull([s EXCEPT !.pending = None], pullOptions(None))
----------------------------------------------------------------------------
(* The callback of the subscription. *)
discard(p, left) ==
  [msgs |-> p.msgs - left.msgs, bytes |-> p.bytes - left.bytes, requests |-> p.requests - 1]

userMessage(s, throws) ==
  LET u == IF ~opts.callback THEN push(s, Msg)
           ELSE LET d == [s EXCEPT !.given = @ + 1] IN IF throws THEN stop(d, TRUE) ELSE d
  IN [u EXCEPT !.pending.msgs = IF @ # 0 THEN @ - 1 ELSE @,
               !.pending.bytes = IF @ # 0 THEN @ - MsgBytes ELSE @]

refill(s) ==
  IF \/ opts.max_messages # 0 /\ s.pending.msgs <= opts.threshold_messages
     \/ opts.max_bytes # 0 /\ s.pending.bytes <= opts.threshold_bytes
  THEN pull(s, pullOptions(s.pending)) ELSE s

settle(s) ==
  LET u == IF s.pending.msgs = 0 /\ s.pending.bytes = 0
           THEN [s EXCEPT !.pending.requests = 0] ELSE s
  IN IF opts.refilling THEN refill(u)
     ELSE IF u.pending.requests = 0 THEN pushStop(u) ELSE u

(* 409 consumer deleted and 503 no responders end a fetch(), and a         *)
(* consume() that aborts on missing resources.                             *)
Aborts == ~opts.refilling \/ opts.abort

work(s) == [s EXCEPT !.missed = 0]

handle(s, f, throws) ==
  LET w == work(s) IN
  CASE f.kind = "msg" -> settle(userMessage(w, throws))
    [] f.kind = "discard" -> settle([w EXCEPT !.pending = discard(@, f.left)])
    [] f.kind = "denied" -> stop(s, TRUE)
    [] f.kind = "bad" -> stop(w, TRUE)
    [] f.kind \in {"deleted", "noresponders"} /\ Aborts -> stop(w, TRUE)
    [] OTHER -> settle(w)
----------------------------------------------------------------------------
(* start(), with the timer of fetch(), and the initial pull. *)
start(o) ==
  LET ask == [msgs |-> o.max_messages, bytes |-> o.max_bytes] IN
  [pending |-> [msgs |-> ask.msgs, bytes |-> ask.bytes, requests |-> 1],
   yields |-> IF o.callback THEN <<>> ELSE <<Pull(ask)>>,
   out |-> IF o.callback THEN <<ask>> ELSE <<>>,
   inbatch |-> 0, given |-> 0, done |-> FALSE, err |-> FALSE, broke |-> FALSE,
   outcome |-> IF o.next THEN "pending" ELSE "none",
   sub |-> TRUE, status |-> TRUE, monitor |-> "on", missed |-> 0,
   timer |-> ~o.refilling, inBackOff |-> FALSE]

Init ==
  /\ \E c \in Scenarios :
       /\ ValidArgs(c.args) /\ opts = parseOptions(c.args)
       /\ faults = [kinds |-> c.faults, resets |-> c.resets, pulls |-> c.pulls, count |-> 0]
  /\ it = start(opts)
  /\ resets = <<>> /\ events = <<>> /\ conn = TRUE /\ exists = TRUE
  /\ waiting = <<>> /\ wire = <<>> /\ fresh = Messages /\ avail = 0

(* One that is over: nothing happens to it. *)
Over ==
  /\ opts = parseOptions([refilling |-> FALSE, callback |-> TRUE, bind |-> FALSE, abort |-> FALSE,
                           next |-> FALSE, patient |-> FALSE, max_messages |-> 0, max_bytes |-> 0,
                           threshold_messages |-> 0, threshold_bytes |-> 0])
  /\ it = [QueuedStop(start(opts), FALSE) EXCEPT !.sub = FALSE, !.status = FALSE, !.monitor = "null",
                                                 !.timer = FALSE, !.out = <<>>]
  /\ faults = [kinds |-> {}, resets |-> 0, pulls |-> 0, count |-> 0]
  /\ resets = <<>> /\ events = <<>> /\ conn = TRUE /\ exists = TRUE
  /\ waiting = <<>> /\ wire = <<>> /\ fresh = 0 /\ avail = 0

Fault(kind) ==
  it.sub /\ kind \in faults.kinds /\ faults.count < MaxFaults /\ faults' = [faults EXCEPT !.count = @ + 1]

(* A frame reaches the client; a message nobody subscribes to any more is  *)
(* not acknowledged and goes back to the stream.                           *)
Receive ==
  /\ conn /\ wire # <<>>
  /\ wire' = Tail(wire)
  /\ LET f == Head(wire) IN
     \/ it.sub /\ it' = handle(it, f, FALSE) /\ UNCHANGED <<avail, faults>>
     \/ /\ it.sub /\ f.kind = "msg" /\ opts.callback /\ Fault("throws")
        /\ it' = handle(it, f, TRUE) /\ UNCHANGED avail
     \/ /\ ~it.sub /\ avail' = avail + (IF f.kind = "msg" THEN 1 ELSE 0)
        /\ UNCHANGED <<it, faults>>
  /\ UNCHANGED <<opts, resets, events, conn, exists, waiting, fresh>>

restart(s) == IF s.monitor = "null" THEN s ELSE [s EXCEPT !.monitor = "on", !.missed = 0]

(* resetPending(), from the monitor or from the status loop, which         *)
(* restarts the monitor when it is done.                                   *)
resetPending(s, origin) ==
  IF opts.bind
  THEN it' = (IF origin = "reconnect" THEN restart(repull(s)) ELSE repull(s)) /\ UNCHANGED resets
  ELSE /\ it' = s
       /\ IF it.inBackOff \/ it.done THEN resets' = resets
          ELSE Len(resets) < faults.resets
               /\ resets' = Append(resets, [origin |-> origin, phase |-> "info"])

Live == conn /\ exists /\ (waiting # <<>> \/ it.out # <<>>)

(* The callback of the monitor; a patient next() gives up. *)
heartbeatsMissed == resetPending(IF opts.patient THEN resolve(it, "error") ELSE it, "monitor")

PullsUnderWay ==
  Len(SelectSeq(it.yields, LAMBDA e : e.kind = "pull")) + Len(it.out) + Len(waiting)

(* The interval of the monitor passes without traffic: the server sends    *)
(* heartbeats for the pulls it holds, which may be late.                   *)
Missed ==
  /\ it.monitor = "on" /\ wire = <<>> /\ events = <<>>
  /\ PullsUnderWay < faults.pulls
  /\ IF Live THEN Fault("late") ELSE UNCHANGED faults
  /\ IF it.missed < 1
     THEN it' = [it EXCEPT !.missed = @ + 1] /\ UNCHANGED resets
     ELSE heartbeatsMissed
  /\ UNCHANGED <<opts, events, conn, exists, waiting, wire, fresh, avail>>

Heartbeat ==
  /\ Live /\ wire = <<>> /\ it.sub /\ it.missed > 0
  /\ it' = work(it)
  /\ UNCHANGED <<opts, resets, events, conn, exists, waiting, wire, fresh, avail, faults>>

(* The status loop. *)
(* Faulty variant: a reconnect does not reset what is pending. *)
OnStatus_Deaf ==
  /\ events # <<>> /\ events' = Tail(events)
  /\ it' = IF it.status /\ Head(events) = "disconnect"
           THEN [it EXCEPT !.monitor = "off", !.missed = 0] ELSE it
  /\ UNCHANGED <<opts, resets, conn, exists, waiting, wire, fresh, avail, faults>>
OnStatus ==
  /\ events # <<>> /\ events' = Tail(events)
  /\ IF ~it.status THEN UNCHANGED <<it, resets>>
     ELSE IF Head(events) = "disconnect"
     THEN it' = [it EXCEPT !.monitor = "off", !.missed = 0] /\ UNCHANGED resets
     ELSE resetPending(it, "reconnect")
  /\ UNCHANGED <<opts, conn, exists, waiting, wire, fresh, avail, faults>>

(* resetPendingWithInfo(): the answer to the consumer info. *)
InfoFound(i) ==
  /\ resets[i].phase = "info" /\ conn /\ exists
  /\ LET u == repull([it EXCEPT !.inBackOff = FALSE]) IN
     it' = IF resets[i].origin = "reconnect" THEN restart(u) ELSE u
  /\ resets' = RemoveAt(resets, i)
  /\ UNCHANGED <<opts, events, conn, exists, waiting, wire, fresh, avail, faults>>

InfoNotFound(i) ==
  /\ resets[i].phase = "info" /\ conn /\ ~exists
  /\ IF Aborts
     THEN it' = stop(it, TRUE) /\ resets' = RemoveAt(resets, i)
     ELSE it' = [it EXCEPT !.inBackOff = TRUE] /\ resets' = [resets EXCEPT ![i].phase = "backoff"]
  /\ UNCHANGED <<opts, events, conn, exists, waiting, wire, fresh, avail, faults>>

InfoFails(i) ==
  /\ resets[i].phase = "info" /\ ~conn
  /\ it' = [it EXCEPT !.inBackOff = TRUE]
  /\ resets' = [resets EXCEPT ![i].phase = "backoff"]
  /\ UNCHANGED <<opts, events, conn, exists, waiting, wire, fresh, avail, faults>>

BackoffEnds(i) ==
  /\ resets[i].phase = "backoff"
  /\ resets' = IF it.done THEN RemoveAt(resets, i) ELSE [resets EXCEPT ![i].phase = "info"]
  /\ UNCHANGED <<opts, it, events, conn, exists, waiting, wire, fresh, avail, faults>>

(* One entry of the iterator: it works on the entries it found, and leaves *)
(* when they are done and it was stopped, or at the error it was given.    *)
Read ==
  /\ ~opts.callback /\ ~it.broke /\ it.yields # <<>>
  /\ it.inbatch > 0 \/ ~it.done
  /\ ~it.err
  /\ LET n == IF it.inbatch = 0 THEN Len(it.yields) ELSE it.inbatch
         e == Head(it.yields)
         s == [it EXCEPT !.yields = Tail(@), !.inbatch = n - 1]
     IN it' = CASE e.kind = "msg" /\ opts.next ->
                     [stop(resolve([s EXCEPT !.given = @ + 1], "msg"), FALSE) EXCEPT !.broke = TRUE]
                [] e.kind = "msg" /\ ~opts.next -> [s EXCEPT !.given = @ + 1]
                [] e.kind = "pull" -> publishPull(s, e.ask)
                [] e.kind = "stop" -> stop(s, FALSE)
                [] e.kind = "end" -> QueuedStop(s, e.err)
  /\ UNCHANGED <<opts, resets, events, conn, exists, waiting, wire, fresh, avail, faults>>

(* The user leaves the loop: the iterator stops and is read no more. *)
Break ==
  /\ ~opts.callback /\ ~opts.next /\ ~it.broke /\ ~it.done /\ it.given > 0
  /\ it' = [stop(it, FALSE) EXCEPT !.broke = TRUE]
  /\ UNCHANGED <<opts, resets, events, conn, exists, waiting, wire, fresh, avail, faults>>

(* The subscription was drained, with its connection: a stop is queued     *)
(* behind its last message.                                                *)
Drained ==
  /\ it.sub /\ conn /\ wire = <<>>
  /\ it' = pushStop([it EXCEPT !.sub = FALSE])
  /\ UNCHANGED <<opts, resets, events, conn, exists, waiting, wire, fresh, avail, faults>>

(* close() by the user, or the timer of fetch(). *)
Close ==
  /\ ~it.done /\ it.sub
  /\ it' = stop(it, FALSE)
  /\ UNCHANGED <<opts, resets, events, conn, exists, waiting, wire, fresh, avail, faults>>

TimerFires ==
  /\ it.timer
  /\ it' = stop(resolve(it, "null"), FALSE)
  /\ UNCHANGED <<opts, resets, events, conn, exists, waiting, wire, fresh, avail, faults>>
----------------------------------------------------------------------------
(* External: the server and the connection. *)
ServerTakes ==
  /\ conn /\ it.out # <<>>
  /\ it' = [it EXCEPT !.out = Tail(@)]
  /\ LET p == Head(it.out) IN
     \/ /\ exists /\ UNCHANGED <<wire, faults>>
        /\ waiting' = IF it.sub THEN Append(waiting, [p EXCEPT !.msgs = IF @ <= 0 THEN 1 ELSE @])
                      ELSE waiting
     \/ exists /\ Fault("reject") /\ wire' = Append(wire, [kind |-> "rejected"]) /\ UNCHANGED waiting
     \/ ~exists /\ wire' = Append(wire, [kind |-> "noresponders"]) /\ UNCHANGED <<waiting, faults>>
  /\ UNCHANGED <<opts, resets, events, conn, exists, fresh, avail>>

Publish ==
  /\ it.sub /\ fresh > 0 /\ fresh' = fresh - 1 /\ avail' = avail + 1
  /\ UNCHANGED <<opts, it, resets, events, conn, exists, waiting, wire, faults>>

Fits(p) == opts.max_bytes = 0 \/ p.bytes >= MsgBytes

Deliver ==
  /\ conn /\ it.sub /\ waiting # <<>> /\ avail > 0 /\ Fits(Head(waiting))
  /\ wire' = Append(wire, Msg) /\ avail' = avail - 1
  /\ waiting' = IF Head(waiting).msgs = 1 THEN Tail(waiting)
                ELSE <<[msgs |-> Head(waiting).msgs - 1,
                        bytes |-> IF opts.max_bytes = 0 THEN 0 ELSE Head(waiting).bytes - MsgBytes]>>
                     \o Tail(waiting)
  /\ UNCHANGED <<opts, it, resets, events, conn, exists, fresh, faults>>

(* A pull expires while there is nothing for it, or has no room for the    *)
(* next message: the server says what it leaves unanswered.                *)
Expire ==
  /\ conn /\ it.sub /\ waiting # <<>> /\ (avail = 0 \/ ~Fits(Head(waiting)))
  /\ waiting' = Tail(waiting)
  /\ wire' = Append(wire, [kind |-> "discard", left |-> Head(waiting)])
  /\ UNCHANGED <<opts, it, resets, events, conn, exists, fresh, avail, faults>>

Delete ==
  /\ conn /\ exists /\ Fault("delete")
  /\ exists' = FALSE
  /\ wire' = wire \o [i \in 1..Len(waiting) |-> [kind |-> "deleted"]] /\ waiting' = <<>>
  /\ UNCHANGED <<opts, it, resets, events, conn, fresh, avail>>

Recreate ==
  /\ ~exists /\ exists' = TRUE
  /\ UNCHANGED <<opts, it, resets, events, conn, waiting, wire, fresh, avail, faults>>

Denied ==
  /\ conn /\ Fault("denied")
  /\ \E kind \in {"denied", "bad"} : wire' = Append(wire, [kind |-> kind])
  /\ UNCHANGED <<opts, it, resets, events, conn, exists, waiting, fresh, avail>>

(* What was on its way is lost; the server gives up the pulls, or not yet. *)
Disconnect ==
  /\ conn /\ Fault("disconnect") /\ conn' = FALSE
  /\ avail' = avail + Len(SelectSeq(wire, LAMBDA f : f.kind = "msg"))
  /\ wire' = <<>> /\ waiting' \in {waiting, <<>>}
  /\ events' = Append(events, "disconnect")
  /\ UNCHANGED <<opts, it, resets, exists, fresh>>

Reconnect ==
  /\ ~conn /\ conn' = TRUE
  /\ \E out \in {it.out, <<>>} : it' = [it EXCEPT !.out = out]
  /\ events' = Append(events, "reconnect")
  /\ UNCHANGED <<opts, resets, exists, waiting, wire, fresh, avail, faults>>

Reset ==
  \E i \in 1..Len(resets) :
    InfoFound(i) \/ InfoNotFound(i) \/ InfoFails(i) \/ BackoffEnds(i)

Next ==
  \/ Receive \/ Missed \/ Heartbeat \/ OnStatus \/ Reset \/ Read \/ Break \/ Drained
  \/ Close \/ TimerFires
  \/ ServerTakes \/ Publish \/ Deliver \/ Expire \/ Delete \/ Recreate \/ Denied \/ Disconnect \/ Reconnect

Spec == Init /\ [][Next]_vars

(* The event loop runs what is due, the user reads, the server answers,    *)
(* the connection and the consumer come back. Nobody has to close().       *)
Fairness ==
  /\ WF_vars(Receive) /\ WF_vars(Missed) /\ WF_vars(OnStatus) /\ WF_vars(Reset)
  /\ WF_vars(Read) /\ WF_vars(TimerFires)
  /\ WF_vars(ServerTakes) /\ WF_vars(Publish) /\ WF_vars(Deliver) /\ WF_vars(Expire)
  /\ WF_vars(Recreate) /\ WF_vars(Reconnect)

FairSpec == Spec /\ Fairness
----------------------------------------------------------------------------
(* A consume() gives the user every message of the stream, although pulls  *)
(* are refused, expire or are lost with a connection or a consumer while   *)
(* their messages and statuses are under way: the pending counts never     *)
(* keep it from pulling for good (consumer.ts, start() and resetPending()).*)
Consumes == opts.refilling ~> (~it.sub \/ it.given = Messages)

(* fetch() comes to its end whatever the server does, unless the user left *)
(* the loop, and next() has an answer: the timer, a discard, an error or   *)
(* the last message stop it (consumer.ts, fetch() and next()).             *)
FetchEnds == ~opts.refilling ~> (it.done \/ it.broke) /\ it.outcome # "pending"

(* A pull consumer that ends, with an error or without, leaves no message  *)
(* it took from the server unread: stop() is queued behind them, and ends  *)
(* the subscription (consumer.ts stop(), queued_iterator.ts iterate()).    *)
EndsBehindMessages ==
  it.done => \A i \in 1..Len(it.yields) : it.yields[i] # Msg
=============================================================================
