---- MODULE PushSubscription ----
(***************************************************************************)
(* subscribe() and pullSubscribe() of src/jetstream/jsclient.ts: a durable *)
(* or new consumer and a typed subscription on its deliver subject, read   *)
(* with an iterator or a callback, whose messages are acknowledged by the  *)
(* client (autoAckJsMsg) or by the user (the acks of jsmsg.ts). The server *)
(* sends a message again when its ack stays away. Ordered consumers are    *)
(* module OrderedPush.                                                     *)
(***************************************************************************)
EXTENDS Naturals, Sequences, SequencesExt, FiniteSets

CONSTANTS
    Stored,         \* the number of messages in the stream
    PushUses        \* bounds: how the subscription is used, see Options

VARIABLES
    psUse,          \* the element of PushUses
    call,           \* where subscribe() is: "off", "find", "info", "create", "on", "rejected"
    typed,          \* [state, yields, done]: the TypedSubscription and its iterator
    current,        \* the message the user has: [seq, didAck], or Nobody
    given,          \* [processed, confirmed, wait]: what the user has done with messages
    consumer,       \* [exists, interest, next, pending, acked, stalled, waiting]
    wire,           \* frames to the client
    acks,           \* what the client publishes to the consumer
    extra           \* what is used of the bounds

psVars == <<psUse, call, typed, current, given, consumer, wire, acks, extra>>

Policies == {"explicit", "all", "none"}
Calls    == {"ack", "nak", "term", "working", "next", "ackAck"}
Faults   == {"api", "lose", "again", "fc", "status", "missed", "timeout", "leave"}

\* ConsumerOpts: `found` is what consumerAPI.info() says of the durable.
Options(o) ==
    /\ o.iterator \in BOOLEAN /\ o.mack \in BOOLEAN /\ o.pull \in BOOLEAN /\ o.isBind \in BOOLEAN
    /\ o.found \in {"ephemeral", "none", "same", "unfit"} /\ o.policy \in Policies
    /\ o.calls \subseteq Calls /\ o.faults \subseteq Faults /\ o.limit \in Nat

\* With the policy "all" an ack covers the messages before it, those too that were
\* lost: it is only true to what the user did when nothing is lost.
ASSUME PushAssumption ==
    /\ Stored \in Nat
    /\ \A o \in PushUses : Options(o) /\ (o.policy = "all" => "lose" \notin o.faults)

Nobody  == [seq |-> 0, didAck |-> FALSE]
Message(s) == [kind |-> "msg", seq |-> s]
Control(k) == [kind |-> k, seq |-> 0]

----
PsState(o) ==
    /\ psUse = o
    /\ call = "off"
    /\ typed = [state |-> "none", yields |-> <<>>, done |-> FALSE]
    /\ current = Nobody
    /\ given = [processed |-> {}, confirmed |-> {}, wait |-> 0]
    /\ consumer = [exists |-> o.found = "same", interest |-> FALSE, next |-> 1, pending |-> {},
                   acked |-> {}, stalled |-> FALSE, waiting |-> 0]
    /\ wire = <<>> /\ acks = <<>> /\ extra = 0
PsInit == \E o \in PushUses : PsState(o)
PsUnused ==
    PsState([iterator |-> TRUE, mack |-> FALSE, pull |-> FALSE, isBind |-> FALSE,
             found |-> "unfit", policy |-> "none", calls |-> {}, faults |-> {}, limit |-> 0])

Used == psUse.found # "unfit" \/ psUse.limit > 0
Fault(f) == f \in psUse.faults /\ extra < psUse.limit /\ extra' = extra + 1

(***************************************************************************)
(* subscribe(): _processOptions() finds the stream and asks for the        *)
(* durable; the subscription is made before the consumer is, and undone    *)
(* when it cannot be made.                                                 *)
(***************************************************************************)
subscribe ==
    /\ call = "off" /\ Used
    /\ call' = "find"
    /\ UNCHANGED <<psUse, typed, current, given, consumer, wire, acks, extra>>

Reject ==
    /\ call' = "rejected"
    /\ typed' = [typed EXCEPT !.state = IF @ = "none" THEN @ ELSE "closed", !.done = TRUE]
    /\ consumer' = [consumer EXCEPT !.interest = FALSE]

\* new JetStreamSubscriptionImpl(), then _maybeCreateConsumer().
maybeCreateConsumer(attached) ==
    IF psUse.isBind /\ ~attached
    THEN /\ call' = "rejected"
         /\ typed' = [typed EXCEPT !.state = "closed", !.done = TRUE]
         /\ UNCHANGED consumer
    ELSE /\ call' = IF attached THEN "on" ELSE "create"
         /\ typed' = [typed EXCEPT !.state = "open"]
         /\ consumer' = [consumer EXCEPT !.interest = TRUE]

findStream ==
    /\ call = "find"
    /\ \/ /\ psUse.found # "ephemeral" /\ call' = "info"
          /\ UNCHANGED <<typed, consumer, extra>>
       \/ /\ psUse.found = "ephemeral" /\ maybeCreateConsumer(FALSE)
          /\ UNCHANGED extra
       \/ Fault("api") /\ Reject
    /\ UNCHANGED <<psUse, current, given, wire, acks>>

\* The answer to consumerAPI.info(): the durable does not exist, it fits, or its
\* subject, queue group or binding does not.
processInfo ==
    /\ call = "info"
    /\ \/ psUse.found \in {"none", "same"} /\ maybeCreateConsumer(psUse.found = "same") /\ UNCHANGED extra
       \/ psUse.found = "unfit" /\ Reject /\ UNCHANGED extra
       \/ Fault("api") /\ Reject
    /\ UNCHANGED <<psUse, current, given, wire, acks>>

\* External: the server takes the CONSUMER.CREATE.
ServerCreates ==
    /\ call = "create" /\ ~consumer.exists
    /\ consumer' = [consumer EXCEPT !.exists = TRUE]
    /\ UNCHANGED <<psUse, call, typed, current, given, wire, acks, extra>>

Created ==
    /\ call = "create"
    /\ \/ consumer.exists /\ call' = "on" /\ UNCHANGED <<typed, consumer, extra>>
       \/ Fault("api") /\ Reject
    /\ UNCHANGED <<psUse, current, given, wire, acks>>
----
(***************************************************************************)
(* External: the consumer. A pull subscription gets a message per pull     *)
(* that is waiting; a push consumer with flow control waits for the answer.*)
(***************************************************************************)
ToClient(f) == wire' = Append(wire, f)
Ready == consumer.exists /\ consumer.interest /\ ~consumer.stalled /\ (psUse.pull => consumer.waiting > 0)
Sent(c) == [c EXCEPT !.waiting = IF psUse.pull THEN @ - 1 ELSE @]

Deliver ==
    /\ Ready /\ consumer.next <= Stored
    /\ ToClient(Message(consumer.next))
    /\ consumer' = [Sent(consumer) EXCEPT
         !.next = @ + 1,
         !.pending = IF psUse.policy = "none" THEN @ ELSE @ \union {consumer.next}]
    /\ UNCHANGED <<psUse, call, typed, current, given, acks, extra>>

Has(q, s) == \E k \in DOMAIN q : q[k].seq = s
Underway(s) == Has(wire, s) \/ Has(typed.yields, s) \/ current.seq = s \/ Has(acks, s)

\* The ack of a message did not come in time: because something was lost, or
\* because the client is slow.
Redeliver(s) ==
    /\ s \in consumer.pending /\ Ready
    /\ IF Underway(s) THEN Fault("again") ELSE UNCHANGED extra
    /\ ToClient(Message(s)) /\ consumer' = Sent(consumer)
    /\ UNCHANGED <<psUse, call, typed, current, given, acks>>

FlowControl ==
    /\ Ready /\ Fault("fc") /\ ToClient(Control("fc"))
    /\ consumer' = [consumer EXCEPT !.stalled = TRUE]
    /\ UNCHANGED <<psUse, call, typed, current, given, acks>>

\* 404, 408 or a 409 that is not terminal end one pull; a terminal 409 tells the
\* consumer is gone.
Status(k) ==
    /\ consumer.interest /\ consumer.exists /\ Fault("status") /\ ToClient(Control(k))
    /\ consumer' = IF k = "terminal" THEN [consumer EXCEPT !.exists = FALSE] ELSE Sent(consumer)
    /\ psUse.pull => consumer.waiting > 0
    /\ UNCHANGED <<psUse, call, typed, current, given, acks>>

\* The connection is lost with what is on it; the subscription is made again.
Lose ==
    /\ wire # <<>> \/ acks # <<>>
    /\ Fault("lose") /\ wire' = <<>> /\ acks' = <<>>
    /\ consumer' = [consumer EXCEPT !.waiting = 0]
    /\ UNCHANGED <<psUse, call, typed, current, given>>

AckArrives ==
    /\ acks # <<>>
    /\ LET a == Head(acks)
           final == {a.seq} \union {s \in consumer.pending : psUse.policy = "all" /\ s <= a.seq}
           done == [consumer EXCEPT !.pending = @ \ final, !.acked = @ \union final]
       IN  consumer' = CASE a.kind \in {"ack", "ackAck"} -> done
                         [] a.kind = "next" -> [done EXCEPT !.waiting = @ + 1]
                         [] a.kind = "term" -> [consumer EXCEPT !.pending = @ \ {a.seq}]
                         [] a.kind = "pull" -> [consumer EXCEPT !.waiting = @ + 1]
                         [] a.kind = "fc" -> [consumer EXCEPT !.stalled = FALSE]
                         [] OTHER -> consumer
    /\ wire' = IF Head(acks).kind = "ackAck" THEN Append(wire, [Head(acks) EXCEPT !.kind = "reply"]) ELSE wire
    /\ acks' = Tail(acks)
    /\ UNCHANGED <<psUse, call, typed, current, given, extra>>
----
(***************************************************************************)
(* The subscription.                                                       *)
(***************************************************************************)
\* Mutant of protocolFilterFn: a flow control message is dropped unanswered.
protocolFilterFn_Mute(f) == <<>>

\* A flow control message is answered when it is its turn, and not given to the
\* user.
protocolFilterFn(f) == IF f.kind = "fc" THEN <<Control("fc")>> ELSE <<>>

autoAck(s) == IF psUse.mack \/ psUse.policy = "none" THEN <<>> ELSE <<[kind |-> "ack", seq |-> s]>>

stop(t) == [t EXCEPT !.done = TRUE]

\* TypedSubscription.callback(): iterMsgAdapter() hides the statuses that are not
\* terminal, a terminal one stops the iterator, and that unsubscribes.
iterCallback(f) ==
    /\ typed' = IF f.kind = "terminal" THEN [stop(typed) EXCEPT !.state = "closed"]
                ELSE IF f.kind = "status" \/ typed.done THEN typed
                ELSE [typed EXCEPT !.yields = Append(@, f)]
    /\ consumer' = IF f.kind = "terminal" THEN [consumer EXCEPT !.interest = FALSE] ELSE consumer
    /\ UNCHANGED <<given, acks>>

\* The callback of the constructor: errors are given to the user and nothing
\* stops; a message is processed and then acknowledged.
userCallback(f) ==
    /\ acks' = acks \o (CASE f.kind = "msg" -> autoAck(f.seq)
                          [] f.kind = "fc" -> protocolFilterFn(f)
                          [] OTHER -> <<>>)
    /\ given' = IF f.kind = "msg" THEN [given EXCEPT !.processed = @ \union {f.seq}] ELSE given
    /\ UNCHANGED <<typed, consumer>>

Receive ==
    /\ wire # <<>>
    /\ LET f == Head(wire)
       IN  CASE f.kind = "reply" ->
                  /\ given' = IF given.wait = f.seq
                              THEN [given EXCEPT !.wait = 0, !.confirmed = @ \union {f.seq}] ELSE given
                  /\ UNCHANGED <<typed, consumer, acks>>
             [] f.kind # "reply" /\ typed.state = "closed" -> UNCHANGED <<typed, consumer, given, acks>>
             [] f.kind # "reply" /\ typed.state # "closed" ->
                  IF psUse.iterator THEN iterCallback(f) ELSE userCallback(f)
    /\ wire' = Tail(wire)
    /\ UNCHANGED <<psUse, call, current, extra>>

\* iterate() gives the user the next message; subscribe() must have returned.
\* Mutant: the message is acknowledged before it is given.
Take_Acked ==
    /\ call = "on" /\ current = Nobody /\ typed.yields # <<>>
    /\ LET f == Head(typed.yields)
       IN  /\ current' = IF f.kind = "fc" THEN Nobody ELSE [seq |-> f.seq, didAck |-> FALSE]
           /\ acks' = acks \o protocolFilterFn(f) \o (IF f.kind = "fc" THEN <<>> ELSE autoAck(f.seq))
    /\ typed' = [typed EXCEPT !.yields = Tail(@)]
    /\ UNCHANGED <<psUse, call, given, consumer, wire, extra>>
Take ==
    /\ call = "on" /\ current = Nobody /\ typed.yields # <<>>
    /\ LET f == Head(typed.yields)
       IN  /\ current' = IF f.kind = "fc" THEN Nobody ELSE [seq |-> f.seq, didAck |-> FALSE]
           /\ acks' = acks \o protocolFilterFn(f)
    /\ typed' = [typed EXCEPT !.yields = Tail(@)]
    /\ UNCHANGED <<psUse, call, given, consumer, wire, extra>>

\* The user is done with the message: dispatchedFn acknowledges it, unless it was.
Processed ==
    /\ current # Nobody /\ given.wait = 0
    /\ given' = [given EXCEPT !.processed = @ \union {current.seq}]
    /\ acks' = acks \o (IF current.didAck THEN <<>> ELSE autoAck(current.seq))
    /\ current' = Nobody
    /\ UNCHANGED <<psUse, call, typed, consumer, wire, extra>>

(***************************************************************************)
(* The acks of a JsMsg: the first that is final counts, working() never    *)
(* is, and next() does not ask. ackAck() waits for the server's answer.    *)
(***************************************************************************)
isFinal(k) == k \in {"ack", "nak", "term", "ackAck"}

doAck(k) ==
    /\ current # Nobody /\ given.wait = 0 /\ k \in psUse.calls
    /\ extra < psUse.limit /\ extra' = extra + 1
    /\ IF current.didAck /\ k # "next"
       THEN UNCHANGED <<current, given, acks>>
       ELSE /\ current' = [current EXCEPT !.didAck = @ \/ isFinal(k)]
            /\ acks' = Append(acks, [kind |-> k, seq |-> current.seq])
            /\ given' = [given EXCEPT
                 !.processed = IF k \in {"ack", "ackAck", "next"} THEN @ \union {current.seq} ELSE @,
                 !.wait = IF k = "ackAck" THEN current.seq ELSE @]
    /\ UNCHANGED <<psUse, call, typed, consumer, wire>>

ackAckTimeout ==
    /\ given.wait # 0 /\ Fault("timeout")
    /\ given' = [given EXCEPT !.wait = 0]
    /\ UNCHANGED <<psUse, call, typed, current, consumer, wire, acks>>

\* pull() of a pull subscription asks for one more message.
pull ==
    /\ psUse.pull /\ call = "on" /\ typed.state = "open" /\ consumer.waiting = 0
    /\ ~\E k \in DOMAIN acks : acks[k].kind = "pull"
    /\ acks' = Append(acks, Control("pull"))
    /\ UNCHANGED <<psUse, call, typed, current, given, consumer, wire, extra>>

\* The idle heartbeats stay away: an iterator ends with an error.
heartbeatMissed ==
    /\ call = "on" /\ typed.state = "open" /\ Fault("missed")
    /\ IF psUse.iterator THEN iterCallback(Control("terminal"))
                         ELSE UNCHANGED <<typed, given, consumer, acks>>
    /\ UNCHANGED <<psUse, call, current, wire>>

\* The user breaks out of the loop: what is queued, and the message it has, are
\* not acknowledged.
Break ==
    /\ current # Nobody /\ Fault("leave")
    /\ current' = Nobody
    /\ typed' = [stop(typed) EXCEPT !.state = "closed", !.yields = <<>>]
    /\ consumer' = [consumer EXCEPT !.interest = FALSE]
    /\ given' = [given EXCEPT !.wait = 0]
    /\ UNCHANGED <<psUse, call, wire, acks>>

\* unsubscribe(), drain(); what arrives before the drain is over is still given.
unsubscribe ==
    /\ call = "on" /\ typed.state = "open" /\ Fault("leave")
    /\ \E st \in {"draining", "closed"} : typed' = [typed EXCEPT !.state = st, !.done = st = "closed"]
    /\ consumer' = [consumer EXCEPT !.interest = FALSE]
    /\ UNCHANGED <<psUse, call, current, given, wire, acks>>

Drained ==
    /\ typed.state = "draining" /\ wire = <<>>
    /\ typed' = [stop(typed) EXCEPT !.state = "closed"]
    /\ UNCHANGED <<psUse, call, current, given, consumer, wire, acks, extra>>

\* destroy() deletes the consumer when the subscription has drained.
destroy ==
    /\ typed.state = "closed" /\ call = "on" /\ consumer.exists /\ extra < psUse.limit
    /\ consumer' = [consumer EXCEPT !.exists = FALSE]
    /\ extra' = extra + 1
    /\ UNCHANGED <<psUse, call, typed, current, given, wire, acks>>
----
PsNext ==
    \/ subscribe \/ findStream \/ processInfo \/ ServerCreates \/ Created
    \/ Deliver \/ FlowControl \/ Lose \/ AckArrives
    \/ \E s \in 1..Stored : Redeliver(s)
    \/ \E k \in {"status", "terminal"} : Status(k)
    \/ \E k \in Calls : doAck(k)
    \/ Receive \/ Take \/ Processed \/ ackAckTimeout \/ pull \/ heartbeatMissed
    \/ Break \/ unsubscribe \/ Drained \/ destroy

\* The server and the event loop go on, the ack wait of the server ends, and the
\* user reads and pulls.
PsFairness ==
    /\ WF_psVars(Deliver) /\ WF_psVars(AckArrives) /\ WF_psVars(Receive)
    /\ WF_psVars(Take) /\ WF_psVars(Processed) /\ WF_psVars(pull)
    /\ \A s \in 1..Stored : WF_psVars(Redeliver(s) /\ extra' = extra)

PsSpec == PsInit /\ [][PsNext]_psVars /\ PsFairness
----
\* What the server holds for acknowledged was processed by the user, whatever
\* was lost or sent again, and an ackAck() that resolved with true is recorded by
\* the server (typedsub.ts callback, queued_iterator.ts iterate(), jsmsg.ts). With
\* the policy "all" this needs a connection that loses nothing.
AcksAreTrue ==
    /\ consumer.acked \subseteq given.processed
    /\ given.confirmed \subseteq consumer.acked

\* A subscription with automatic acks gets through the stream: flow control is
\* answered, lost messages and acks are made up for, and statuses of a pull do
\* not stop it (jsclient.ts _buildTypedSubscriptionOpts(), autoAckJsMsg()).
StreamConsumed ==
    call = "on" /\ ~psUse.mack /\ psUse.policy # "none" ~>
        consumer.acked = 1..Stored \/ typed.state # "open" \/ ~consumer.exists
====
