----------------------------- MODULE OrderedPush -----------------------------
(***************************************************************************)
(* The ordered push consumer (jetstream/jsclient.ts): a subscription whose *)
(* filter checks the delivery sequence of every message and heartbeat. On  *)
(* a gap, or when heartbeats are missed, the subscription moves to a new   *)
(* deliver subject (here: the next generation) and a consumer is created   *)
(* there behind the last message that was accepted. The server, which has  *)
(* a consumer per generation, and the connection are external.             *)
(***************************************************************************)
EXTENDS Integers, Sequences

CONSTANTS
  First,      \* the sequence asked for
  Messages,   \* messages of the stream
  MaxGen,     \* bound: deliver subjects
  MaxWire,    \* bound: frames under way
  MaxFaults   \* bound: lost frames and consumers, failed and late answers

VARIABLES
  sequence,   \* info.ordered_consumer_sequence
  gen,        \* the deliver subject, and so the sid, of the subscription
  creates,    \* consumer create requests under way
  name,       \* info.name
  open,       \* the subscription is open
  missed,     \* heartbeats missed
  delivered,  \* stream sequences handed to the user
  consumers,  \* at the server: the consumers by generation
  wire,       \* frames on their way to the client
  conn,       \* the connection is up
  faults

vars == <<sequence, gen, creates, name, open, missed, delivered, consumers, wire, conn, faults>>
client == <<sequence, gen, creates, name, open, missed, delivered>>
server == <<consumers, wire, conn, faults>>
----------------------------------------------------------------------------
(* Whatever sequence was asked for. *)
Start == [delivery_seq |-> 0, stream_seq |-> 0]

Subscribed ==
  /\ sequence = Start /\ gen = 1 /\ name = 1 /\ missed = 0 /\ delivered = <<>> /\ creates = {}
  /\ consumers = [g \in {1} |-> [next |-> First, dseq |-> 0]] /\ wire = <<>> /\ conn = TRUE /\ faults = 0

Init == Subscribed /\ open = TRUE

(* Closed before anything was received. *)
Closed == Subscribed /\ open = FALSE

Fault == open /\ faults < MaxFaults /\ faults' = faults + 1

(* _resetOrderedConsumer(): a new deliver subject under a new sid, and a   *)
(* request for a consumer, which is repeated until it is answered.         *)
resetOrderedConsumer(sseq) ==
  IF ~open THEN UNCHANGED <<sequence, gen, creates>>
  ELSE /\ gen < MaxGen
       /\ gen' = gen + 1
       /\ sequence' = [sequence EXCEPT !.delivery_seq = 0]
       /\ creates' = creates \cup {[gen |-> gen + 1, start |-> sseq]}

(* _checkOrderedConsumer(), behind work() of the monitor. *)
(* Faulty variant: any later delivery is taken for the next. *)
checkOrderedConsumer_Later(f) ==
  IF f.dseq <= sequence.delivery_seq
  THEN resetOrderedConsumer(sequence.stream_seq + 1) /\ UNCHANGED delivered
  ELSE /\ sequence' = [delivery_seq |-> f.dseq, stream_seq |-> f.sseq]
       /\ delivered' = Append(delivered, f.sseq)
       /\ UNCHANGED <<gen, creates>>
checkOrderedConsumer(f) ==
  IF f.dseq # sequence.delivery_seq + 1
  THEN resetOrderedConsumer(sequence.stream_seq + 1) /\ UNCHANGED delivered
  ELSE /\ sequence' = [delivery_seq |-> f.dseq, stream_seq |-> f.sseq]
       /\ delivered' = Append(delivered, f.sseq)
       /\ UNCHANGED <<gen, creates>>

(* _checkHbOrderConsumer(): the heartbeat tells the last delivery.         *)
checkHbOrderConsumer(f) ==
  /\ IF f.last # sequence.delivery_seq
     THEN resetOrderedConsumer(sequence.stream_seq + 1)
     ELSE UNCHANGED <<sequence, gen, creates>>
  /\ UNCHANGED delivered

(* ingestionFn(); a frame for a sid that is gone is dropped. *)
Receive ==
  /\ conn /\ wire # <<>> /\ wire' = Tail(wire)
  /\ LET f == Head(wire) IN
     IF ~open \/ f.gen # gen
     THEN UNCHANGED <<sequence, gen, creates, delivered, missed>>
     ELSE /\ IF f.kind = "msg" THEN checkOrderedConsumer(f) ELSE checkHbOrderConsumer(f)
          /\ missed' = 0
  /\ UNCHANGED <<name, open, consumers, conn, faults>>

(* The server sends heartbeats, or is about to answer. *)
Served == conn /\ (gen \in DOMAIN consumers \/ creates # {})

(* The interval of the monitor passes without a frame; two in a row reset  *)
(* the consumer when connected, and the monitor starts again.              *)
Missed ==
  /\ open /\ wire = <<>>
  /\ IF Served THEN Fault ELSE UNCHANGED faults
  /\ IF missed < 1 THEN missed' = 1 /\ UNCHANGED <<sequence, gen, creates>>
     ELSE /\ conn /\ missed' = 0
          /\ resetOrderedConsumer(sequence.stream_seq + 1)
  /\ UNCHANGED <<name, open, delivered, consumers, wire, conn>>

(* The answer to the create request. *)
Created ==
  /\ conn /\ \E c \in creates :
       /\ c.gen \in DOMAIN consumers
       /\ creates' = creates \ {c} /\ name' = c.gen
  /\ UNCHANGED <<sequence, gen, open, missed, delivered, server>>

(* Another error than a timeout or no responders is passed to the          *)
(* subscription: one with an iterator ends, one with a callback is told.   *)
CreateFails ==
  /\ conn /\ Fault /\ \E c \in creates : creates' = creates \ {c}
  /\ open' \in {FALSE, open}
  /\ UNCHANGED <<sequence, gen, name, missed, delivered, consumers, wire, conn>>

Close ==
  /\ open /\ open' = FALSE
  /\ UNCHANGED <<sequence, gen, creates, name, missed, delivered, server>>
----------------------------------------------------------------------------
(* External: the server creates a consumer, sends it messages from its     *)
(* start and heartbeats when there are none, and may lose either.          *)
ServerCreates ==
  /\ conn /\ \E c \in creates :
       /\ c.gen \notin DOMAIN consumers
       /\ consumers' = [g \in DOMAIN consumers \cup {c.gen} |->
                          IF g = c.gen THEN [next |-> c.start, dseq |-> 0] ELSE consumers[g]]
  /\ UNCHANGED <<client, wire, conn, faults>>

Send(g) ==
  /\ conn /\ Len(wire) < MaxWire /\ consumers[g].next <= Messages
  /\ wire' = Append(wire, [kind |-> "msg", gen |-> g, dseq |-> consumers[g].dseq + 1,
                           sseq |-> consumers[g].next])
  /\ consumers' = [consumers EXCEPT ![g] = [next |-> @.next + 1, dseq |-> @.dseq + 1]]
  /\ UNCHANGED <<client, conn, faults>>

Heartbeat(g) ==
  /\ conn /\ wire = <<>> /\ consumers[g].next > Messages
  /\ missed > 0 \/ consumers[g].dseq # sequence.delivery_seq
  /\ wire' = Append(wire, [kind |-> "hb", gen |-> g, last |-> consumers[g].dseq])
  /\ UNCHANGED <<client, consumers, conn, faults>>

Lose ==
  /\ wire # <<>> /\ Fault /\ wire' = Tail(wire)
  /\ UNCHANGED <<client, consumers, conn>>

Delete ==
  /\ Fault /\ \E g \in DOMAIN consumers :
       consumers' = [h \in DOMAIN consumers \ {g} |-> consumers[h]]
  /\ UNCHANGED <<client, wire, conn>>

(* What was on its way is lost; messages sent meanwhile are lost as well.  *)
Disconnect ==
  /\ conn /\ Fault /\ conn' = FALSE /\ wire' = <<>>
  /\ UNCHANGED <<client, consumers>>

Reconnect ==
  /\ ~conn /\ conn' = TRUE
  /\ UNCHANGED <<client, consumers, wire, faults>>

(* The server sends to the deliver subject it knows of.                    *)
Serve ==
  /\ open
  /\ \/ \E g \in (gen - 1 .. gen) \cap DOMAIN consumers : Send(g)
     \/ gen \in DOMAIN consumers /\ Heartbeat(gen)

Next ==
  \/ Receive \/ Missed \/ Created \/ CreateFails \/ Close
  \/ ServerCreates \/ Serve \/ Lose \/ Delete \/ Disconnect \/ Reconnect

(* The client handles frames and intervals, the server serves the current  *)
(* consumer and answers, the connection comes back.                        *)
Fairness ==
  /\ WF_vars(Receive) /\ WF_vars(Missed) /\ WF_vars(Created) /\ WF_vars(ServerCreates)
  /\ WF_vars(open /\ gen \in DOMAIN consumers /\ (Send(gen) \/ Heartbeat(gen))) /\ WF_vars(Reconnect)

Spec == Init /\ [][Next]_vars /\ Fairness
----------------------------------------------------------------------------
(* The ordered push consumer is an ordered delivery: whatever frames,      *)
(* consumers and connections are lost, and however late the frames of an   *)
(* earlier deliver subject are, the user sees every message once and in    *)
(* order (jsclient.ts _checkOrderedConsumer, _resetOrderedConsumer).       *)
Promise == INSTANCE OrderedDelivery
PushIsOrdered == Promise!Spec
=============================================================================
