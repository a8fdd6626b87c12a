----------------------------- MODULE OrderedPull -----------------------------
(***************************************************************************)
(* The ordered pull consumer (jetstream/consumer.ts): it reads the stream  *)
(* through a consumer of its own, checks the delivery sequence of every    *)
(* message and, on a gap or when its consumer is gone, creates another one *)
(* behind its cursor. The source is the PullConsumerMessagesImpl it reads  *)
(* from (module PullConsumer); here it is what it hands on, and that it    *)
(* notices when its consumer is gone. The server and the connection are    *)
(* external. A consumer is named by the serial it was created under.       *)
(***************************************************************************)
EXTENDS Integers, Sequences, FiniteSets

CONSTANTS
  First,      \* opt_start_seq, or 1
  Messages,   \* messages of the stream
  Scenarios,  \* how the consumer is used, what may go wrong and how often, and
              \* bounds: consumers created at a time and in all
  MaxFetches, \* bound: fetch() or next() calls
  MaxWire     \* bound: frames under way

VARIABLES
  use,        \* the scenario
  oc,         \* OrderedPullConsumerImpl
  iter,       \* its OrderedConsumerMessages
  src,        \* the source of iter
  adds,       \* calls of resetConsumer() that wait for api.add()
  delivered,  \* stream sequences the user has seen
  cons,       \* at the server: the consumers
  wire,       \* messages on their way to the client
  conn,
  faults

vars == <<use, oc, iter, src, adds, delivered, cons, wire, conn, faults>>
server == <<cons, wire, conn, faults>>

(* consume() with a callback or an iterator, fetch() and next(). *)
Kinds == {"callback", "iterate", "fetch", "next"}
Fetching == use.kind \in {"fetch", "next"}
----------------------------------------------------------------------------
NoSource == [id |-> 0, con |-> 0, handler |-> 0, on |-> FALSE, left |-> 0]
NoIter == [done |-> TRUE, yields |-> <<>>, inbatch |-> 0]
NewIter == [done |-> FALSE, yields |-> <<>>, inbatch |-> 0]

(* The iterator is done, and so is the loop over it. *)
Ended == iter.done /\ iter.inbatch = 0 /\ iter.yields = <<>>

(* getConsumerOpts(): the next serial names the consumer. *)
getConsumerOpts(o, seq, from) ==
  [con |-> o.serial + 1, start |-> IF seq = 0 THEN 1 ELSE seq, from |-> from]

(* resetConsumer() up to its wait: the old consumer is deleted, if the     *)
(* request gets through, and JetStream will renumber.                      *)
resetConsumer(o, seq, from) ==
  /\ Cardinality(adds) < use.adds /\ o.serial < use.serials
  /\ adds' = adds \cup {getConsumerOpts(o, seq, from)}
  /\ oc' = [o EXCEPT !.deliver_seq = 0, !.serial = @ + 1]
  /\ \/ cons' = cons
     \/ conn /\ cons' = [c \in DOMAIN cons \ {o.consumer} |-> cons[c]]

(* The source stops, and its cleanup handler stops the iterator at once. A *)
(* loop that waits for messages throws the error.                          *)
stop(err) ==
  /\ src' = [src EXCEPT !.on = FALSE]
  /\ iter' = [iter EXCEPT !.done = TRUE,
                          !.yields = IF err /\ iter.inbatch = 0 THEN <<>> ELSE @]

(* reset() from a source: the end of a fetch, or a new consumer. *)
(* Faulty variant: the new consumer starts at the last message seen. *)
orderedReset_Same(o) ==
  IF Fetching
  THEN stop(FALSE) /\ oc' = [o EXCEPT !.current = 0] /\ UNCHANGED <<adds, cons>>
  ELSE resetConsumer(o, o.stream_seq, "reset") /\ UNCHANGED <<src, iter>>
orderedReset(o) ==
  IF Fetching
  THEN stop(FALSE) /\ oc' = [o EXCEPT !.current = 0] /\ UNCHANGED <<adds, cons>>
  ELSE resetConsumer(o, o.stream_seq + 1, "reset") /\ UNCHANGED <<src, iter>>

(* The source of iter is replaced: the previous one stops, and no longer   *)
(* stops the iterator. The handler is that of the serial at this time.     *)
(* Faulty variant: the handler is that of the consumer, not of the latest serial. *)
setSource_Named(con) ==
  src' = [id |-> src.id + 1, con |-> con, handler |-> con, on |-> TRUE,
          left |-> IF use.kind = "next" THEN 1 ELSE 2]
setSource(con) ==
  src' = [id |-> src.id + 1, con |-> con, handler |-> oc.serial, on |-> TRUE,
          left |-> IF use.kind = "next" THEN 1 ELSE 2]
----------------------------------------------------------------------------
Created == [serial |-> 0, stream_seq |-> First - 1, deliver_seq |-> 0,
            current |-> 0, consumer |-> 0, consuming |-> FALSE]

Start ==
  /\ oc = Created /\ iter = NoIter /\ src = NoSource /\ adds = {} /\ delivered = <<>>
  /\ cons = [c \in {} |-> 0] /\ wire = <<>> /\ conn = TRUE /\ faults = 0

Init == Start /\ use \in Scenarios

(* The consumer nobody uses. *)
Unused == Start /\ use = [kind |-> "none", faults |-> {}, limit |-> 0, adds |-> 0, serials |-> 0]

Fault(kind) == kind \in use.faults /\ faults < use.limit /\ faults' = faults + 1

(* consume(), once. *)
consume ==
  /\ use.kind \in {"callback", "iterate"} /\ ~oc.consuming
  /\ IF oc.current = 0
     THEN /\ resetConsumer([oc EXCEPT !.consuming = TRUE], oc.stream_seq + 1, "consume")
          /\ UNCHANGED <<iter, src>>
     ELSE /\ oc' = [oc EXCEPT !.consuming = TRUE, !.consumer = oc.current]
          /\ iter' = NewIter /\ setSource(oc.current) /\ UNCHANGED <<adds, cons>>
  /\ UNCHANGED <<use, delivered, wire, conn, faults>>

(* fetch() and next(), when the loop over the one before is over; they     *)
(* share the consumer.                                                     *)
fetch ==
  /\ Fetching /\ Ended /\ src.id < MaxFetches
  /\ IF oc.current = 0
     THEN resetConsumer(oc, oc.stream_seq + 1, "fetch") /\ UNCHANGED <<iter, src>>
     ELSE /\ oc' = [oc EXCEPT !.consumer = oc.current]
          /\ iter' = NewIter /\ setSource(oc.current) /\ UNCHANGED <<adds, cons>>
  /\ UNCHANGED <<use, delivered, wire, conn, faults>>

(* api.add() succeeds, perhaps after errors and delays. An iterator that   *)
(* is done is kept for a reset.                                            *)
Added(a) ==
  /\ conn /\ adds' = adds \ {a}
  /\ cons' = [c \in DOMAIN cons \cup {a.con} |->
                IF c = a.con THEN [next |-> a.start, dseq |-> 0] ELSE cons[c]]
  /\ IF a.from = "info"
     THEN oc' = [oc EXCEPT !.current = a.con] /\ UNCHANGED <<iter, src>>
     ELSE /\ oc' = [oc EXCEPT !.current = a.con, !.consumer = a.con]
          /\ iter' = IF a.from = "reset" THEN iter ELSE NewIter
          /\ setSource(a.con)
  /\ UNCHANGED <<use, delivered, wire, conn, faults>>

(* The stream is gone: a fetch() fails, a consume() keeps trying unless it *)
(* aborts on missing resources.                                            *)
AddFails(a) ==
  /\ conn /\ Fault("stream") /\ adds' = adds \ {a}
  /\ stop(TRUE)
  /\ UNCHANGED <<use, oc, delivered, cons, wire, conn>>

(* internalHandler(serial), called by the source, which in a fetch() stops *)
(* behind the last message it asked for.                                   *)
internalHandler(f) ==
  IF oc.serial # src.handler THEN UNCHANGED <<oc, iter, src, adds, delivered, cons>>
  ELSE IF f.dseq # oc.deliver_seq + 1 THEN orderedReset(oc) /\ UNCHANGED delivered
  ELSE /\ oc' = [oc EXCEPT !.deliver_seq = f.dseq, !.stream_seq = f.sseq]
       /\ delivered' = IF use.kind \in {"callback", "next"} THEN Append(delivered, f.sseq) ELSE delivered
       /\ src' = [src EXCEPT !.left = IF Fetching THEN @ - 1 ELSE @, !.on = ~(Fetching /\ src.left = 1)]
       /\ iter' = [iter EXCEPT
                     !.yields = IF use.kind \in {"iterate", "fetch"} /\ ~iter.done THEN Append(@, f.sseq) ELSE @,
                     !.done = @ \/ (Fetching /\ src.left = 1)]
       /\ UNCHANGED <<adds, cons>>

Receive ==
  /\ conn /\ wire # <<>> /\ wire' = Tail(wire)
  /\ IF src.on /\ Head(wire).id = src.id
     THEN internalHandler(Head(wire))
     ELSE UNCHANGED <<oc, iter, src, adds, delivered, cons>>
  /\ UNCHANGED <<use, conn, faults>>

(* The source misses heartbeats, or sees a reconnect, and finds that its   *)
(* consumer is gone: the resetHandler of the ordered consumer. The source  *)
(* goes on to look until it is replaced.                                   *)
consumerNotFound ==
  /\ conn /\ src.on /\ wire = <<>> /\ src.con \notin DOMAIN cons
  /\ orderedReset(oc)
  /\ UNCHANGED <<use, delivered, wire, conn, faults>>

(* The pull of a fetch() expires, or its timer fires. *)
FetchExpires ==
  /\ Fetching /\ src.on /\ wire = <<>> /\ stop(FALSE)
  /\ UNCHANGED <<use, oc, adds, delivered, server>>

(* The loop of the user takes the messages it finds, one after the other;  *)
(* inbatch counts them down to the one the user is at.                     *)
Take ==
  /\ use.kind \in {"iterate", "fetch"} /\ iter.yields # <<>> /\ iter.inbatch # 1
  /\ delivered' = Append(delivered, Head(iter.yields))
  /\ iter' = [iter EXCEPT !.yields = Tail(@),
                          !.inbatch = IF @ = 0 THEN Len(iter.yields) ELSE @ - 1]
  /\ UNCHANGED <<use, oc, src, adds, server>>

(* Behind the last one it ends when the iterator was stopped meanwhile,    *)
(* and leaves what has come since then.                                    *)
EndBatch ==
  /\ iter.inbatch = 1
  /\ iter' = [iter EXCEPT !.inbatch = 0, !.yields = IF iter.done THEN <<>> ELSE @]
  /\ UNCHANGED <<use, oc, src, adds, delivered, server>>

Read == Take \/ EndBatch

Close ==
  /\ ~Fetching /\ "close" \in use.faults /\ ~iter.done /\ stop(FALSE)
  /\ UNCHANGED <<use, oc, adds, delivered, server>>

(* info() creates the consumer when there is none; delete() forgets it.    *)
info ==
  /\ "info" \in use.faults /\ oc.current = 0
  /\ resetConsumer(oc, First, "info")
  /\ UNCHANGED <<use, iter, src, delivered, wire, conn, faults>>

delete ==
  /\ oc.current # 0 /\ conn /\ Fault("delete")
  /\ cons' = [c \in DOMAIN cons \ {oc.current} |-> cons[c]]
  /\ oc' = [oc EXCEPT !.current = 0]
  /\ UNCHANGED <<use, iter, src, adds, delivered, wire, conn>>
----------------------------------------------------------------------------
(* External: the server sends what the source pulls; frames, connections   *)
(* and the consumer may be lost.                                           *)
Send ==
  /\ conn /\ src.on /\ src.con \in DOMAIN cons /\ Len(wire) < MaxWire
  /\ cons[src.con].next <= Messages
  /\ Fetching => Len(SelectSeq(wire, LAMBDA f : f.id = src.id)) < src.left
  /\ wire' = Append(wire, [id |-> src.id, dseq |-> cons[src.con].dseq + 1, sseq |-> cons[src.con].next])
  /\ cons' = [cons EXCEPT ![src.con] = [next |-> @.next + 1, dseq |-> @.dseq + 1]]
  /\ UNCHANGED <<use, oc, iter, src, adds, delivered, conn, faults>>

Lose ==
  /\ wire # <<>> /\ Fault("lose") /\ wire' = Tail(wire)
  /\ UNCHANGED <<use, oc, iter, src, adds, delivered, cons, conn>>

ConsumerLost ==
  /\ src.con \in DOMAIN cons /\ Fault("lost")
  /\ cons' = [c \in DOMAIN cons \ {src.con} |-> cons[c]]
  /\ UNCHANGED <<use, oc, iter, src, adds, delivered, wire, conn>>

Disconnect ==
  /\ conn /\ Fault("disconnect") /\ conn' = FALSE /\ wire' = <<>>
  /\ UNCHANGED <<use, oc, iter, src, adds, delivered, cons>>

Reconnect ==
  /\ ~conn /\ conn' = TRUE
  /\ UNCHANGED <<use, oc, iter, src, adds, delivered, cons, wire, faults>>

Add == \E a \in adds : Added(a) \/ AddFails(a)

Next ==
  \/ consume \/ fetch \/ Add \/ Receive \/ consumerNotFound \/ FetchExpires \/ Read
  \/ Close \/ info \/ delete
  \/ Send \/ Lose \/ ConsumerLost \/ Disconnect \/ Reconnect

(* The user calls consume() and reads; the event loop runs what is due;    *)
(* the server answers and serves, and the connection comes back.           *)
Fairness ==
  /\ WF_vars(consume) /\ WF_vars(Read) /\ WF_vars(Add) /\ WF_vars(Receive)
  /\ WF_vars(consumerNotFound) /\ WF_vars(Send) /\ WF_vars(Reconnect)

Spec == Init /\ [][Next]_vars /\ Fairness
----------------------------------------------------------------------------
(* The ordered pull consumer is an ordered delivery: whatever is lost, and *)
(* however late the frames of an earlier source are, the user sees every   *)
(* message once and in order (consumer.ts internalHandler, reset,          *)
(* setSource). Not so when frames are lost while two resets wait for their *)
(* consumers: the run consumers_overlap shows it.                          *)
Promise ==
  INSTANCE OrderedDelivery WITH open <- ~(oc.consuming /\ src.id > 0 /\ Ended)
PullIsOrdered == Promise!Safe

(* A consume() that is not closed gets back to a source that reads from a  *)
(* consumer that exists, and whose messages are not ignored, for good:     *)
(* none of the resets that overlap leaves it behind a stale serial.        *)
SourceRestored ==
  oc.consuming ~> [](\/ iter.done /\ adds = {}
                     \/ src.on /\ src.con \in DOMAIN cons /\ src.handler = oc.serial
                     \/ oc.serial = use.serials)
=============================================================================
