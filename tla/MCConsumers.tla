----------------------------- MODULE MCConsumers -----------------------------
(* The consumers side by side, one of them in use: the pull consumer with  *)
(* small limits, by messages and by bytes, with an iterator and with a     *)
(* callback, bound or not, and fetch(); the ordered pull consumer in the   *)
(* ways it may be used; the ordered push consumer. Each has the faults     *)
(* that are of interest to it.                                             *)
EXTENDS PullConsumer, TLC

CONSTANTS
  First,         \* OrderedPull, OrderedPush: the first message asked for
  Ordered,       \* the last message of their stream
  OrderedUses, MaxFetches, MaxWire,  \* OrderedPull
  PushGen,       \* bound: deliver subjects of the push consumer
  PushFaults     \* bound: its faults

VARIABLES
  op_use, op_oc, op_iter, op_src, op_adds, op_delivered, op_cons, op_wire, op_conn, op_faults,
  push_sequence, push_gen, push_creates, push_name, push_open, push_missed,
  push_delivered, push_consumers, push_wire, push_conn, push_faults

OP ==
  INSTANCE OrderedPull WITH
    Messages <- Ordered, Scenarios <- OrderedUses,
    use <- op_use, oc <- op_oc, iter <- op_iter, src <- op_src, adds <- op_adds,
    delivered <- op_delivered, cons <- op_cons, wire <- op_wire, conn <- op_conn, faults <- op_faults

Push ==
  INSTANCE OrderedPush WITH
    Messages <- Ordered, MaxGen <- PushGen, MaxFaults <- PushFaults,
    sequence <- push_sequence, gen <- push_gen, creates <- push_creates, name <- push_name,
    open <- push_open, missed <- push_missed, delivered <- push_delivered,
    consumers <- push_consumers, wire <- push_wire, conn <- push_conn, faults <- push_faults

op == <<op_use, op_oc, op_iter, op_src, op_adds, op_delivered, op_cons, op_wire, op_conn, op_faults>>
push_ == <<push_sequence, push_gen, push_creates, push_name, push_open, push_missed,
           push_delivered, push_consumers, push_wire, push_conn, push_faults>>

ASSUME First \in Nat \ {0} /\ {Ordered, MaxFetches, MaxWire, PushGen, PushFaults} \subseteq Nat

MCInit ==
  \/ Init /\ OP!Unused /\ Push!Closed
  \/ Over /\ OP!Init   /\ Push!Closed
  \/ Over /\ OP!Unused /\ Push!Init
MCNext ==
  \/ Next      /\ UNCHANGED <<op, push_>>
  \/ OP!Next   /\ UNCHANGED <<vars, push_>>
  \/ Push!Next /\ UNCHANGED <<vars, op>>
MCSpec == MCInit /\ [][MCNext]_<<vars, op, push_>> /\ Fairness /\ OP!Fairness /\ Push!Fairness
----------------------------------------------------------------------------
Consume ==
  [refilling |-> TRUE, callback |-> FALSE, bind |-> FALSE, abort |-> FALSE,
   next |-> FALSE, patient |-> FALSE,
   max_messages |-> 2, max_bytes |-> 0, threshold_messages |-> 1, threshold_bytes |-> 0]
Called == [Consume EXCEPT !.callback = TRUE]
Fetch == [Consume EXCEPT !.refilling = FALSE]
NextOne == [Fetch EXCEPT !.next = TRUE, !.patient = TRUE, !.max_messages = 1]

With(a, f, r, p) == [args |-> a, faults |-> f, resets |-> r, pulls |-> p]
AllScenarios ==
  {With(Consume, {"disconnect"}, 1, 2),
   With(Consume, {"delete"}, 1, 1),
   With(Called, {"delete", "late"}, 2, 2),
   With([Called EXCEPT !.bind = TRUE], {"delete", "disconnect"}, 1, 2),
   With([Called EXCEPT !.abort = TRUE, !.threshold_messages = 0], {"delete", "throws"}, 2, 2),
   With([Called EXCEPT !.max_messages = 0, !.max_bytes = 5], {"reject", "late"}, 2, 2),
   With(Fetch, {"disconnect", "denied"}, 1, 1),
   With(NextOne, {"delete", "disconnect"}, 1, 1)}

Use(kind, fs, limit, n, serials) ==
  [kind |-> kind, faults |-> fs, limit |-> limit, adds |-> n, serials |-> serials]
AllUses ==
  {Use("iterate", {"lose", "lost", "close"}, 2, 1, 6),
   Use("iterate", {"delete", "disconnect"}, 2, 1, 6),
   Use("callback", {"lose", "lost", "disconnect"}, 1, 2, 5),
   Use("callback", {"stream", "info"}, 2, 1, 3),
   Use("next", {"lose", "lost"}, 2, 1, 6),
   Use("next", {"info"}, 0, 1, 3)}
Overlapping == {Use("callback", {"lose", "lost"}, 2, 2, 4)}
----------------------------------------------------------------------------
(* The ordered pull consumer is an ordered delivery: whatever is lost, and *)
(* however late the frames of an earlier source are, the user sees every   *)
(* message once and in order (consumer.ts internalHandler, reset,          *)
(* setSource). Not so when frames are lost while two resets wait for their *)
(* consumers: the run consumers_overlap shows it.                          *)
PullIsOrdered == OP!PullIsOrdered

(* A consume() that is not closed gets back to a source that reads from a  *)
(* consumer that exists, and whose messages are not ignored, for good:     *)
(* none of the resets that overlap leaves it behind a stale serial         *)
(* (consumer.ts resetConsumer, setSource).                                 *)
SourceRestored == OP!SourceRestored

(* The ordered push consumer is an ordered delivery: whatever frames,      *)
(* consumers and connections are lost, and however late the frames of an   *)
(* earlier deliver subject are, the user sees every message once and in    *)
(* order (jsclient.ts _checkOrderedConsumer, _resetOrderedConsumer).       *)
PushIsOrdered == Push!PushIsOrdered
=============================================================================
