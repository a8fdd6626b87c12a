--------------------------- MODULE OrderedDelivery ---------------------------
(***************************************************************************)
(* What an ordered consumer promises (jetstream/types.ts, Consumers.get):  *)
(* its user sees the messages of the stream one after the other, from the  *)
(* first one it asked for, without a gap, a repetition or a change of      *)
(* order, until it is closed; and while it is open it sees all of them.    *)
(***************************************************************************)
EXTENDS Naturals, Sequences

CONSTANTS
  First,      \* the sequence the consumer starts at
  Messages    \* messages of the stream

VARIABLES
  delivered,  \* stream sequences the user has seen
  open

Init == delivered = <<>> /\ open \in BOOLEAN

(* A close that waited for this message takes effect with it. *)
Deliver ==
  /\ open /\ First + Len(delivered) <= Messages
  /\ delivered' = Append(delivered, First + Len(delivered))
  /\ open' \in BOOLEAN

Close == open /\ open' = FALSE /\ UNCHANGED delivered

Safe == Init /\ [][Deliver \/ Close]_<<delivered, open>>

Spec == Safe /\ WF_<<delivered, open>>(Deliver)
=============================================================================
