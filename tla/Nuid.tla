-------------------------------- MODULE Nuid --------------------------------
(* The identifiers of src/nats-base-client/nuid.ts, which name inboxes,    *)
(* requests and objects: a random prefix and a sequence of digits that     *)
(* grows by a random increment and starts again, with another prefix, when *)
(* it overflows. That two random prefixes are equal is left out.           *)
EXTENDS Naturals, FiniteSets

CONSTANTS
  base, seqLen,      \* the digits and the length of a sequence
  minInc, maxInc,    \* the range of the increment
  MaxDrawn           \* bound: identifiers drawn and resets

VARIABLES
  nuid,       \* [inited, pre, seq, inc]; a prefix is the number of its choice
  first,      \* the first sequence since the prefix was chosen
  drawn,      \* the identifiers given out
  draws       \* how often next() and reset() were called

nuidVars == <<nuid, first, drawn, draws>>

maxSeq == base ^ seqLen

NuidInit ==
  /\ nuid = [inited |-> FALSE, pre |-> 0, seq |-> 0, inc |-> 0]
  /\ first = 0 /\ drawn = {} /\ draws = 0
----------------------------------------------------------------------------
initSeqAndInc(n) ==
  {[n EXCEPT !.seq = s, !.inc = i] : s \in 0..(maxSeq - 1), i \in minInc..(maxInc - 1)}
setPre(n) == [n EXCEPT !.pre = @ + 1]
init(n) == initSeqAndInc(setPre([n EXCEPT !.inited = TRUE]))

(* The digits of the sequence, the last one first; what does not fit in    *)
(* them is cut.                                                            *)
fillSeq(n) == [i \in 1..seqLen |-> (n.seq \div base ^ (i - 1)) % base]
Id(n) == <<n.pre, fillSeq(n)>>

(* Faulty variant: the sequence is left to wrap around. *)
Overflows_Never(n) == FALSE

Overflows(n) == n.seq > maxSeq

next ==
  \E n \in (IF nuid.inited THEN {nuid} ELSE init(nuid)) :
    LET m == [n EXCEPT !.seq = @ + n.inc]
    IN \E k \in (IF Overflows(m) THEN initSeqAndInc(setPre(m)) ELSE {m}) :
         /\ nuid' = k /\ first' = IF k.pre = nuid.pre THEN first ELSE k.seq
         /\ drawn' = drawn \cup {Id(k)} /\ draws' = draws + 1

reset == \E n \in init(nuid) : nuid' = n /\ first' = n.seq /\ draws' = draws + 1 /\ UNCHANGED drawn

NuidNext == draws < MaxDrawn /\ (next \/ reset)
----------------------------------------------------------------------------
(* An identifier is not given out twice, up to and beyond the overflow of  *)
(* its sequence, except that a sequence which began with 0 and which hits  *)
(* base ^ seqLen exactly is cut to 0 again (nuid.ts next(), fillSeq()).    *)
NuidsDistinct ==
  [][drawn' = drawn /\ draws' > draws /\ nuid'.pre = nuid.pre =>
       first = 0 /\ nuid'.seq = maxSeq]_nuidVars
============================================================================
