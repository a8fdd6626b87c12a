-------------------------- MODULE OrderedPullProofs --------------------------
(* The ordered pull consumer implements the ordered delivery, as far as    *)
(* safety goes, for a stream of any length, any number of faults,          *)
(* consumers and calls, as long as nothing happens of what section 3 of    *)
(* the README lists for it.                                                *)
EXTENDS OrderedPull, SequenceTheorems, FiniteSetTheorems, TLAPS

(* No reset begins while another one waits for its consumer.               *)
NoOverlap == Cardinality(adds') <= 1

(* info() does not make the consumer again after a fetch() or next() that  *)
(* has seen messages: it begins at the start.                              *)
InfoInTime == info => oc.consuming \/ oc.stream_seq < First

(* A user with a callback does not close during a reset, which leaves the  *)
(* new source running.                                                     *)
CloseInTime == Close /\ use.kind = "callback" => adds = {}

(* The iterator of a fetch() does not end while messages wait behind those *)
(* the user is at: its loop drops them.                                    *)
ReadInTime == EndBatch /\ use.kind = "fetch" /\ iter.done => iter.yields = <<>>

Calm == NoOverlap /\ InfoInTime /\ CloseInTime /\ ReadInTime
Undisturbed == [][Calm]_vars

-----------------------------------------------------------------------------
Frame == [id : Nat, dseq : Nat, sseq : Nat]
Request == [con : Nat, start : Nat, from : {"consume", "fetch", "reset", "info"}]
State == [serial : Nat, stream_seq : Nat, deliver_seq : Nat, current : Nat, consumer : Nat,
          consuming : BOOLEAN]
Iterator == [done : BOOLEAN, yields : Seq(Nat), inbatch : Nat]
Source == [id : Nat, con : Nat, handler : Nat, on : BOOLEAN, left : Int]
Consumer == [next : Nat, dseq : Nat]

Typed ==
  /\ use.kind \in Kinds
  /\ oc \in State /\ iter \in Iterator /\ src \in Source
  /\ IsFiniteSet(adds) /\ adds \in SUBSET Request
  /\ delivered \in Seq(Nat) /\ wire \in Seq(Frame)
  /\ \A c \in DOMAIN cons : c \in Nat /\ cons[c] \in Consumer

(* What the current consumer numbers 1 comes behind this message.          *)
Origin == oc.stream_seq - oc.deliver_seq

(* At most one request is under way, for the current serial, and it begins *)
(* behind the cursor; the source is an earlier one until it is answered.   *)
Asked ==
  /\ \A a, b \in adds : a = b
  /\ \A a \in adds :
       /\ a.con = oc.serial /\ src.handler # oc.serial
       /\ Fetching \/ ~oc.consuming => oc.current = 0
       /\ a.from # "info" \/ ~oc.consuming => a.start = Origin + 1
       /\ a.from = "consume" => src.id = 0 /\ oc.consuming
       /\ a.from = "reset" => src.id > 0 /\ oc.consuming
       /\ a.from = "fetch" => Fetching /\ Ended
       /\ Fetching => iter.yields = <<>>

(* Serials only grow; a source has the handler of its own consumer, and    *)
(* before consume() and between fetches the consumer is the latest.        *)
Known ==
  /\ Fetching => ~oc.consuming
  /\ (Fetching \/ ~oc.consuming) /\ oc.current # 0 => oc.current = oc.serial
  /\ src.handler <= oc.serial /\ src.handler = src.con
  /\ src.id = 0 => ~src.on
  /\ ~Fetching /\ ~oc.consuming => src.id = 0
  /\ \A c \in DOMAIN cons : c <= oc.serial

(* Whatever the source may hand on is numbered from the origin.            *)
Numbered ==
  /\ \A i \in 1..Len(wire) :
       /\ wire[i].id <= src.id /\ wire[i].sseq <= Messages
       /\ wire[i].id = src.id /\ src.handler = oc.serial => wire[i].sseq - wire[i].dseq = Origin
  /\ oc.serial \in DOMAIN cons /\ (src.handler = oc.serial \/ ~oc.consuming)
       => cons[oc.serial].next = cons[oc.serial].dseq + 1 + Origin

(* What the user has seen or will read are the messages from the first one *)
(* on, and up to the cursor, unless the iterator has ended.                *)
Seen == delivered \o iter.yields
Consecutive(q) == \A i \in 1..Len(q) : q[i] = First + i - 1 /\ q[i] <= Messages
Cursor ==
  /\ Consecutive(Seen)
  /\ use.kind # "iterate" \/ ~iter.done => oc.stream_seq = First + Len(Seen) - 1
  /\ src.id = 0 => Seen = <<>> /\ oc.stream_seq = First - 1
  /\ use.kind \in {"callback", "next"} => iter.yields = <<>> /\ iter.inbatch = 0
  /\ Fetching /\ src.on => ~iter.done

(* Nothing comes for a callback once its iterator has ended.               *)
Closed ==
  use.kind = "callback" /\ src.id > 0 /\ iter.done =>
    ~src.on /\ \A a \in adds : a.from = "info"

PullInv == Typed /\ Asked /\ Known /\ Numbered /\ Cursor /\ Closed

-----------------------------------------------------------------------------
LEMMA Single ==
  ASSUME NEW S, IsFiniteSet(S), Cardinality(S) <= 1 PROVE \A a, b \in S : a = b
<1>1. SUFFICES ASSUME NEW a \in S, NEW b \in S, a # b PROVE FALSE  OBVIOUS
<1>2. IsFiniteSet({a}) /\ Cardinality({a}) = 1  BY FS_Singleton
<1>3. Cardinality({a} \cup {b}) = 2  BY <1>1, <1>2, FS_AddElement
<1>4. {a} \cup {b} \subseteq S  OBVIOUS
<1>5. Cardinality({a} \cup {b}) <= Cardinality(S)  BY <1>4, FS_Subset
<1>6. Cardinality(S) \in Nat  BY FS_CardinalityType
<1>. QED  BY <1>3, <1>5, <1>6

(* Taking a frame from the wire, and adding one.                           *)
LEMMA Arrives ==
  ASSUME Typed, wire # <<>>
  PROVE  /\ Tail(wire) \in Seq(Frame)
         /\ Head(wire) = wire[1] /\ 1 \in 1..Len(wire) /\ Head(wire) \in Frame
         /\ \A i \in 1..Len(Tail(wire)) : i + 1 \in 1..Len(wire) /\ Tail(wire)[i] = wire[i + 1]
BY HeadTailProperties DEF Typed

LEMMA Departs ==
  ASSUME Typed, NEW f \in Frame
  PROVE  /\ Append(wire, f) \in Seq(Frame) /\ Len(Append(wire, f)) = Len(wire) + 1
         /\ \A i \in 1..Len(Append(wire, f)) :
              Append(wire, f)[i] = IF i <= Len(wire) THEN wire[i] ELSE f
BY AppendProperties DEF Typed

(* What the user sees, as one sequence.                                    *)
LEMMA SeenIs ==
  ASSUME Typed
  PROVE  /\ Seen \in Seq(Nat) /\ Len(Seen) = Len(delivered) + Len(iter.yields)
         /\ Len(delivered) \in Nat /\ Len(iter.yields) \in Nat
         /\ \A i \in 1..Len(Seen) :
              Seen[i] = IF i <= Len(delivered) THEN delivered[i] ELSE iter.yields[i - Len(delivered)]
<1>1. delivered \in Seq(Nat) /\ iter.yields \in Seq(Nat)  BY DEF Typed, Iterator
<1>. QED  BY <1>1, ConcatProperties DEF Seen

LEMMA PullInit ==
  ASSUME First \in Nat \ {0}, \A u \in Scenarios : u.kind \in Kinds, Init
  PROVE  PullInv
<1>. USE DEF Init, Start
<1>1. Typed
  <2>1. IsFiniteSet({})  BY FS_EmptySet
  <2>. QED  BY <2>1 DEF Typed, Created, NoIter, NoSource, State, Iterator, Source
<1>2. Asked /\ Known /\ Closed  BY DEF Asked, Known, Closed, Created, NoSource
<1>3. Numbered  BY DEF Numbered, Created
<1>4. Cursor
  <2>1. Seen = <<>>  BY DEF Seen, NoIter
  <2>. QED  BY <2>1 DEF Cursor, Consecutive, Created, NoIter, NoSource, Fetching
<1>. QED  BY <1>1, <1>2, <1>3, <1>4 DEF PullInv

(* The consumers at the server, when some of them are gone.                *)
Fewer == DOMAIN cons' \subseteq DOMAIN cons /\ \A c \in DOMAIN cons' : cons'[c] = cons[c]

(* resetConsumer() makes a request only when there is none.                *)
LEMMA Requests ==
  ASSUME Typed, Asked, NEW o, o.serial = oc.serial, NEW from \in {"consume", "fetch", "reset", "info"},
         NEW seq \in Nat, resetConsumer(o, seq, from), NoOverlap
  PROVE  /\ adds = {} /\ Fewer /\ IsFiniteSet(adds') /\ adds' \in SUBSET Request
         /\ adds' = {[con |-> oc.serial + 1, start |-> IF seq = 0 THEN 1 ELSE seq, from |-> from]}
         /\ oc' = [o EXCEPT !.deliver_seq = 0, !.serial = @ + 1]
<1>. DEFINE n == [con |-> oc.serial + 1, start |-> IF seq = 0 THEN 1 ELSE seq, from |-> from]
<1>1. adds' = adds \cup {n} /\ oc' = [o EXCEPT !.deliver_seq = 0, !.serial = @ + 1] /\ Fewer
  BY DEF resetConsumer, getConsumerOpts, Fewer
<1>2. n \in Request  BY DEF Typed, State, Request
<1>3. IsFiniteSet(adds')  BY <1>1, FS_AddElement DEF Typed
<1>4. adds = {}
  <2>1. SUFFICES ASSUME NEW a \in adds PROVE FALSE  OBVIOUS
  <2>2. a = n
    <3>1. a \in adds' /\ n \in adds'  BY <1>1
    <3>2. \A x, y \in adds' : x = y  BY <1>3, Single DEF NoOverlap
    <3>. QED  BY <3>1, <3>2
  <2>3. a.con = oc.serial /\ n.con = oc.serial + 1  BY DEF Asked
  <2>. QED  BY <2>2, <2>3 DEF Typed, State
<1>. QED  BY <1>1, <1>2, <1>3, <1>4 DEF Typed

(* When it is called, and with what. *)
MayAsk(o, seq, from) ==
  \/ /\ from = "consume" /\ ~Fetching /\ ~oc.consuming /\ o = [oc EXCEPT !.consuming = TRUE]
     /\ oc.current = 0 /\ seq = oc.stream_seq + 1
  \/ from = "fetch" /\ Fetching /\ Ended /\ oc.current = 0 /\ o = oc /\ seq = oc.stream_seq + 1
  \/ from = "reset" /\ ~Fetching /\ src.on /\ o = oc /\ seq = oc.stream_seq + 1
  \/ from = "info" /\ oc.current = 0 /\ o = oc /\ seq = First /\ (oc.consuming \/ oc.stream_seq < First)

LEMMA AskKeeps ==
  ASSUME PullInv, First \in Nat \ {0}, NEW o, NEW seq, NEW from, MayAsk(o, seq, from),
         resetConsumer(o, seq, from), NoOverlap,
         UNCHANGED <<use, iter, src, delivered>>, wire' \in Seq(Frame),
         \A i \in 1..Len(wire') : \E j \in 1..Len(wire) : wire'[i] = wire[j]
  PROVE  PullInv'
<1>. USE DEF PullInv
<1>1. /\ seq \in Nat \ {0} /\ from \in {"consume", "fetch", "reset", "info"} /\ o.serial = oc.serial
      /\ o \in State /\ o.stream_seq = oc.stream_seq /\ o.current = oc.current
      /\ (from = "consume" => o.consuming) /\ (from # "consume" => o = oc)
  <2>1. oc \in State /\ [oc EXCEPT !.consuming = TRUE] \in State  BY DEF Typed, State
  <2>2. seq \in Nat \ {0}  BY DEF MayAsk, Typed, State
  <2>3. CASE from = "consume"
    <3>1. o = [oc EXCEPT !.consuming = TRUE]  BY <2>3 DEF MayAsk
    <3>. QED  BY <2>1, <2>2, <2>3, <3>1 DEF State
  <2>4. CASE from # "consume"
    <3>1. o = oc /\ from \in {"fetch", "reset", "info"}  BY <2>4 DEF MayAsk
    <3>. QED  BY <2>1, <2>2, <2>4, <3>1
  <2>. QED  BY <2>3, <2>4
<1>2. /\ adds = {} /\ Fewer /\ IsFiniteSet(adds') /\ adds' \in SUBSET Request
      /\ adds' = {[con |-> oc.serial + 1, start |-> seq, from |-> from]}
      /\ oc' = [o EXCEPT !.deliver_seq = 0, !.serial = @ + 1]
  <2>1. (IF seq = 0 THEN 1 ELSE seq) = seq /\ seq \in Nat  BY <1>1
  <2>. HIDE DEF PullInv
  <2>2. Typed /\ Asked  BY DEF PullInv
  <2>3. /\ adds = {} /\ Fewer /\ IsFiniteSet(adds') /\ adds' \in SUBSET Request
        /\ adds' = {[con |-> oc.serial + 1, start |-> IF seq = 0 THEN 1 ELSE seq, from |-> from]}
        /\ oc' = [o EXCEPT !.deliver_seq = 0, !.serial = @ + 1]
    <3>1. o.serial = oc.serial /\ from \in {"consume", "fetch", "reset", "info"}  BY <1>1
    <3>. QED  BY <3>1, <2>1, <2>2, Requests
  <2>. QED  BY <2>1, <2>3
<1>3. /\ oc' \in State /\ oc'.serial = oc.serial + 1 /\ oc'.stream_seq = oc.stream_seq /\ oc'.deliver_seq = 0
      /\ oc'.current = oc.current /\ oc'.consuming = o.consuming
  <2>1. o.serial + 1 \in Nat  BY <1>1 DEF State
  <2>. QED  BY <1>1, <1>2, <2>1 DEF State
<1>4. oc.serial \in Nat /\ oc.stream_seq \in Nat /\ src.handler \in Nat /\ src.id \in Nat
  BY DEF Typed, State, Source
<1>5. Typed'  BY <1>2, <1>3 DEF Typed, Fewer
<1>6. Seen' = Seen /\ Ended' = Ended /\ Fetching' = Fetching  BY DEF Seen, Ended, Fetching
<1>7. Cursor'  BY <1>3, <1>6 DEF Cursor, Consecutive
<1>8. Known'
  <2>1. src.handler <= oc'.serial  BY <1>3, <1>4 DEF Known
  <2>2. \A c \in DOMAIN cons' : c <= oc'.serial  BY <1>2, <1>3, <1>4 DEF Known, Fewer, Typed
  <2>3. Fetching => ~oc'.consuming  BY <1>3 DEF MayAsk, Known
  <2>4. (Fetching \/ ~oc'.consuming) => oc'.current = 0
    <3>1. CASE from = "consume"  BY <1>1, <1>3, <3>1 DEF MayAsk
    <3>2. CASE from = "reset"
      <4>1. ~Fetching /\ src.on  BY <3>2 DEF MayAsk
      <4>2. oc.consuming  BY <4>1 DEF Known
      <4>. QED  BY <1>1, <1>3, <3>2, <4>1, <4>2
    <3>3. CASE from \in {"fetch", "info"}  BY <1>3, <3>3 DEF MayAsk
    <3>. QED  BY <1>1, <3>1, <3>2, <3>3
  <2>5. ~Fetching /\ ~oc'.consuming => src.id = 0  BY <1>1, <1>3 DEF Known
  <2>. QED  BY <1>6, <2>1, <2>2, <2>3, <2>4, <2>5 DEF Known
<1>9. Asked'
  <2>1. Origin' = oc.stream_seq  BY <1>3, <1>4 DEF Origin
  <2>0. from # "consume" => oc'.consuming = oc.consuming  BY <1>1, <1>3
  <2>2. ASSUME from = "info", ~oc.consuming PROVE oc.stream_seq = First - 1
    <3>1. oc.stream_seq < First  BY <2>2 DEF MayAsk
    <3>2. CASE ~Fetching  BY <2>2, <3>2 DEF Known, Cursor
    <3>3. CASE Fetching
      <4>1. oc.stream_seq = First + Len(Seen) - 1 /\ Len(Seen) \in Nat  BY <3>3, SeenIs DEF Cursor, Fetching
      <4>. QED  BY <3>1, <4>1, <1>4
    <3>. QED  BY <3>2, <3>3
  <2>3. ASSUME from # "info" \/ ~oc'.consuming PROVE seq = Origin' + 1
    <3>1. CASE from = "info"
      <4>1. ~oc.consuming  BY <2>0, <2>3, <3>1
      <4>2. seq = First  BY <3>1 DEF MayAsk
      <4>. QED  BY <2>1, <2>2, <3>1, <4>1, <4>2, <1>4
    <3>2. CASE from # "info"
      <4>1. seq = oc.stream_seq + 1  BY <3>2 DEF MayAsk
      <4>. QED  BY <2>1, <4>1
    <3>. QED  BY <3>1, <3>2
  <2>4. src.handler # oc'.serial  BY <1>3, <1>4 DEF Known
  <2>5. from = "consume" => src.id = 0 /\ oc'.consuming  BY <1>1, <1>3 DEF MayAsk, Known
  <2>6. from = "reset" => src.id > 0 /\ oc'.consuming  BY <1>3, <1>4 DEF MayAsk, Known
  <2>7. from = "fetch" => Fetching /\ Ended  BY DEF MayAsk
  <2>8. Fetching \/ ~oc'.consuming => oc'.current = 0  BY <1>3 DEF MayAsk, Known
  <2>9. ASSUME Fetching PROVE iter.yields = <<>>
    <3>1. CASE from = "fetch"  BY <3>1 DEF MayAsk, Ended
    <3>2. CASE from = "info"
      <4>1. ~oc.consuming  BY <2>9 DEF Known
      <4>2. oc.stream_seq = First - 1  BY <2>2, <3>2, <4>1
      <4>3. oc.stream_seq = First + Len(Seen) - 1  BY <2>9 DEF Cursor, Fetching
      <4>4. Len(iter.yields) = 0  BY <4>2, <4>3, SeenIs
      <4>5. iter.yields \in Seq(Nat)  BY DEF Typed, Iterator
      <4>. QED  BY <4>4, <4>5, EmptySeq
    <3>. QED  BY <2>9, <3>1, <3>2 DEF MayAsk
  <2>. QED  BY <1>2, <1>3, <1>6, <2>3, <2>4, <2>5, <2>6, <2>7, <2>8, <2>9 DEF Asked
<1>10. Numbered'
  <2>1. oc'.serial \notin DOMAIN cons'  BY <1>2, <1>3, <1>4 DEF Known, Fewer
  <2>2. src'.handler # oc'.serial  BY <1>3, <1>4 DEF Known
  <2>. QED  BY <2>1, <2>2 DEF Numbered
<1>11. Closed'  BY <1>2, <1>4 DEF Closed, MayAsk, Known, Fetching
<1>. QED  BY <1>5, <1>7, <1>8, <1>9, <1>10, <1>11

(* The frames under way are some of those there were.                      *)
Passes ==
  wire' \in Seq(Frame) /\ \A i \in 1..Len(wire') : \E j \in 1..Len(wire) : wire'[i] = wire[j]

LEMMA WirePasses ==
  ASSUME Typed, \/ wire' = wire
                \/ wire # <<>> /\ wire' = Tail(wire)
                \/ wire' = <<>>
  PROVE  Passes
<1>1. CASE wire' = wire  BY <1>1 DEF Passes, Typed
<1>2. CASE wire # <<>> /\ wire' = Tail(wire)  BY <1>2, Arrives DEF Passes
<1>3. CASE wire' = <<>>
  <2>1. <<>> \in Seq(Frame) /\ Len(<<>>) = 0  OBVIOUS
  <2>. QED  BY <1>3, <2>1 DEF Passes
<1>. QED  BY <1>1, <1>2, <1>3

(* A loss, and what the client ignores: only delete() changes more than    *)
(* the server and the wire.                                                *)
LEMMA LossKeeps ==
  ASSUME PullInv, Passes, Fewer, UNCHANGED <<use, iter, src, adds, delivered>>,
         oc' = oc \/ oc' = [oc EXCEPT !.current = 0]
  PROVE  PullInv'
<1>. USE DEF PullInv
<1>1. /\ oc' \in State /\ oc'.serial = oc.serial /\ oc'.stream_seq = oc.stream_seq
      /\ oc'.deliver_seq = oc.deliver_seq /\ oc'.consuming = oc.consuming
      /\ (oc'.current = oc.current \/ oc'.current = 0)
  BY DEF Typed, State
<1>2. Origin' = Origin /\ Seen' = Seen /\ Ended' = Ended /\ Fetching' = Fetching
  BY <1>1 DEF Origin, Seen, Ended, Fetching
<1>3. Typed'  BY <1>1 DEF Typed, Passes, Fewer
<1>4. Asked'  BY <1>1, <1>2 DEF Asked
<1>5. Known'  BY <1>1, <1>2 DEF Known, Fewer
<1>6. Numbered'  BY <1>1, <1>2 DEF Numbered, Passes, Fewer
<1>7. Cursor'  BY <1>1, <1>2 DEF Cursor, Consecutive
<1>8. Closed'  BY DEF Closed
<1>. QED  BY <1>3, <1>4, <1>5, <1>6, <1>7, <1>8

(* The source stops and the iterator ends; a fetch() forgets its consumer. *)
LEMMA StopKeeps ==
  ASSUME PullInv, Passes, UNCHANGED <<use, delivered, cons>>,
         \/ stop(FALSE)
         \/ stop(TRUE) /\ (Fetching => iter.yields = <<>>),
         oc' = oc \/ (Fetching /\ oc' = [oc EXCEPT !.current = 0]),
         adds' = adds \/ adds' = {},
         use.kind = "callback" => adds' = {}
  PROVE  PullInv'
<1>. USE DEF PullInv
<1>1. /\ oc' \in State /\ oc'.serial = oc.serial /\ oc'.stream_seq = oc.stream_seq
      /\ oc'.deliver_seq = oc.deliver_seq /\ oc'.consuming = oc.consuming
      /\ (oc'.current = oc.current \/ (Fetching /\ oc'.current = 0))
  BY DEF Typed, State
<1>2. /\ src' \in Source /\ src'.id = src.id /\ src'.con = src.con /\ src'.handler = src.handler
      /\ ~src'.on
  BY DEF Typed, Source, stop
<1>3. /\ iter' \in Iterator /\ iter'.done /\ iter'.inbatch = iter.inbatch
      /\ iter'.yields = iter.yields \/ (iter'.yields = <<>> /\ (Fetching => iter.yields = <<>>))
  <2>1. CASE stop(FALSE)
    <3>1. iter' = [iter EXCEPT !.done = TRUE]  BY <2>1 DEF stop, Typed, Iterator
    <3>2. TRUE \in BOOLEAN  OBVIOUS
    <3>. QED  BY <3>1, <3>2 DEF Typed, Iterator
  <2>2. CASE stop(TRUE) /\ (Fetching => iter.yields = <<>>)
    <3>1. iter' = [iter EXCEPT !.done = TRUE, !.yields = IF iter.inbatch = 0 THEN <<>> ELSE @]
      BY <2>2 DEF stop
    <3>2. <<>> \in Seq(Nat)  OBVIOUS
    <3>. QED  BY <2>2, <3>1, <3>2 DEF Typed, Iterator
  <2>. QED  BY <2>1, <2>2
<1>5. Origin' = Origin /\ Fetching' = Fetching /\ (Ended => Ended')
  BY <1>1, <1>3 DEF Origin, Ended, Fetching
<1>6. Typed'
  <2>1. IsFiniteSet({})  BY FS_EmptySet
  <2>. QED  BY <1>1, <1>2, <1>3, <2>1 DEF Typed, Passes
<1>7. iter'.yields = iter.yields \/ (iter'.yields = <<>> /\ use.kind = "iterate")
  <2>1. CASE Fetching  BY <1>3, <2>1
  <2>2. CASE use.kind = "callback"
    <3>1. iter.yields = <<>>  BY <2>2 DEF Cursor
    <3>. QED  BY <1>3, <3>1
  <2>3. use.kind \in {"iterate", "callback"} \/ Fetching  BY DEF Fetching, Typed, Kinds
  <2>. QED  BY <1>3, <2>1, <2>2, <2>3
<1>8. Asked'
  <2>1. \A a \in adds' : a \in adds  OBVIOUS
  <2>2. ASSUME Fetching, iter.yields = <<>> PROVE iter'.yields = <<>>  BY <1>3, <2>2
  <2>. QED  BY <1>1, <1>2, <1>5, <2>1, <2>2 DEF Asked
<1>9. Known'  BY <1>1, <1>2, <1>5 DEF Known
<1>10. Numbered'
  <2>1. UNCHANGED <<cons, Origin>> /\ src'.id = src.id /\ src'.handler = src.handler
        /\ oc'.serial = oc.serial /\ oc'.consuming = oc.consuming
    BY <1>1, <1>2, <1>5
  <2>. QED  BY <2>1 DEF Numbered, Passes
<1>11. Cursor'
  <2>1. CASE iter'.yields = iter.yields
    <3>1. Seen' = Seen  BY <2>1 DEF Seen
    <3>. QED  BY <1>1, <1>2, <1>3, <1>5, <2>1, <3>1 DEF Cursor, Consecutive
  <2>2. CASE iter'.yields = <<>> /\ use.kind = "iterate"
    <3>1. Typed /\ Typed'  BY <1>6
    <3>2. /\ Len(Seen') = Len(delivered) /\ Len(delivered) <= Len(Seen) /\ Len(delivered) \in Nat
          /\ Len(Seen) \in Nat /\ \A i \in 1..Len(delivered) : Seen'[i] = Seen[i]
      <4>0. /\ Seen' \in Seq(Nat) /\ Len(Seen') = Len(delivered) + 0
            /\ \A i \in 1..Len(Seen') : Seen'[i] = delivered[i]
        BY <2>2, ConcatProperties, <3>1 DEF Seen, Typed
      <4>1. Len(delivered) \in Nat  BY <3>1, SeenIs
      <4>2. Len(Seen') = Len(delivered)  BY <4>0, <4>1
      <4>3. \A i \in 1..Len(delivered) : i \in 1..Len(Seen)  BY <3>1, SeenIs
      <4>. HIDE DEF PullInv
      <4>. QED  BY <3>1, <4>0, <4>1, <4>2, <4>3, SeenIs
    <3>3. Consecutive(Seen)'  BY <3>2 DEF Cursor, Consecutive
    <3>4. src.id = 0 => Seen' = <<>>
      <4>1. Seen = <<>> => Len(Seen') = 0  BY <3>2
      <4>2. Seen' \in Seq(Nat)  BY <2>2, ConcatProperties, <3>1 DEF Seen, Typed
      <4>. QED  BY <4>1, <4>2, EmptySeq DEF Cursor
    <3>. QED  BY <1>1, <1>2, <1>3, <1>5, <2>2, <3>3, <3>4 DEF Cursor, Fetching
  <2>. QED  BY <1>7, <2>1, <2>2
<1>12. Closed'  BY <1>2 DEF Closed
<1>. QED  BY <1>6, <1>8, <1>9, <1>10, <1>11, <1>12

(* iter gets another source, which reads from the consumer made last.      *)
LEMMA BindKeeps ==
  ASSUME PullInv, First \in Nat \ {0},
         oc' \in State, oc'.serial = oc.serial, oc'.stream_seq = oc.stream_seq,
         oc'.deliver_seq = oc.deliver_seq, Fetching <=> ~oc'.consuming,
         Fetching => oc'.current = oc.serial,
         adds' = {}, setSource(oc.serial),
         \/ iter' = NewIter /\ iter.yields = <<>> /\ (Fetching \/ src.id = 0)
         \/ iter' = iter /\ ~Fetching /\ (use.kind = "callback" => ~iter.done),
         \A c \in DOMAIN cons' : c \in Nat /\ c <= oc.serial /\ cons'[c] \in Consumer,
         oc.serial \in DOMAIN cons' => cons'[oc.serial].next = cons'[oc.serial].dseq + 1 + Origin,
         UNCHANGED <<use, delivered, wire>>
  PROVE  PullInv'
<1>. USE DEF PullInv
<1>1. /\ oc.serial \in Nat /\ src.id \in Nat /\ src' \in Source
      /\ src'.id = src.id + 1 /\ src'.con = oc.serial /\ src'.handler = oc.serial
  BY DEF setSource, Typed, State, Source
<1>2. Origin' = Origin /\ Fetching' = Fetching  BY DEF Origin, Fetching
<1>3. iter' \in Iterator /\ iter'.yields = iter.yields
  <2>1. <<>> \in Seq(Nat)  OBVIOUS
  <2>2. NewIter = [done |-> FALSE, yields |-> <<>>, inbatch |-> 0]  BY DEF NewIter
  <2>3. NewIter \in Iterator  BY <2>1, <2>2 DEF Iterator
  <2>4. NewIter.yields = <<>>  BY <2>2
  <2>5. iter \in Iterator  BY DEF Typed
  <2>. QED  BY <2>3, <2>4, <2>5
<1>4. Typed'
  <2>1. IsFiniteSet({})  BY FS_EmptySet
  <2>. QED  BY <1>1, <1>3, <2>1 DEF Typed
<1>5. Asked' /\ Known'  BY <1>1, <1>2 DEF Asked, Known
<1>6. Numbered'
  <2>1. \A i \in 1..Len(wire) : wire[i] \in Frame /\ wire[i].id <= src.id  BY DEF Numbered, Typed
  <2>2. \A i \in 1..Len(wire) : wire[i].id <= src'.id /\ wire[i].id # src'.id
    BY <1>1, <2>1 DEF Frame
  <2>. QED  BY <1>1, <1>2, <2>2 DEF Numbered
<1>7. Cursor'
  <2>1. Seen' = Seen  BY <1>3 DEF Seen
  <2>2. iter' = NewIter => ~iter'.done /\ iter'.inbatch = 0  BY DEF NewIter
  <2>3. Len(<<>>) = 0  OBVIOUS
  <2>4. use.kind # "iterate" \/ ~iter'.done => oc.stream_seq = First + Len(Seen) - 1
    <3>1. CASE src.id = 0
      <4>1. Len(Seen) = 0  BY <3>1, <2>3 DEF Cursor
      <4>2. oc.stream_seq = First - 1  BY <3>1 DEF Cursor
      <4>. QED  BY <4>1, <4>2
    <3>2. CASE src.id # 0  BY <3>2 DEF Cursor, Fetching
    <3>. QED  BY <3>1, <3>2
  <2>. QED  BY <1>1, <1>2, <1>3, <2>1, <2>2, <2>4 DEF Cursor, Consecutive
<1>8. Closed'  BY DEF Closed, NewIter, Fetching
<1>. QED  BY <1>4, <1>5, <1>6, <1>7, <1>8

(* info() leaves the source alone. *)
LEMMA InfoKeeps ==
  ASSUME PullInv, NEW a \in adds, a.from = "info", adds' = adds \ {a},
         oc' = [oc EXCEPT !.current = a.con], 
         cons' = [c \in DOMAIN cons \cup {a.con} |->
                    IF c = a.con THEN [next |-> a.start, dseq |-> 0] ELSE cons[c]],
         UNCHANGED <<use, iter, src, delivered, wire>>
  PROVE  PullInv'
<1>. USE DEF PullInv
<1>1. adds' = {} /\ a.con = oc.serial /\ a \in Request  BY DEF Asked, Typed
<1>2. /\ oc' \in State /\ oc'.serial = oc.serial /\ oc'.stream_seq = oc.stream_seq
      /\ oc'.deliver_seq = oc.deliver_seq /\ oc'.consuming = oc.consuming /\ oc'.current = oc.serial
  BY <1>1 DEF Typed, State, Request
<1>3. /\ DOMAIN cons' = DOMAIN cons \cup {oc.serial}
      /\ cons'[oc.serial] = [next |-> a.start, dseq |-> 0]
      /\ \A c \in DOMAIN cons : c # oc.serial => cons'[c] = cons[c]
  BY <1>1
<1>4. Origin' = Origin /\ Fetching' = Fetching /\ Seen' = Seen
  BY <1>2 DEF Origin, Fetching, Seen
<1>5. Typed'
  <2>1. IsFiniteSet({})  BY FS_EmptySet
  <2>2. [next |-> a.start, dseq |-> 0] \in Consumer /\ oc.serial \in Nat
    BY <1>1 DEF Request, Consumer, Typed, State
  <2>. QED  BY <1>1, <1>2, <1>3, <2>1, <2>2 DEF Typed
<1>6. Asked'  BY <1>1 DEF Asked
<1>7. Known'
  <2>1. oc.serial \in Nat  BY DEF Typed, State
  <2>. QED  BY <1>2, <1>3, <1>4, <2>1 DEF Known
<1>8. Numbered'
  <2>1. ASSUME src.handler = oc.serial \/ ~oc.consuming PROVE a.start = Origin + 1
    BY <2>1 DEF Asked
  <2>2. src.handler # oc.serial  BY DEF Asked
  <2>3. Origin \in Int  BY DEF Origin, Typed, State
  <2>4. (src.handler = oc.serial \/ ~oc.consuming) => a.start = 0 + 1 + Origin  BY <2>1, <2>3
  <2>. QED  BY <1>2, <1>3, <1>4, <2>2, <2>4 DEF Numbered
<1>9. Cursor'  BY <1>2, <1>4 DEF Cursor, Consecutive
<1>10. Closed'  BY <1>1 DEF Closed
<1>. QED  BY <1>5, <1>6, <1>7, <1>8, <1>9, <1>10

(* The server sends the next message of the consumer the source reads.     *)
LEMMA SendKeeps ==
  ASSUME PullInv, Messages \in Nat, Send PROVE PullInv'
<1>. USE DEF PullInv
<1>. DEFINE f == [id |-> src.id, dseq |-> cons[src.con].dseq + 1, sseq |-> cons[src.con].next]
            c == cons[src.con]
<1>1. /\ src.con \in DOMAIN cons /\ c.next <= Messages /\ wire' = Append(wire, f)
      /\ cons' = [cons EXCEPT ![src.con] = [next |-> @.next + 1, dseq |-> @.dseq + 1]]
      /\ UNCHANGED <<use, oc, iter, src, adds, delivered>>
  BY DEF Send
<1>2. c \in Consumer /\ src.con \in Nat /\ src.id \in Nat  BY <1>1 DEF Typed, Source
<1>3. f \in Frame /\ f.id = src.id /\ f.dseq = c.dseq + 1 /\ f.sseq = c.next
  BY <1>2 DEF Frame, Consumer
<1>4. /\ DOMAIN cons' = DOMAIN cons
      /\ \A d \in DOMAIN cons : d # src.con => cons'[d] = cons[d]
      /\ cons'[src.con].next = c.next + 1 /\ cons'[src.con].dseq = c.dseq + 1
      /\ cons'[src.con] \in Consumer
  BY <1>1, <1>2 DEF Consumer
<1>5. /\ wire' \in Seq(Frame) /\ Len(wire') = Len(wire) + 1
      /\ \A i \in 1..Len(wire') : wire'[i] = IF i <= Len(wire) THEN wire[i] ELSE f
  <2>. HIDE DEF PullInv, f
  <2>1. Typed  BY DEF PullInv
  <2>. QED  BY <1>1, <1>3, <2>1, Departs
<1>6. Origin' = Origin /\ Seen' = Seen /\ Ended' = Ended /\ Fetching' = Fetching
  BY <1>1 DEF Origin, Seen, Ended, Fetching
<1>7. Typed'
  <2>1. \A d \in DOMAIN cons' : d \in Nat /\ cons'[d] \in Consumer
    <3>1. \A d \in DOMAIN cons : d \in Nat /\ cons[d] \in Consumer  BY DEF Typed
    <3>. QED  BY <1>4, <3>1
  <2>. QED  BY <1>1, <1>5, <2>1 DEF Typed
<1>8. Asked' /\ Known'  BY <1>1, <1>4, <1>6 DEF Asked, Known
<1>9. Numbered'
  <2>0. Origin \in Int /\ src.id \in Nat /\ oc.serial \in Nat  BY <1>2 DEF Origin, Typed, State
  <2>1. ASSUME src.handler = oc.serial PROVE src.con = oc.serial /\ c.next = c.dseq + 1 + Origin
    <3>1. src.con = oc.serial  BY <2>1 DEF Known
    <3>. QED  BY <1>1, <2>1, <3>1 DEF Numbered
  <2>2. ASSUME NEW i \in 1..Len(wire')
        PROVE  /\ wire'[i].id <= src.id /\ wire'[i].sseq <= Messages
               /\ wire'[i].id = src.id /\ src.handler = oc.serial => wire'[i].sseq - wire'[i].dseq = Origin
    <3>0. Len(wire) \in Nat  BY DEF Typed
    <3>1. CASE i <= Len(wire)
      <4>1. i \in 1..Len(wire) /\ wire'[i] = wire[i]  BY <1>5, <3>0, <3>1
      <4>. QED  BY <4>1 DEF Numbered
    <3>2. CASE ~(i <= Len(wire))
      <4>1. wire'[i] = f  BY <1>5, <3>2
      <4>2. f.id <= src.id /\ f.sseq <= Messages  BY <1>1, <1>3, <2>0
      <4>3. src.handler = oc.serial => f.sseq - f.dseq = Origin
        BY <1>2, <1>3, <2>0, <2>1 DEF Consumer
      <4>. QED  BY <4>1, <4>2, <4>3
    <3>. QED  BY <3>1, <3>2
  <2>3. ASSUME oc.serial \in DOMAIN cons, src.handler = oc.serial \/ ~oc.consuming
        PROVE  cons'[oc.serial].next = cons'[oc.serial].dseq + 1 + Origin
    <3>1. cons[oc.serial].next = cons[oc.serial].dseq + 1 + Origin  BY <2>3 DEF Numbered
    <3>2. cons[oc.serial] \in Consumer  BY <2>3 DEF Typed
    <3>3. CASE oc.serial = src.con  BY <1>4, <2>0, <3>1, <3>2, <3>3 DEF Consumer
    <3>4. CASE oc.serial # src.con  BY <1>4, <2>3, <3>1, <3>4
    <3>. QED  BY <3>3, <3>4
  <2>. QED  BY <1>1, <1>4, <1>6, <2>2, <2>3 DEF Numbered
<1>10. Cursor' /\ Closed'  BY <1>1, <1>6 DEF Cursor, Consecutive, Closed
<1>. QED  BY <1>7, <1>8, <1>9, <1>10

(* Moving the head of a sequence behind another one changes nothing.       *)
LEMMA Reads ==
  ASSUME NEW d \in Seq(Nat), NEW y \in Seq(Nat), y # <<>>
  PROVE  /\ Append(d, Head(y)) \o Tail(y) = d \o y
         /\ Len(d) + 1 \in 1..Len(d \o y) /\ (d \o y)[Len(d) + 1] = Head(y)
<1>1. /\ Len(y) \in Nat \ {0} /\ Head(y) = y[1] /\ Head(y) \in Nat /\ Tail(y) \in Seq(Nat)
      /\ Len(Tail(y)) = Len(y) - 1 /\ \A i \in 1..Len(Tail(y)) : Tail(y)[i] = y[i + 1]
  BY HeadTailProperties, EmptySeq
<1>. DEFINE h == Head(y)
            t == Tail(y)
            e == Append(d, h)
<1>2. /\ e \in Seq(Nat) /\ Len(e) = Len(d) + 1
      /\ \A i \in 1..Len(e) : e[i] = IF i <= Len(d) THEN d[i] ELSE h
  BY <1>1, AppendProperties
<1>3. /\ e \o t \in Seq(Nat) /\ Len(e \o t) = Len(e) + Len(t)
      /\ \A i \in 1..Len(e \o t) : (e \o t)[i] = IF i <= Len(e) THEN e[i] ELSE t[i - Len(e)]
  <2>. HIDE DEF e, t
  <2>1. t \in Seq(Nat)  BY <1>1 DEF t
  <2>. QED  BY <1>2, <2>1, ConcatProperties
<1>4. /\ d \o y \in Seq(Nat) /\ Len(d \o y) = Len(d) + Len(y)
      /\ \A i \in 1..Len(d \o y) : (d \o y)[i] = IF i <= Len(d) THEN d[i] ELSE y[i - Len(d)]
  BY ConcatProperties
<1>5. Len(d) \in Nat  OBVIOUS
<1>. HIDE DEF e, t, h
<1>6. Len(e \o t) = Len(d \o y)  BY <1>1, <1>2, <1>3, <1>4, <1>5 DEF t
<1>7. ASSUME NEW i \in 1..Len(e \o t) PROVE (e \o t)[i] = (d \o y)[i]
  <2>0. i \in Int /\ Len(e) = Len(d) + 1 /\ Len(e \o t) \in Nat  BY <1>2, <1>3
  <2>1. CASE i <= Len(d)
    <3>1. i \in 1..Len(e)  BY <1>5, <2>0, <2>1
    <3>. QED  BY <1>2, <1>3, <1>4, <1>5, <1>6, <2>0, <2>1, <3>1
  <2>2. CASE i = Len(d) + 1
    <3>1. i \in 1..Len(e) /\ ~(i <= Len(d)) /\ i - Len(d) = 1  BY <1>5, <2>0, <2>2
    <3>2. (e \o t)[i] = h  BY <1>2, <1>3, <2>0, <2>2, <3>1
    <3>3. (d \o y)[i] = y[1]  BY <1>4, <1>6, <3>1
    <3>. QED  BY <1>1, <3>2, <3>3 DEF h
  <2>3. CASE i > Len(d) + 1
    <3>1. i - Len(e) \in 1..Len(t) /\ (i - Len(e)) + 1 = i - Len(d) /\ ~(i <= Len(d)) /\ ~(i <= Len(e))
      BY <1>1, <1>3, <1>5, <2>0, <2>3 DEF t
    <3>2. (e \o t)[i] = t[i - Len(e)]  BY <1>3, <3>1
    <3>3. t[i - Len(e)] = y[i - Len(d)]  BY <1>1, <3>1 DEF t
    <3>4. (d \o y)[i] = y[i - Len(d)]  BY <1>4, <1>6, <3>1
    <3>. QED  BY <3>2, <3>3, <3>4
  <2>4. i <= Len(d) \/ i = Len(d) + 1 \/ i > Len(d) + 1  BY <1>5, <2>0
  <2>. QED  BY <2>1, <2>2, <2>3, <2>4
<1>8. e \o t = d \o y  BY <1>3, <1>4, <1>6, <1>7, SeqEqual
<1>9. Len(d) + 1 \in 1..Len(d \o y) /\ (d \o y)[Len(d) + 1] = Head(y)  BY <1>1, <1>4, <1>5
<1>. QED  BY <1>8, <1>9 DEF e, t, h

LEMMA AppendBehind ==
  ASSUME NEW d \in Seq(Nat), NEW y \in Seq(Nat), NEW m \in Nat
  PROVE  d \o Append(y, m) = Append(d \o y, m)
<1>1. /\ Append(y, m) \in Seq(Nat) /\ Len(Append(y, m)) = Len(y) + 1
      /\ \A i \in 1..Len(Append(y, m)) : Append(y, m)[i] = IF i <= Len(y) THEN y[i] ELSE m
  BY AppendProperties
<1>2. /\ d \o y \in Seq(Nat) /\ Len(d \o y) = Len(d) + Len(y)
      /\ \A i \in 1..Len(d \o y) : (d \o y)[i] = IF i <= Len(d) THEN d[i] ELSE y[i - Len(d)]
  BY ConcatProperties
<1>. DEFINE p == Append(y, m)
            q == d \o y
<1>. HIDE DEF p, q
<1>3. /\ d \o p \in Seq(Nat) /\ Len(d \o p) = Len(d) + Len(p)
      /\ \A i \in 1..Len(d \o p) : (d \o p)[i] = IF i <= Len(d) THEN d[i] ELSE p[i - Len(d)]
  <2>1. p \in Seq(Nat)  BY <1>1 DEF p
  <2>. QED  BY <2>1, ConcatProperties
<1>4. /\ Append(q, m) \in Seq(Nat) /\ Len(Append(q, m)) = Len(q) + 1
      /\ \A i \in 1..Len(Append(q, m)) : Append(q, m)[i] = IF i <= Len(q) THEN q[i] ELSE m
  <2>1. q \in Seq(Nat)  BY <1>2 DEF q
  <2>. QED  BY <2>1, AppendProperties
<1>5. Len(d) \in Nat /\ Len(y) \in Nat /\ Len(p) = Len(y) + 1 /\ Len(q) = Len(d) + Len(y)
  BY <1>1, <1>2 DEF p, q
<1>6. Len(d \o p) = Len(Append(q, m))  BY <1>3, <1>4, <1>5
<1>7. ASSUME NEW i \in 1..Len(d \o p) PROVE (d \o p)[i] = Append(q, m)[i]
  <2>0. i \in Int /\ 1 <= i /\ i <= Len(d) + Len(y) + 1 /\ i \in 1..Len(Append(q, m))
    BY <1>3, <1>4, <1>5, <1>6
  <2>1. CASE i <= Len(d)
    <3>1. i <= Len(q) /\ i \in 1..Len(q)  BY <1>5, <2>0, <2>1
    <3>2. Append(q, m)[i] = q[i]  BY <1>4, <2>0, <3>1
    <3>3. q[i] = d[i]  BY <1>2, <2>1, <3>1 DEF q
    <3>. QED  BY <1>3, <2>1, <3>2, <3>3
  <2>2. CASE i > Len(d) /\ i <= Len(q)
    <3>1. i \in 1..Len(q) /\ ~(i <= Len(d)) /\ i - Len(d) \in 1..Len(p) /\ i - Len(d) <= Len(y)
      BY <1>5, <2>0, <2>2
    <3>2. Append(q, m)[i] = q[i]  BY <1>4, <2>0, <2>2
    <3>3. q[i] = y[i - Len(d)]  BY <1>2, <3>1 DEF q
    <3>4. p[i - Len(d)] = y[i - Len(d)]  BY <1>1, <3>1 DEF p
    <3>. QED  BY <1>3, <3>1, <3>2, <3>3, <3>4
  <2>3. CASE i > Len(q)
    <3>1. ~(i <= Len(q)) /\ ~(i <= Len(d)) /\ i - Len(d) \in 1..Len(p) /\ ~(i - Len(d) <= Len(y))
      BY <1>5, <2>0, <2>3
    <3>2. Append(q, m)[i] = m  BY <1>4, <2>0, <3>1
    <3>3. p[i - Len(d)] = m  BY <1>1, <3>1 DEF p
    <3>. QED  BY <1>3, <3>1, <3>2, <3>3
  <2>4. i <= Len(d) \/ (i > Len(d) /\ i <= Len(q)) \/ i > Len(q)  BY <1>5, <2>0
  <2>. QED  BY <2>1, <2>2, <2>3, <2>4
<1>8. d \o p = Append(q, m)  BY <1>3, <1>4, <1>6, <1>7, SeqEqual
<1>. QED  BY <1>8 DEF p, q

(* The loop of the user hands on what is the next message of the stream.   *)
LEMMA TakeKeeps ==
  ASSUME PullInv, First \in Nat \ {0}, Take
  PROVE  /\ PullInv'
         /\ delivered' = Append(delivered, First + Len(delivered)) /\ First + Len(delivered) <= Messages
<1>. USE DEF PullInv
<1>1. /\ use.kind \in {"iterate", "fetch"} /\ iter.yields # <<>> /\ iter.inbatch # 1
      /\ delivered' = Append(delivered, Head(iter.yields))
      /\ iter' = [iter EXCEPT !.yields = Tail(@),
                              !.inbatch = IF @ = 0 THEN Len(iter.yields) ELSE @ - 1]
      /\ UNCHANGED <<use, oc, src, adds, cons, wire>>
  BY DEF Take, server
<1>. DEFINE y == iter.yields
            k == Len(delivered)
<1>2. y \in Seq(Nat) /\ iter \in Iterator /\ delivered \in Seq(Nat) /\ k \in Nat /\ Len(y) \in Nat
  BY DEF Typed, Iterator
<1>3. /\ Len(y) > 0 /\ Head(y) = y[1] /\ Head(y) \in Nat /\ Tail(y) \in Seq(Nat) /\ Len(Tail(y)) = Len(y) - 1
      /\ \A i \in 1..Len(Tail(y)) : Tail(y)[i] = y[i + 1]
  BY <1>1, <1>2, HeadTailProperties, EmptySeq
<1>4. /\ iter' \in Iterator /\ iter'.done = iter.done /\ iter'.yields = Tail(y)
  <2>1. (IF iter.inbatch = 0 THEN Len(y) ELSE iter.inbatch - 1) \in Nat  BY <1>1, <1>2 DEF Iterator
  <2>. QED  BY <1>1, <1>2, <1>3, <2>1 DEF Iterator
<1>5. delivered' \in Seq(Nat)  BY <1>1, <1>2, <1>3, AppendProperties
<1>6. Typed'  BY <1>1, <1>4, <1>5 DEF Typed
<1>7. k + 1 \in 1..Len(delivered \o y) /\ (delivered \o y)[k + 1] = Head(y)
      /\ Append(delivered, Head(y)) \o Tail(y) = delivered \o y
  <2>. HIDE DEF PullInv
  <2>. QED  BY <1>1, <1>2, Reads
<1>8. Seen' = Seen  BY <1>1, <1>4, <1>7 DEF Seen
<1>9. Head(y) = First + k /\ First + k <= Messages
  <2>1. (delivered \o y)[k + 1] = First + (k + 1) - 1 /\ (delivered \o y)[k + 1] <= Messages
    BY <1>7 DEF Cursor, Consecutive, Seen
  <2>. QED  BY <1>2, <1>7, <2>1
<1>10. Origin' = Origin /\ Fetching' = Fetching  BY <1>1 DEF Origin, Fetching
<1>11. Asked'  BY <1>1, <1>10 DEF Asked
<1>12. Known' /\ Numbered'  BY <1>1, <1>10 DEF Known, Numbered
<1>13. Cursor'  BY <1>1, <1>4, <1>8, <1>10 DEF Cursor, Consecutive
<1>14. Closed'  BY <1>1 DEF Closed
<1>. QED  BY <1>1, <1>6, <1>9, <1>11, <1>12, <1>13, <1>14

(* Behind a batch: what is dropped is nothing the cursor is about.         *)
LEMMA EndBatchKeeps ==
  ASSUME PullInv, First \in Nat \ {0}, EndBatch, ReadInTime PROVE PullInv'
<1>. USE DEF PullInv
<1>1. /\ iter.inbatch = 1
      /\ iter' = [iter EXCEPT !.inbatch = 0, !.yields = IF iter.done THEN <<>> ELSE @]
      /\ UNCHANGED <<use, oc, src, adds, delivered, cons, wire>>
  BY DEF EndBatch, server
<1>2. /\ iter' \in Iterator /\ iter'.done = iter.done /\ iter'.inbatch = 0
      /\ iter'.yields = IF iter.done THEN <<>> ELSE iter.yields
  <2>1. <<>> \in Seq(Nat)  OBVIOUS
  <2>. QED  BY <1>1, <2>1 DEF Typed, Iterator
<1>3. use.kind \in {"iterate", "fetch"}  BY <1>1 DEF Cursor, Typed, Kinds
<1>4. Typed'  BY <1>1, <1>2 DEF Typed
<1>5. iter'.yields = iter.yields \/ (iter'.yields = <<>> /\ use.kind = "iterate" /\ iter.done)
  <2>1. use.kind = "fetch" /\ iter.done => iter.yields = <<>>  BY DEF ReadInTime
  <2>. QED  BY <1>2, <1>3, <2>1
<1>6. Origin' = Origin /\ Fetching' = Fetching  BY <1>1 DEF Origin, Fetching
<1>7. Asked'
  <2>1. \A a \in adds : a.from # "fetch"  BY <1>1 DEF Asked, Ended
  <2>2. Fetching => iter'.yields = iter.yields  BY <1>5 DEF Fetching
  <2>. QED  BY <1>1, <1>6, <2>1, <2>2 DEF Asked
<1>8. Known' /\ Numbered'  BY <1>1, <1>6 DEF Known, Numbered
<1>9. Cursor'
  <2>1. CASE iter'.yields = iter.yields
    <3>1. Seen' = Seen  BY <1>1, <2>1 DEF Seen
    <3>. QED  BY <1>1, <1>2, <1>3, <1>6, <2>1, <3>1 DEF Cursor, Consecutive
  <2>2. CASE iter'.yields = <<>> /\ use.kind = "iterate" /\ iter.done
    <3>1. /\ Seen' = delivered /\ Len(delivered) <= Len(Seen) /\ Len(delivered) \in Nat
          /\ \A i \in 1..Len(delivered) : i \in 1..Len(Seen) /\ Seen[i] = delivered[i]
      <4>1. Seen' = delivered \o <<>> /\ delivered \in Seq(Nat)  BY <1>1, <2>2 DEF Seen, Typed
      <4>2. Seen' = delivered  BY <4>1, ConcatEmptySeq
      <4>. HIDE DEF PullInv
      <4>3. Typed  BY DEF PullInv
      <4>. QED  BY <4>2, <4>3, SeenIs
    <3>2. Consecutive(Seen)'  BY <3>1 DEF Cursor, Consecutive
    <3>3. Seen = <<>> => Seen' = <<>>
      <4>1. Seen = <<>> => Len(delivered) = 0  BY <3>1
      <4>2. delivered \in Seq(Nat)  BY DEF Typed
      <4>. QED  BY <3>1, <4>1, <4>2, EmptySeq
    <3>. QED  BY <1>1, <1>2, <1>6, <2>2, <3>2, <3>3 DEF Cursor, Fetching
  <2>. QED  BY <1>5, <2>1, <2>2
<1>10. Closed'  BY <1>1, <1>3 DEF Closed
<1>. QED  BY <1>4, <1>7, <1>8, <1>9, <1>10

(* The user gets the message behind those it has seen.                     *)
Hands == delivered' = Append(delivered, First + Len(delivered)) /\ First + Len(delivered) <= Messages

(* A message the handler accepts is the next one.                          *)
LEMMA AcceptKeeps ==
  ASSUME PullInv, First \in Nat \ {0}, Messages \in Nat, wire # <<>>, wire' = Tail(wire),
         UNCHANGED <<use, conn, faults>>, src.on, Head(wire).id = src.id,
         oc.serial = src.handler, Head(wire).dseq = oc.deliver_seq + 1, internalHandler(Head(wire))
  PROVE  /\ PullInv' /\ oc'.consuming = oc.consuming /\ src'.id = src.id
         /\ \/ Hands /\ use.kind \in {"callback", "next"} /\ (use.kind = "callback" => ~iter.done)
            \/ delivered' = delivered /\ (Ended /\ ~Fetching => Ended')
<1>. DEFINE f == wire[1]
<1>1. Head(wire) = f /\ f \in Frame /\ Passes  BY Arrives, WirePasses DEF PullInv
<1>. USE DEF PullInv
<1>2. /\ oc' = [oc EXCEPT !.deliver_seq = f.dseq, !.stream_seq = f.sseq]
      /\ delivered' = IF use.kind \in {"callback", "next"} THEN Append(delivered, f.sseq) ELSE delivered
      /\ src' = [src EXCEPT !.left = IF Fetching THEN @ - 1 ELSE @, !.on = ~(Fetching /\ src.left = 1)]
      /\ iter' = [iter EXCEPT
                    !.yields = IF use.kind \in {"iterate", "fetch"} /\ ~iter.done THEN Append(@, f.sseq) ELSE @,
                    !.done = @ \/ (Fetching /\ src.left = 1)]
      /\ UNCHANGED <<adds, cons>>
  BY <1>1 DEF internalHandler
<1>3. /\ oc' \in State /\ oc'.serial = oc.serial /\ oc'.stream_seq = f.sseq /\ oc'.deliver_seq = f.dseq
      /\ oc'.current = oc.current /\ oc'.consuming = oc.consuming
  BY <1>1, <1>2 DEF Typed, State, Frame
<1>4. f.sseq = oc.stream_seq + 1 /\ f.sseq <= Messages /\ f.sseq - f.dseq = Origin
  <2>1. 1 \in 1..Len(wire)
    <3>. HIDE DEF PullInv
    <3>. QED  BY Arrives DEF PullInv
  <2>2. f.sseq <= Messages /\ f.sseq - f.dseq = Origin  BY <1>1, <2>1 DEF Numbered
  <2>3. f.dseq = oc.deliver_seq + 1  BY <1>1
  <2>4. oc.stream_seq \in Nat /\ oc.deliver_seq \in Nat /\ f.sseq \in Nat
    BY <1>1 DEF Typed, State, Frame
  <2>. QED  BY <2>2, <2>3, <2>4 DEF Origin
<1>5. /\ src' \in Source /\ src'.id = src.id /\ src'.con = src.con /\ src'.handler = src.handler
      /\ src'.on = ~(Fetching /\ src.left = 1)
  <2>1. (IF Fetching THEN src.left - 1 ELSE src.left) \in Int  BY DEF Typed, Source
  <2>2. (~(Fetching /\ src.left = 1)) \in BOOLEAN  OBVIOUS
  <2>. QED  BY <1>2, <2>1, <2>2 DEF Typed, Source
<1>6. /\ iter'.inbatch = iter.inbatch /\ iter'.done = (iter.done \/ (Fetching /\ src.left = 1))
      /\ iter'.yields = IF use.kind \in {"iterate", "fetch"} /\ ~iter.done
                        THEN Append(iter.yields, f.sseq) ELSE iter.yields
  BY <1>2 DEF Typed, Iterator
<1>7. f.sseq \in Nat /\ delivered \in Seq(Nat) /\ iter.yields \in Seq(Nat)
  BY <1>1 DEF Typed, Iterator, Frame
<1>8. iter' \in Iterator
  <2>1. (iter.done \/ (Fetching /\ src.left = 1)) \in BOOLEAN  OBVIOUS
  <2>2. (IF use.kind \in {"iterate", "fetch"} /\ ~iter.done
         THEN Append(iter.yields, f.sseq) ELSE iter.yields) \in Seq(Nat)
    BY <1>7, AppendProperties
  <2>. QED  BY <1>2, <2>1, <2>2 DEF Typed, Iterator
<1>9. Origin' = Origin /\ Fetching' = Fetching  BY <1>3, <1>4 DEF Origin, Fetching
<1>10. delivered' \in Seq(Nat)  BY <1>2, <1>7, AppendProperties
<1>11. Typed'  BY <1>2, <1>3, <1>5, <1>8, <1>10, <1>1 DEF Typed, Passes
<1>12. adds = {}  BY DEF Asked
<1>13. Asked'  BY <1>2, <1>12 DEF Asked
<1>14. Known'  BY <1>2, <1>3, <1>5, <1>9 DEF Known
<1>15. Numbered'
  <2>1. /\ UNCHANGED <<cons, Origin>> /\ src'.id = src.id /\ src'.handler = src.handler
        /\ oc'.serial = oc.serial /\ oc'.consuming = oc.consuming
    BY <1>2, <1>3, <1>5, <1>9
  <2>. QED  BY <1>1, <2>1 DEF Numbered, Passes
<1>16. src.id # 0  BY DEF Known
<1>17. Fetching => ~iter.done  BY DEF Cursor
<1>18. use.kind = "callback" => ~iter.done  BY <1>16 DEF Closed, Typed, Source
<1>19. /\ Seen \in Seq(Nat) /\ Len(Seen) = Len(delivered) + Len(iter.yields) /\ Len(Seen) \in Nat
       /\ Append(Seen, f.sseq) \in Seq(Nat) /\ Len(Append(Seen, f.sseq)) = Len(Seen) + 1
       /\ \A i \in 1..Len(Append(Seen, f.sseq)) :
            Append(Seen, f.sseq)[i] = IF i <= Len(Seen) THEN Seen[i] ELSE f.sseq
  <2>1. Seen \in Seq(Nat) /\ Len(Seen) = Len(delivered) + Len(iter.yields)
    <3>. HIDE DEF PullInv
    <3>. QED  BY SeenIs DEF PullInv
  <2>2. ASSUME NEW q \in Seq(Nat), NEW m \in Nat
        PROVE  /\ Len(q) \in Nat /\ Append(q, m) \in Seq(Nat) /\ Len(Append(q, m)) = Len(q) + 1
               /\ \A i \in 1..Len(Append(q, m)) : Append(q, m)[i] = IF i <= Len(q) THEN q[i] ELSE m
    BY AppendProperties
  <2>. HIDE DEF PullInv, f
  <2>. QED  BY <1>7, <2>1, <2>2
<1>20. CASE use.kind = "iterate" /\ iter.done
  <2>1. /\ delivered' = delivered /\ iter'.yields = iter.yields /\ iter'.done
    BY <1>2, <1>6, <1>20
  <2>2. Seen' = Seen  BY <2>1 DEF Seen
  <2>3. Cursor'  BY <1>3, <1>5, <1>16, <1>20, <2>1, <2>2, <1>9 DEF Cursor, Consecutive, Fetching
  <2>4. Closed'  BY <1>20 DEF Closed
  <2>5. Ended => Ended'  BY <1>6, <2>1 DEF Ended
  <2>. QED  BY <1>3, <1>5, <1>11, <1>13, <1>14, <1>15, <2>1, <2>3, <2>4, <2>5
<1>21. CASE ~(use.kind = "iterate" /\ iter.done)
  <2>0. ~iter.done \/ use.kind = "next"  BY <1>17, <1>18, <1>21 DEF Typed, Kinds, Fetching
  <2>1. f.sseq = First + Len(Seen)
    <3>1. oc.stream_seq = First + Len(Seen) - 1  BY <1>21 DEF Cursor
    <3>. QED  BY <1>4, <1>19, <3>1
  <2>2. Seen' = Append(Seen, f.sseq)
    <3>1. CASE use.kind \in {"callback", "next"}
      <4>1. iter.yields = <<>> /\ iter'.yields = <<>>  BY <1>6, <3>1 DEF Cursor
      <4>2. Seen = delivered /\ Seen' = delivered'
        BY <1>7, <1>10, <4>1, ConcatEmptySeq DEF Seen
      <4>. QED  BY <1>2, <3>1, <4>2
    <3>2. CASE use.kind \in {"iterate", "fetch"}
      <4>1. ~iter.done  BY <2>0, <3>2
      <4>2. delivered' = delivered /\ iter'.yields = Append(iter.yields, f.sseq)
        BY <1>2, <1>6, <3>2, <4>1
      <4>3. Seen' = delivered \o Append(iter.yields, f.sseq)  BY <4>2 DEF Seen
      <4>4. delivered \o Append(iter.yields, f.sseq) = Append(delivered \o iter.yields, f.sseq)
        <5>. HIDE DEF f, PullInv
        <5>. QED  BY <1>7, AppendBehind
      <4>. QED  BY <4>3, <4>4 DEF Seen
    <3>. QED  BY <3>1, <3>2 DEF Typed, Kinds
  <2>3. Consecutive(Seen)'
    <3>1. ASSUME NEW i \in 1..Len(Append(Seen, f.sseq))
          PROVE  /\ Append(Seen, f.sseq)[i] = First + i - 1 /\ Append(Seen, f.sseq)[i] <= Messages
      <4>1. CASE i <= Len(Seen)
        <5>1. i \in 1..Len(Seen)  BY <1>19, <4>1
        <5>2. Seen[i] = First + i - 1 /\ Seen[i] <= Messages  BY <5>1 DEF Cursor, Consecutive
        <5>. QED  BY <1>19, <4>1, <5>2
      <4>2. CASE ~(i <= Len(Seen))
        <5>1. i = Len(Seen) + 1 /\ Append(Seen, f.sseq)[i] = f.sseq  BY <1>19, <4>2
        <5>. QED  BY <1>4, <1>19, <2>1, <5>1
      <4>. QED  BY <4>1, <4>2
    <3>. QED  BY <2>2, <3>1 DEF Consecutive
  <2>4. Cursor'
    <3>1. oc'.stream_seq = First + Len(Seen') - 1
      <4>1. Len(Seen') = Len(Seen) + 1  BY <1>19, <2>2
      <4>2. oc'.stream_seq = First + Len(Seen)  BY <1>3, <2>1
      <4>3. Len(Seen) \in Nat  BY <1>19
      <4>. HIDE DEF f, PullInv
      <4>. QED  BY <4>1, <4>2, <4>3
    <3>2. use.kind \in {"callback", "next"} => iter'.yields = <<>> /\ iter'.inbatch = 0
      BY <1>6 DEF Cursor
    <3>3. Fetching /\ src'.on => ~iter'.done  BY <1>5, <1>6, <1>17
    <3>. QED  BY <1>2, <1>5, <1>9, <1>16, <2>3, <3>1, <3>2, <3>3 DEF Cursor
  <2>5. Closed'  BY <1>6, <1>18 DEF Closed, Fetching
  <2>6. CASE use.kind \in {"callback", "next"}
    <3>1. Seen = delivered
      <4>1. iter.yields = <<>>  BY <2>6 DEF Cursor
      <4>. QED  BY <1>7, <4>1, ConcatEmptySeq DEF Seen
    <3>2. Hands  BY <1>2, <1>4, <2>1, <2>6, <3>1 DEF Hands
    <3>. QED  BY <1>3, <1>5, <1>11, <1>13, <1>14, <1>15, <1>18, <2>4, <2>5, <2>6, <3>2
  <2>7. CASE use.kind \in {"iterate", "fetch"}
    <3>1. delivered' = delivered  BY <1>2, <2>7
    <3>2. ~Ended  BY <2>0, <2>7 DEF Ended
    <3>. QED  BY <1>3, <1>5, <1>11, <1>13, <1>14, <1>15, <2>4, <2>5, <3>1, <3>2
  <2>. QED  BY <2>6, <2>7 DEF Typed, Kinds
<1>. QED  BY <1>20, <1>21

(* Open for the user, and a step of the promise.                           *)
Open == ~(oc.consuming /\ src.id > 0 /\ Ended)
Kept == [Promise!Deliver \/ Promise!Close]_<<delivered, Open>>

LEMMA Silent ==
  ASSUME delivered' = delivered, ~Open => ~Open' PROVE Kept
<1>1. CASE Open /\ ~Open'  BY <1>1 DEF Kept, Promise!Close, Open
<1>2. CASE Open /\ Open'  BY <1>2 DEF Kept, Open
<1>3. CASE ~Open /\ ~Open'  BY <1>3 DEF Kept, Open
<1>. QED  BY <1>1, <1>2, <1>3

LEMMA Handed ==
  ASSUME Hands, Open PROVE Kept
BY DEF Kept, Promise!Deliver, Open, Hands

(* A reset on a gap, or when the consumer is gone.                         *)
LEMMA ResetKeeps ==
  ASSUME PullInv, First \in Nat \ {0}, src.on, orderedReset(oc), Passes, NoOverlap,
         UNCHANGED <<use, delivered>>
  PROVE  PullInv' /\ Kept
<1>1. CASE Fetching
  <2>1. /\ stop(FALSE) /\ oc' = [oc EXCEPT !.current = 0] /\ UNCHANGED <<adds, cons>>
    BY <1>1 DEF orderedReset
  <2>2. use.kind # "callback"  BY <1>1 DEF Fetching
  <2>3. PullInv'  BY <1>1, <2>1, <2>2, StopKeeps
  <2>4. Open
    <3>1. ~oc.consuming  BY <1>1 DEF PullInv, Known
    <3>. QED  BY <3>1 DEF Open
  <2>. QED  BY <2>3, <2>4, Silent
<1>2. CASE ~Fetching
  <2>1. resetConsumer(oc, oc.stream_seq + 1, "reset") /\ UNCHANGED <<src, iter>>
    BY <1>2 DEF orderedReset
  <2>2. MayAsk(oc, oc.stream_seq + 1, "reset")  BY <1>2 DEF MayAsk
  <2>3. PullInv'
    <3>1. wire' \in Seq(Frame) /\ \A i \in 1..Len(wire') : \E j \in 1..Len(wire) : wire'[i] = wire[j]
      BY DEF Passes
    <3>. QED  BY <2>1, <2>2, <3>1, AskKeeps
  <2>4. oc'.consuming = oc.consuming
    <3>1. oc' = [oc EXCEPT !.deliver_seq = 0, !.serial = @ + 1]  BY <2>1 DEF resetConsumer
    <3>. QED  BY <3>1 DEF PullInv, Typed, State
  <2>5. ~Open => ~Open'  BY <2>1, <2>4 DEF Open, Ended
  <2>. QED  BY <2>3, <2>5, Silent
<1>. QED  BY <1>1, <1>2

(* Every step keeps the invariant and is one the promise allows.           *)
LEMMA PullStep ==
  ASSUME PullInv, First \in Nat \ {0}, Messages \in Nat, Calm, [Next]_vars
  PROVE  PullInv' /\ Kept
<1>0. /\ Typed /\ Asked /\ Known /\ Numbered /\ Cursor /\ Closed
      /\ NoOverlap /\ InfoInTime /\ CloseInTime /\ ReadInTime
  BY DEF PullInv, Calm
<1>1. CASE UNCHANGED vars
  <2>1. Passes /\ Fewer  BY <1>0, <1>1, WirePasses DEF vars, Fewer
  <2>2. PullInv'  BY <1>1, <2>1, LossKeeps DEF vars
  <2>. QED  BY <1>1, <2>2, Silent DEF vars, Open, Ended
<1>2. CASE consume
  <2>0. /\ use.kind \in {"callback", "iterate"} /\ ~oc.consuming /\ ~Fetching
        /\ UNCHANGED <<use, delivered, wire>> /\ src.id = 0 /\ Passes
    BY <1>0, <1>2, WirePasses DEF consume, Fetching, Known
  <2>1. Open  BY <2>0 DEF Open
  <2>2. CASE oc.current = 0
    <3>1. /\ resetConsumer([oc EXCEPT !.consuming = TRUE], oc.stream_seq + 1, "consume")
          /\ UNCHANGED <<iter, src>>
      BY <1>2, <2>2 DEF consume
    <3>2. MayAsk([oc EXCEPT !.consuming = TRUE], oc.stream_seq + 1, "consume")
      BY <2>0, <2>2 DEF MayAsk
    <3>3. wire' \in Seq(Frame) /\ \A i \in 1..Len(wire') : \E j \in 1..Len(wire) : wire'[i] = wire[j]
      BY <2>0 DEF Passes
    <3>4. PullInv'  BY <1>0, <2>0, <3>1, <3>2, <3>3, AskKeeps
    <3>. QED  BY <2>0, <2>1, <3>4, Silent
  <2>3. CASE oc.current # 0
    <3>1. /\ oc' = [oc EXCEPT !.consuming = TRUE, !.consumer = oc.current]
          /\ iter' = NewIter /\ setSource(oc.current) /\ UNCHANGED <<adds, cons>>
      BY <1>2, <2>3 DEF consume
    <3>2. oc.current = oc.serial  BY <1>0, <2>0, <2>3 DEF Known
    <3>3. adds = {}  BY <1>0, <2>0, <2>3 DEF Asked
    <3>4. /\ oc' \in State /\ oc'.serial = oc.serial /\ oc'.stream_seq = oc.stream_seq
          /\ oc'.deliver_seq = oc.deliver_seq /\ oc'.consuming
      BY <1>0, <3>1 DEF Typed, State
    <3>5. iter.yields = <<>>
      <4>1. Seen = <<>> /\ delivered \in Seq(Nat) /\ iter.yields \in Seq(Nat)
        BY <1>0, <2>0 DEF Cursor, Typed, Iterator
      <4>2. Len(iter.yields) = 0
        <5>1. Len(Seen) = 0 /\ Len(Seen) = Len(delivered) + Len(iter.yields)
              /\ Len(delivered) \in Nat /\ Len(iter.yields) \in Nat
          <6>1. Len(<<>>) = 0  OBVIOUS
          <6>. QED  BY <1>0, <4>1, <6>1, SeenIs
        <5>. QED  BY <5>1
      <4>. QED  BY <4>1, <4>2, EmptySeq
    <3>6. \A c \in DOMAIN cons' : c \in Nat /\ c <= oc.serial /\ cons'[c] \in Consumer
      BY <1>0, <3>1 DEF Typed, Known
    <3>7. oc.serial \in DOMAIN cons' => cons'[oc.serial].next = cons'[oc.serial].dseq + 1 + Origin
      BY <1>0, <2>0, <3>1 DEF Numbered
    <3>8. PullInv'  BY <2>0, <3>1, <3>2, <3>3, <3>4, <3>5, <3>6, <3>7, BindKeeps
    <3>. QED  BY <2>0, <2>1, <3>8, Silent
  <2>. QED  BY <2>2, <2>3
<1>3. CASE fetch
  <2>0. /\ Fetching /\ Ended /\ ~oc.consuming
        /\ UNCHANGED <<use, delivered, wire>> /\ Passes
    BY <1>0, <1>3, WirePasses DEF fetch, Known
  <2>1. Open  BY <2>0 DEF Open
  <2>2. CASE oc.current = 0
    <3>1. resetConsumer(oc, oc.stream_seq + 1, "fetch") /\ UNCHANGED <<iter, src>>
      BY <1>3, <2>2 DEF fetch
    <3>2. MayAsk(oc, oc.stream_seq + 1, "fetch")  BY <2>0, <2>2 DEF MayAsk
    <3>3. wire' \in Seq(Frame) /\ \A i \in 1..Len(wire') : \E j \in 1..Len(wire) : wire'[i] = wire[j]
      BY <2>0 DEF Passes
    <3>4. PullInv'  BY <1>0, <2>0, <3>1, <3>2, <3>3, AskKeeps
    <3>. QED  BY <2>0, <2>1, <3>4, Silent
  <2>3. CASE oc.current # 0
    <3>1. /\ oc' = [oc EXCEPT !.consumer = oc.current]
          /\ iter' = NewIter /\ setSource(oc.current) /\ UNCHANGED <<adds, cons>>
      BY <1>3, <2>3 DEF fetch
    <3>2. oc.current = oc.serial  BY <1>0, <2>0, <2>3 DEF Known
    <3>3. /\ oc' \in State /\ oc'.serial = oc.serial /\ oc'.stream_seq = oc.stream_seq
          /\ oc'.deliver_seq = oc.deliver_seq /\ oc'.consuming = oc.consuming /\ oc'.current = oc.serial
      BY <1>0, <3>1, <3>2 DEF Typed, State
    <3>4. iter.yields = <<>> /\ adds = {}  BY <1>0, <2>0, <2>3 DEF Ended, Asked
    <3>5. \A c \in DOMAIN cons' : c \in Nat /\ c <= oc.serial /\ cons'[c] \in Consumer
      BY <1>0, <3>1 DEF Typed, Known
    <3>6. oc.serial \in DOMAIN cons' => cons'[oc.serial].next = cons'[oc.serial].dseq + 1 + Origin
      BY <1>0, <2>0, <3>1 DEF Numbered
    <3>7. PullInv'  BY <2>0, <3>1, <3>2, <3>3, <3>4, <3>5, <3>6, BindKeeps
    <3>. QED  BY <2>0, <2>1, <3>7, Silent
  <2>. QED  BY <2>2, <2>3
<1>4. ASSUME NEW a \in adds, Added(a) PROVE PullInv' /\ Kept
  <2>0. /\ adds' = adds \ {a} /\ UNCHANGED <<use, delivered, wire>>
        /\ cons' = [c \in DOMAIN cons \cup {a.con} |->
                      IF c = a.con THEN [next |-> a.start, dseq |-> 0] ELSE cons[c]]
    BY <1>4 DEF Added
  <2>1. /\ adds' = {} /\ a.con = oc.serial /\ a \in Request /\ oc.serial \in Nat
    BY <1>0, <2>0 DEF Asked, Typed, State
  <2>2. CASE a.from = "info"
    <3>1. oc' = [oc EXCEPT !.current = a.con] /\ UNCHANGED <<iter, src>>  BY <1>4, <2>2 DEF Added
    <3>2. PullInv'  BY <2>0, <2>2, <3>1, InfoKeeps
    <3>3. oc'.consuming = oc.consuming  BY <1>0, <3>1 DEF Typed, State
    <3>. QED  BY <2>0, <3>1, <3>2, <3>3, Silent DEF Open, Ended
  <2>3. CASE a.from # "info"
    <3>1. /\ oc' = [oc EXCEPT !.current = a.con, !.consumer = a.con]
          /\ iter' = IF a.from = "reset" THEN iter ELSE NewIter
          /\ setSource(oc.serial)
      BY <1>4, <2>1, <2>3 DEF Added
    <3>2. /\ oc' \in State /\ oc'.serial = oc.serial /\ oc'.stream_seq = oc.stream_seq
          /\ oc'.deliver_seq = oc.deliver_seq /\ oc'.consuming = oc.consuming /\ oc'.current = oc.serial
      BY <1>0, <2>1, <3>1 DEF Typed, State
    <3>3. a.start = Origin + 1  BY <1>0, <2>3 DEF Asked
    <3>4. Origin \in Int  BY <1>0 DEF Origin, Typed, State
    <3>5. \A c \in DOMAIN cons' : c \in Nat /\ c <= oc.serial /\ cons'[c] \in Consumer
      <4>1. [next |-> a.start, dseq |-> 0] \in Consumer  BY <2>1 DEF Request, Consumer
      <4>2. \A c \in DOMAIN cons : c \in Nat /\ c <= oc.serial /\ cons[c] \in Consumer
        BY <1>0 DEF Typed, Known
      <4>. QED  BY <2>0, <2>1, <4>1, <4>2
    <3>6. oc.serial \in DOMAIN cons' => cons'[oc.serial].next = cons'[oc.serial].dseq + 1 + Origin
      <4>1. cons'[oc.serial] = [next |-> a.start, dseq |-> 0]  BY <2>0, <2>1
      <4>2. a.start = 0 + 1 + Origin  BY <3>3, <3>4
      <4>. QED  BY <4>1, <4>2
    <3>7. CASE a.from = "reset"
      <4>1. oc.consuming /\ src.id > 0 /\ ~Fetching  BY <1>0, <3>7 DEF Asked, Known
      <4>2. use.kind = "callback" => ~iter.done  BY <1>0, <3>7, <4>1 DEF Closed
      <4>3. iter' = iter  BY <3>1, <3>7
      <4>4. PullInv'  BY <2>0, <2>1, <3>1, <3>2, <3>5, <3>6, <4>1, <4>2, <4>3, BindKeeps
      <4>5. src'.id = src.id + 1 /\ src.id \in Nat  BY <1>0, <3>1 DEF setSource, Typed, Source
      <4>6. ~Open => ~Open'  BY <3>2, <4>3, <4>5 DEF Open, Ended
      <4>. QED  BY <2>0, <4>4, <4>6, Silent
    <3>8. CASE a.from # "reset"
      <4>1. iter' = NewIter  BY <3>1, <3>8
      <4>2. a.from \in {"consume", "fetch"}  BY <2>1, <2>3, <3>8 DEF Request
      <4>3. CASE a.from = "consume"
        <5>1. src.id = 0 /\ oc.consuming  BY <1>0, <4>3 DEF Asked
        <5>2. ~Fetching  BY <1>0, <5>1 DEF Known
        <5>3. iter.yields = <<>>
          <6>1. Seen = <<>> /\ iter.yields \in Seq(Nat)  BY <1>0, <5>1 DEF Cursor, Typed, Iterator
          <6>2. Len(Seen) = 0  BY <6>1
          <6>3. Len(iter.yields) = 0  BY <1>0, <6>2, SeenIs
          <6>. QED  BY <6>1, <6>3, EmptySeq
        <5>4. PullInv'  BY <2>0, <2>1, <3>1, <3>2, <3>5, <3>6, <4>1, <5>1, <5>2, <5>3, BindKeeps
        <5>5. Open  BY <5>1 DEF Open
        <5>. QED  BY <2>0, <5>4, <5>5, Silent
      <4>4. CASE a.from = "fetch"
        <5>1. Fetching /\ Ended /\ ~oc.consuming  BY <1>0, <4>4 DEF Asked, Known
        <5>2. iter.yields = <<>>  BY <5>1 DEF Ended
        <5>3. PullInv'  BY <2>0, <2>1, <3>1, <3>2, <3>5, <3>6, <4>1, <5>1, <5>2, BindKeeps
        <5>4. Open  BY <5>1 DEF Open
        <5>. QED  BY <2>0, <5>3, <5>4, Silent
      <4>. QED  BY <4>2, <4>3, <4>4
    <3>. QED  BY <3>7, <3>8
  <2>. QED  BY <2>2, <2>3
<1>5. ASSUME NEW a \in adds, AddFails(a) PROVE PullInv' /\ Kept
  <2>1. /\ adds' = adds \ {a} /\ stop(TRUE) /\ UNCHANGED <<use, oc, delivered, cons, wire>>
    BY <1>5 DEF AddFails
  <2>2. adds' = {}  BY <1>0, <2>1 DEF Asked
  <2>3. Fetching => iter.yields = <<>>  BY <1>0 DEF Asked
  <2>4. Passes  BY <1>0, <2>1, WirePasses
  <2>5. PullInv'  BY <2>1, <2>2, <2>3, <2>4, StopKeeps
  <2>6. /\ src'.id = src.id
        /\ iter' = [iter EXCEPT !.done = TRUE,
                                !.yields = IF TRUE /\ iter.inbatch = 0 THEN <<>> ELSE @]
    BY <1>0, <2>1 DEF stop, Typed, Source
  <2>7. Ended => Ended'  BY <1>0, <2>6 DEF Ended, Typed, Iterator
  <2>8. ~Open => ~Open'  BY <2>1, <2>6, <2>7 DEF Open
  <2>. QED  BY <2>1, <2>5, <2>8, Silent
<1>6. CASE Receive
  <2>0. /\ wire # <<>> /\ wire' = Tail(wire) /\ UNCHANGED <<use, conn, faults>> /\ Passes
    BY <1>0, <1>6, WirePasses DEF Receive
  <2>. DEFINE f == Head(wire)
  <2>1. CASE ~(src.on /\ f.id = src.id) \/ oc.serial # src.handler
    <3>1. UNCHANGED <<oc, iter, src, adds, delivered, cons>>
      BY <1>6, <2>1 DEF Receive, internalHandler
    <3>2. PullInv'  BY <2>0, <3>1, LossKeeps DEF Fewer
    <3>. QED  BY <2>0, <3>1, <3>2, Silent DEF Open, Ended
  <2>2. CASE src.on /\ f.id = src.id /\ oc.serial = src.handler /\ f.dseq # oc.deliver_seq + 1
    <3>1. orderedReset(oc) /\ UNCHANGED delivered  BY <1>6, <2>2 DEF Receive, internalHandler
    <3>. QED  BY <1>0, <2>0, <2>2, <3>1, ResetKeeps
  <2>3. CASE src.on /\ f.id = src.id /\ oc.serial = src.handler /\ f.dseq = oc.deliver_seq + 1
    <3>1. internalHandler(f)  BY <1>6, <2>3 DEF Receive
    <3>2. /\ PullInv' /\ oc'.consuming = oc.consuming /\ src'.id = src.id
          /\ \/ Hands /\ use.kind \in {"callback", "next"} /\ (use.kind = "callback" => ~iter.done)
             \/ delivered' = delivered /\ (Ended /\ ~Fetching => Ended')
      BY <2>0, <2>3, <3>1, AcceptKeeps
    <3>3. CASE Hands /\ use.kind \in {"callback", "next"} /\ (use.kind = "callback" => ~iter.done)
      <4>1. ~(oc.consuming /\ Ended)  BY <1>0, <3>3 DEF Known, Fetching, Ended
      <4>. QED  BY <3>2, <3>3, <4>1, Handed DEF Open
    <3>4. CASE delivered' = delivered /\ (Ended /\ ~Fetching => Ended')
      <4>1. oc.consuming => ~Fetching  BY <1>0 DEF Known
      <4>2. ~Open => ~Open'  BY <3>2, <3>4, <4>1 DEF Open
      <4>. QED  BY <3>2, <3>4, <4>2, Silent
    <3>. QED  BY <3>2, <3>3, <3>4
  <2>. QED  BY <2>1, <2>2, <2>3
<1>7. CASE consumerNotFound
  <2>1. src.on /\ orderedReset(oc) /\ UNCHANGED <<use, delivered, wire>>
    BY <1>7 DEF consumerNotFound
  <2>2. Passes  BY <1>0, <2>1, WirePasses
  <2>. QED  BY <1>0, <2>1, <2>2, ResetKeeps
<1>8. CASE FetchExpires \/ Close
  <2>1. stop(FALSE) /\ UNCHANGED <<use, oc, adds, delivered, cons, wire>>
    BY <1>8 DEF FetchExpires, Close, server
  <2>2. use.kind = "callback" => adds' = {}
    BY <1>0, <1>8, <2>1 DEF FetchExpires, Fetching, CloseInTime
  <2>3. Passes  BY <1>0, <2>1, WirePasses
  <2>4. PullInv'  BY <2>1, <2>2, <2>3, StopKeeps
  <2>5. src'.id = src.id /\ iter' = [iter EXCEPT !.done = TRUE]
    BY <1>0, <2>1 DEF stop, Typed, Source, Iterator
  <2>6. Ended => Ended'  BY <1>0, <2>5 DEF Ended, Typed, Iterator
  <2>7. ~Open => ~Open'  BY <2>1, <2>5, <2>6 DEF Open
  <2>. QED  BY <2>1, <2>4, <2>7, Silent
<1>9. CASE Read
  <2>1. CASE Take
    <3>1. PullInv' /\ Hands  BY <2>1, TakeKeeps DEF Hands
    <3>2. Open  BY <2>1 DEF Take, Open, Ended
    <3>. QED  BY <3>1, <3>2, Handed
  <2>2. CASE EndBatch
    <3>1. PullInv'  BY <1>0, <2>2, EndBatchKeeps
    <3>2. delivered' = delivered /\ Open  BY <2>2 DEF EndBatch, Open, Ended
    <3>. QED  BY <3>1, <3>2, Silent
  <2>. QED  BY <1>9, <2>1, <2>2 DEF Read
<1>10. CASE info
  <2>0. oc.current = 0 /\ resetConsumer(oc, First, "info") /\ UNCHANGED <<use, iter, src, delivered, wire>>
    BY <1>10 DEF info
  <2>1. oc.consuming \/ oc.stream_seq < First  BY <1>0, <1>10 DEF InfoInTime
  <2>2. MayAsk(oc, First, "info")  BY <2>0, <2>1 DEF MayAsk
  <2>3. wire' \in Seq(Frame) /\ \A i \in 1..Len(wire') : \E j \in 1..Len(wire) : wire'[i] = wire[j]
    BY <1>0, <2>0, WirePasses DEF Passes
  <2>4. PullInv'  BY <1>0, <2>0, <2>2, <2>3, AskKeeps
  <2>5. oc'.consuming = oc.consuming
    <3>1. oc' = [oc EXCEPT !.deliver_seq = 0, !.serial = @ + 1]  BY <2>0 DEF resetConsumer
    <3>. QED  BY <1>0, <3>1 DEF Typed, State
  <2>. QED  BY <2>0, <2>4, <2>5, Silent DEF Open, Ended
<1>11. CASE delete
  <2>1. /\ oc' = [oc EXCEPT !.current = 0] /\ UNCHANGED <<use, iter, src, adds, delivered, wire>>
        /\ cons' = [c \in DOMAIN cons \ {oc.current} |-> cons[c]]
    BY <1>11 DEF delete
  <2>2. Passes /\ Fewer  BY <1>0, <2>1, WirePasses DEF Fewer
  <2>3. PullInv'  BY <2>1, <2>2, LossKeeps
  <2>4. oc'.consuming = oc.consuming  BY <1>0, <2>1 DEF Typed, State
  <2>. QED  BY <2>1, <2>3, <2>4, Silent DEF Open, Ended
<1>12. CASE Send
  <2>1. PullInv'  BY <1>12, SendKeeps
  <2>2. UNCHANGED <<oc, iter, src, delivered>>  BY <1>12 DEF Send
  <2>. QED  BY <2>1, <2>2, Silent DEF Open, Ended
<1>13. CASE Lose \/ ConsumerLost \/ Disconnect \/ Reconnect
  <2>1. /\ UNCHANGED <<use, oc, iter, src, adds, delivered>> /\ Fewer
        /\ (wire' = wire \/ (wire # <<>> /\ wire' = Tail(wire)) \/ wire' = <<>>)
    BY <1>13 DEF Lose, ConsumerLost, Disconnect, Reconnect, Fewer
  <2>2. Passes  BY <1>0, <2>1, WirePasses
  <2>3. PullInv'  BY <2>1, <2>2, LossKeeps
  <2>. QED  BY <2>1, <2>3, Silent DEF Open, Ended
<1>. QED
  BY <1>1, <1>2, <1>3, <1>4, <1>5, <1>6, <1>7, <1>8, <1>9, <1>10, <1>11, <1>12, <1>13
  DEF Next, Add

(* Whatever is lost, and whenever the consumer goes: as long as none of    *)
(* the four things of Calm happens, the user of an ordered pull consumer   *)
(* sees the messages of the stream one after the other, from the first one *)
(* it asked for, and none after it is closed.                              *)
THEOREM PullImplementsOrder ==
  ASSUME First \in Nat \ {0}, Messages \in Nat, \A u \in Scenarios : u.kind \in Kinds
  PROVE  Spec /\ Undisturbed => PullIsOrdered
<1>1. Init => PullInv  BY PullInit
<1>2. Init => Promise!Init
  BY DEF Init, Start, Promise!Init
<1>3. PullInv /\ Calm /\ [Next]_vars => PullInv' /\ Kept  BY PullStep
<1>4. PullInv /\ UNCHANGED vars => PullInv' /\ Kept
  <2>1. SUFFICES ASSUME PullInv, UNCHANGED vars PROVE PullInv' /\ Kept  OBVIOUS
  <2>2. Passes /\ Fewer  BY <2>1, WirePasses DEF PullInv, vars, Fewer
  <2>3. PullInv'  BY <2>1, <2>2, LossKeeps DEF vars
  <2>. QED  BY <2>1, <2>3, Silent DEF vars, Open, Ended
<1>. QED  BY <1>1, <1>2, <1>3, <1>4, PTL DEF Spec, Undisturbed, PullIsOrdered, Promise!Safe, Kept, Open
=============================================================================
