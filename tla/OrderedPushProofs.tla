-------------------------- MODULE OrderedPushProofs --------------------------
(* The ordered push consumer implements the ordered delivery, for a stream *)
(* of any length, any number of faults and of deliver subjects, as far as  *)
(* safety goes. The consumer has to begin with the first message.          *)
EXTENDS OrderedPush, SequenceTheorems, TLAPS

Frame ==
  [kind : {"msg"}, gen : Nat, dseq : Nat, sseq : Nat] \cup [kind : {"hb"}, gen : Nat, last : Nat]

Typed ==
  /\ sequence \in [delivery_seq : Nat, stream_seq : Nat] /\ gen \in Nat
  /\ creates \in SUBSET [gen : Nat, start : Nat]
  /\ open \in BOOLEAN /\ delivered \in Seq(Nat) /\ wire \in Seq(Frame)
  /\ \A g \in DOMAIN consumers : g \in Nat /\ consumers[g] \in [next : Nat, dseq : Nat]

(* The user has seen the first messages of the stream, and the cursor is   *)
(* the last of them.                                                       *)
Prefix ==
  /\ sequence.stream_seq = Len(delivered)
  /\ \A i \in 1..Len(delivered) : delivered[i] = i

(* What a consumer of the current deliver subject numbers 1.               *)
Origin == sequence.stream_seq - sequence.delivery_seq

(* Whatever belongs to the current subject is numbered from there: frames, *)
(* the consumer, however often it was made, and the requests to make it.   *)
Numbered ==
  /\ \A i \in 1..Len(wire) :
       /\ wire[i].gen <= gen
       /\ wire[i].kind = "msg" =>
            /\ wire[i].sseq <= Messages
            /\ wire[i].gen = gen => wire[i].sseq - wire[i].dseq = Origin
  /\ \A g \in DOMAIN consumers :
       g <= gen /\ (g = gen => consumers[g].next = consumers[g].dseq + 1 + Origin)
  /\ \A c \in creates : c.gen <= gen /\ (c.gen = gen => c.start = Origin + 1)

OrderInv == Typed /\ Prefix /\ Numbered

LEMMA OrderInit == ASSUME First = 1, Init PROVE OrderInv
<1>. USE DEF Init, Subscribed, Start
<1>1. Typed  BY DEF Typed
<1>2. Prefix /\ Numbered  BY DEF Prefix, Numbered, Origin
<1>. QED  BY <1>1, <1>2 DEF OrderInv

(* A step that takes frames away and adds none.                            *)
LEMMA WireShrinks ==
  ASSUME Typed, wire # <<>>
  PROVE  /\ Tail(wire) \in Seq(Frame)
         /\ Head(wire) = wire[1] /\ 1 \in 1..Len(wire) /\ Head(wire) \in Frame
         /\ \A i \in 1..Len(Tail(wire)) : i + 1 \in 1..Len(wire) /\ Tail(wire)[i] = wire[i + 1]
BY HeadTailProperties DEF Typed

(* The subscription moves to a new subject, for which there are no frames. *)
LEMMA ResetKeeps ==
  ASSUME OrderInv, resetOrderedConsumer(sequence.stream_seq + 1),
         UNCHANGED <<delivered, consumers, open>>,
         wire' \in Seq(Frame), \A i \in 1..Len(wire') : \E j \in 1..Len(wire) : wire'[i] = wire[j]
  PROVE  OrderInv'
<1>. USE DEF OrderInv
<1>1. CASE ~open
  <2>1. UNCHANGED <<sequence, gen, creates>>  BY <1>1 DEF resetOrderedConsumer
  <2>. QED  BY <2>1 DEF Typed, Prefix, Numbered, Origin
<1>2. CASE open
  <2>1. /\ gen' = gen + 1 /\ sequence' = [sequence EXCEPT !.delivery_seq = 0]
        /\ creates' = creates \cup {[gen |-> gen + 1, start |-> sequence.stream_seq + 1]}
    BY <1>2 DEF resetOrderedConsumer
  <2>2. Typed'
    <3>0. sequence \in [delivery_seq : Nat, stream_seq : Nat] /\ gen \in Nat  BY DEF Typed
    <3>1. sequence.stream_seq \in Nat /\ sequence' \in [delivery_seq : Nat, stream_seq : Nat] /\ gen' \in Nat
      BY <2>1, <3>0
    <3>2. creates' \in SUBSET [gen : Nat, start : Nat]
      BY <2>1, <3>1 DEF Typed
    <3>. QED  BY <3>1, <3>2 DEF Typed
  <2>3. Prefix'  BY <2>1 DEF Prefix, Typed
  <2>4. Origin' = sequence.stream_seq  BY <2>1 DEF Origin, Typed
  <2>5. \A i \in 1..Len(wire') : wire'[i].gen \in Nat /\ wire'[i].gen <= gen
                               /\ (wire'[i].kind = "msg" => wire'[i].sseq <= Messages)
    <3>1. ASSUME NEW i \in 1..Len(wire')
          PROVE  wire'[i].gen \in Nat /\ wire'[i].gen <= gen /\ (wire'[i].kind = "msg" => wire'[i].sseq <= Messages)
      <4>1. PICK j \in 1..Len(wire) : wire'[i] = wire[j]  OBVIOUS
      <4>2. wire[j] \in Frame  BY DEF Typed
      <4>3. wire[j].gen \in Nat  BY <4>2 DEF Frame
      <4>. QED  BY <4>1, <4>3 DEF Numbered
    <3>. QED  BY <3>1
  <2>6. Numbered'  BY <2>1, <2>4, <2>5 DEF Numbered, Typed
  <2>. QED  BY <2>2, <2>3, <2>6
<1>. QED  BY <1>1, <1>2 DEF Typed

(* The next message is accepted: the user sees it.                         *)
LEMMA AcceptKeeps ==
  ASSUME OrderInv, wire # <<>>, wire' = Tail(wire), Head(wire).kind = "msg", Head(wire).gen = gen,
         Head(wire).dseq = sequence.delivery_seq + 1,
         sequence' = [delivery_seq |-> Head(wire).dseq, stream_seq |-> Head(wire).sseq],
         delivered' = Append(delivered, Head(wire).sseq),
         UNCHANGED <<gen, creates, consumers, open>>
  PROVE  /\ OrderInv'
         /\ Head(wire).sseq = Len(delivered) + 1 /\ Head(wire).sseq <= Messages
<1>. USE DEF OrderInv
<1>1. /\ Tail(wire) \in Seq(Frame) /\ Head(wire) = wire[1] /\ 1 \in 1..Len(wire) /\ Head(wire) \in Frame
      /\ \A i \in 1..Len(Tail(wire)) : i + 1 \in 1..Len(wire) /\ Tail(wire)[i] = wire[i + 1]
  BY WireShrinks
<1>2. Head(wire).dseq \in Nat /\ Head(wire).sseq \in Nat
  BY <1>1 DEF Frame
<1>3. Head(wire).sseq = sequence.stream_seq + 1 /\ Head(wire).sseq <= Messages
  <2>1. wire[1].sseq <= Messages /\ wire[1].sseq - wire[1].dseq = sequence.stream_seq - sequence.delivery_seq
    BY <1>1 DEF Numbered, Origin
  <2>2. sequence.stream_seq \in Nat /\ sequence.delivery_seq \in Nat  BY DEF Typed
  <2>3. wire[1].sseq \in Nat /\ wire[1].dseq \in Nat /\ wire[1].dseq = sequence.delivery_seq + 1
    BY <1>1, <1>2
  <2>4. wire[1].sseq = sequence.stream_seq + 1  BY <2>1, <2>2, <2>3
  <2>. QED  BY <1>1, <2>1, <2>4
<1>4. /\ delivered' \in Seq(Nat) /\ Len(delivered') = Len(delivered) + 1
      /\ \A i \in 1..Len(delivered') : delivered'[i] = IF i <= Len(delivered) THEN delivered[i] ELSE Head(wire).sseq
  <2>1. delivered \in Seq(Nat) /\ Head(wire).sseq \in Nat  BY <1>2 DEF Typed
  <2>. QED  BY <2>1, AppendProperties
<1>5. Typed'  BY <1>1, <1>2, <1>4 DEF Typed
<1>6. Prefix'  BY <1>3, <1>4 DEF Prefix, Typed
<1>7. Origin' = Origin  BY <1>2, <1>3 DEF Origin, Typed
<1>8. Numbered'  BY <1>1, <1>7 DEF Numbered
<1>. QED  BY <1>3, <1>5, <1>6, <1>8 DEF Prefix

(* Every step keeps the invariant, and is a delivery, a close or nothing   *)
(* to the user.                                                            *)
LEMMA OrderStep ==
  ASSUME OrderInv, First = 1, Messages \in Nat, [Next]_vars
  PROVE  OrderInv' /\ [Promise!Deliver \/ Promise!Close]_<<delivered, open>>
<1>. USE DEF OrderInv
<1>. DEFINE Still == UNCHANGED <<delivered, open>>
            Shown == OrderInv' /\ [Promise!Deliver \/ Promise!Close]_<<delivered, open>>
<1>0. CASE UNCHANGED vars
  BY <1>0 DEF vars, Typed, Prefix, Numbered, Origin
<1>1. CASE Receive
  <2>. DEFINE f == Head(wire)
  <2>0. /\ wire # <<>> /\ wire' = Tail(wire) /\ UNCHANGED <<open, consumers>>
    BY <1>1 DEF Receive
  <2>1. /\ Tail(wire) \in Seq(Frame) /\ f = wire[1] /\ f \in Frame
        /\ \A i \in 1..Len(Tail(wire)) : i + 1 \in 1..Len(wire) /\ Tail(wire)[i] = wire[i + 1]
    BY <2>0, WireShrinks
  <2>2. CASE ~open \/ f.gen # gen
    <3>1. UNCHANGED <<sequence, gen, creates, delivered>>  BY <1>1, <2>2 DEF Receive
    <3>. QED  BY <3>1, <2>0, <2>1 DEF Typed, Prefix, Numbered, Origin
  <2>3. CASE open /\ f.gen = gen /\ f.kind = "msg" /\ f.dseq = sequence.delivery_seq + 1
    <3>1. checkOrderedConsumer(f)  BY <1>1, <2>3 DEF Receive
    <3>2. /\ sequence' = [delivery_seq |-> f.dseq, stream_seq |-> f.sseq]
          /\ delivered' = Append(delivered, f.sseq) /\ UNCHANGED <<gen, creates>>
      BY <3>1, <2>3 DEF checkOrderedConsumer
    <3>3. OrderInv' /\ f.sseq = Len(delivered) + 1 /\ f.sseq <= Messages
      BY <2>0, <2>3, <3>2, AcceptKeeps
    <3>4. First + Len(delivered) = f.sseq  BY <3>3 DEF Typed
    <3>5. Promise!Deliver  BY <2>0, <2>3, <3>2, <3>3, <3>4 DEF Promise!Deliver, Typed
    <3>. QED  BY <3>3, <3>5
  <2>4. CASE open /\ f.gen = gen /\ ~(f.kind = "msg" /\ f.dseq = sequence.delivery_seq + 1)
    <3>1. delivered' = delivered /\ (resetOrderedConsumer(sequence.stream_seq + 1) \/ UNCHANGED <<sequence, gen, creates>>)
      BY <1>1, <2>4 DEF Receive, checkOrderedConsumer, checkHbOrderConsumer
    <3>2. CASE resetOrderedConsumer(sequence.stream_seq + 1)
      BY <2>0, <2>1, <3>1, <3>2, ResetKeeps
    <3>3. CASE UNCHANGED <<sequence, gen, creates>>
      BY <2>0, <2>1, <3>1, <3>3 DEF Typed, Prefix, Numbered, Origin
    <3>. QED  BY <3>1, <3>2, <3>3
  <2>. QED  BY <2>2, <2>3, <2>4 DEF Typed
<1>2. CASE Missed
  <2>1. UNCHANGED <<open, delivered, consumers, wire>>  BY <1>2 DEF Missed
  <2>2. resetOrderedConsumer(sequence.stream_seq + 1) \/ UNCHANGED <<sequence, gen, creates>>
    BY <1>2 DEF Missed
  <2>3. CASE resetOrderedConsumer(sequence.stream_seq + 1)
    BY <2>1, <2>3, ResetKeeps DEF Typed
  <2>4. CASE UNCHANGED <<sequence, gen, creates>>
    BY <2>1, <2>4 DEF Typed, Prefix, Numbered, Origin
  <2>. QED  BY <2>2, <2>3, <2>4
<1>3. CASE Created
  <2>1. creates' \subseteq creates /\ UNCHANGED <<sequence, gen, open, delivered, consumers, wire>>
    BY <1>3 DEF Created, server
  <2>. QED  BY <2>1 DEF Typed, Prefix, Numbered, Origin
<1>4. CASE CreateFails \/ Close
  <2>1. creates' \subseteq creates /\ open' \in {FALSE, open} /\ UNCHANGED <<sequence, gen, delivered, consumers, wire>>
    BY <1>4 DEF CreateFails, Close, server
  <2>2. OrderInv'  BY <2>1 DEF Typed, Prefix, Numbered, Origin
  <2>3. Promise!Close \/ Still  BY <2>1 DEF Promise!Close, Typed
  <2>. QED  BY <2>2, <2>3
<1>5. CASE ServerCreates
  <2>1. PICK c \in creates : c.gen \notin DOMAIN consumers
          /\ consumers' = [g \in DOMAIN consumers \cup {c.gen} |->
                             IF g = c.gen THEN [next |-> c.start, dseq |-> 0] ELSE consumers[g]]
    BY <1>5 DEF ServerCreates
  <2>2. UNCHANGED <<sequence, gen, creates, open, delivered, wire>>  BY <1>5 DEF ServerCreates, client
  <2>3. /\ DOMAIN consumers' = DOMAIN consumers \cup {c.gen}
        /\ consumers'[c.gen] = [next |-> c.start, dseq |-> 0]
        /\ \A g \in DOMAIN consumers : consumers'[g] = consumers[g]
    BY <2>1
  <2>4. c.gen \in Nat /\ c.start \in Nat  BY DEF Typed
  <2>5. Typed'  BY <2>2, <2>3, <2>4 DEF Typed
  <2>6. Numbered'  BY <2>2, <2>3, <2>4 DEF Numbered, Origin, Typed
  <2>. QED  BY <2>2, <2>5, <2>6 DEF Prefix
<1>6. CASE \E g \in (gen - 1 .. gen) \cap DOMAIN consumers : Send(g)
  <2>1. PICK g \in DOMAIN consumers : Send(g)  BY <1>6
  <2>. DEFINE m == [kind |-> "msg", gen |-> g, dseq |-> consumers[g].dseq + 1, sseq |-> consumers[g].next]
  <2>2. /\ consumers[g].next <= Messages /\ wire' = Append(wire, m)
        /\ consumers' = [consumers EXCEPT ![g] = [next |-> @.next + 1, dseq |-> @.dseq + 1]]
        /\ UNCHANGED <<sequence, gen, creates, open, delivered>>
    BY <2>1 DEF Send, client
  <2>3. g \in Nat /\ consumers[g].next \in Nat /\ consumers[g].dseq \in Nat /\ m \in Frame
    BY DEF Typed, Frame
  <2>4. /\ wire' \in Seq(Frame) /\ Len(wire') = Len(wire) + 1
        /\ \A i \in 1..Len(wire') : wire'[i] = IF i <= Len(wire) THEN wire[i] ELSE m
    BY <2>2, <2>3 DEF Typed
  <2>5. DOMAIN consumers' = DOMAIN consumers
        /\ consumers'[g] = [next |-> consumers[g].next + 1, dseq |-> consumers[g].dseq + 1]
        /\ \A h \in DOMAIN consumers \ {g} : consumers'[h] = consumers[h]
    BY <2>2
  <2>6. Typed'  BY <2>2, <2>3, <2>4, <2>5 DEF Typed
  <2>7. Origin' = Origin /\ Origin \in Int  BY <2>2 DEF Origin, Typed
  <2>8. g <= gen /\ (g = gen => consumers[g].next = consumers[g].dseq + 1 + Origin)  BY DEF Numbered
  <2>9. \A i \in 1..Len(wire') : /\ wire'[i].gen <= gen
          /\ wire'[i].kind = "msg" =>
               /\ wire'[i].sseq <= Messages
               /\ wire'[i].gen = gen => wire'[i].sseq - wire'[i].dseq = Origin
    BY <2>2, <2>3, <2>4, <2>7, <2>8 DEF Numbered, Typed
  <2>10. \A h \in DOMAIN consumers' :
          h <= gen /\ (h = gen => consumers'[h].next = consumers'[h].dseq + 1 + Origin)
    BY <2>3, <2>5, <2>7, <2>8 DEF Numbered
  <2>11. Numbered'  BY <2>2, <2>7, <2>9, <2>10 DEF Numbered
  <2>. QED  BY <2>2, <2>6, <2>11 DEF Prefix
<1>7. CASE gen \in DOMAIN consumers /\ Heartbeat(gen)
  <2>. DEFINE m == [kind |-> "hb", gen |-> gen, last |-> consumers[gen].dseq]
  <2>1. wire' = Append(wire, m) /\ UNCHANGED <<sequence, gen, creates, open, delivered, consumers>>
    BY <1>7 DEF Heartbeat, client
  <2>2. m \in Frame  BY <1>7 DEF Typed, Frame
  <2>3. /\ wire' \in Seq(Frame) /\ Len(wire') = Len(wire) + 1
        /\ \A i \in 1..Len(wire') : wire'[i] = IF i <= Len(wire) THEN wire[i] ELSE m
    BY <2>1, <2>2 DEF Typed
  <2>. QED  BY <2>1, <2>3 DEF Typed, Prefix, Numbered, Origin
<1>8. CASE Lose
  <2>1. wire # <<>> /\ wire' = Tail(wire) /\ UNCHANGED <<sequence, gen, creates, open, delivered, consumers>>
    BY <1>8 DEF Lose, client
  <2>2. /\ Tail(wire) \in Seq(Frame)
        /\ \A i \in 1..Len(Tail(wire)) : i + 1 \in 1..Len(wire) /\ Tail(wire)[i] = wire[i + 1]
    BY <2>1, WireShrinks
  <2>. QED  BY <2>1, <2>2 DEF Typed, Prefix, Numbered, Origin
<1>9. CASE Delete
  <2>1. /\ DOMAIN consumers' \subseteq DOMAIN consumers
        /\ \A h \in DOMAIN consumers' : consumers'[h] = consumers[h]
        /\ UNCHANGED <<sequence, gen, creates, open, delivered, wire>>
    BY <1>9 DEF Delete, client
  <2>. QED  BY <2>1 DEF Typed, Prefix, Numbered, Origin
<1>10. CASE Disconnect
  <2>1. wire' = <<>> /\ UNCHANGED <<sequence, gen, creates, open, delivered, consumers>>
    BY <1>10 DEF Disconnect, client
  <2>. QED  BY <2>1 DEF Typed, Prefix, Numbered, Origin
<1>11. CASE Reconnect
  BY <1>11 DEF Reconnect, client, Typed, Prefix, Numbered, Origin
<1>. QED
  BY <1>0, <1>1, <1>2, <1>3, <1>4, <1>5, <1>6, <1>7, <1>8, <1>9, <1>10, <1>11 DEF Next, Serve

(* Whatever frames, consumers and connections are lost, and however late   *)
(* frames of an earlier deliver subject are, the user sees the messages    *)
(* one after the other, none twice and none left out: the safety of        *)
(* PushIsOrdered (jsclient.ts _checkOrderedConsumer,                       *)
(* _resetOrderedConsumer).                                                 *)
THEOREM PushImplementsOrder ==
  ASSUME First = 1, Messages \in Nat
  PROVE  Spec => Promise!Safe
<1>1. Init => OrderInv  BY OrderInit
<1>2. Init => Promise!Init  BY DEF Init, Subscribed, Promise!Init
<1>3. OrderInv /\ [Next]_vars => OrderInv' /\ [Promise!Deliver \/ Promise!Close]_<<delivered, open>>
  BY OrderStep
<1>. QED  BY <1>1, <1>2, <1>3, PTL DEF Spec, Promise!Safe
=============================================================================
