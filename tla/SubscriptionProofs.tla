------------------------- MODULE SubscriptionProofs -------------------------
(***************************************************************************)
(* What a subscription is promised, proved (protocol.ts subscribe(),       *)
(* unsubscribe(), unsub(), resub(), processMsg(), flush(); nats.ts         *)
(* drain()).                                                               *)
(*                                                                         *)
(* DrainLosesNothing: what a drained subscription, or a drained            *)
(* connection, was sent before its last PONG was handed to it. The         *)
(* invariant adds to that of BarrierHolds that the PING of a drain is      *)
(* behind its UNSUB in Written and no SUB of it is behind that PING        *)
(* (DrainInv); that until the dial is done the PING of CONNECT is the only *)
(* command written (HandInv); and that nothing is published after the last *)
(* flush of a connection that drains (FinalInv).                           *)
(*                                                                         *)
(* InterestInSync: once all that was written has reached the server, the   *)
(* interest it holds is the table of the client. The invariant says of     *)
(* every sid what the commands still on their way make of its interest: a  *)
(* sid no longer listed has an UNSUB ahead with no SUB behind it, or no SUB*)
(* ahead and no unlimited interest (UnlistedInv); a sid not yet given is   *)
(* silent (NewInv); one that is to be served has its interest or its SUB   *)
(* ahead, and no UNSUB ahead ends it before its limit (WantedInv); there is*)
(* no interest before the dial is done (MutedInv).                         *)
(***************************************************************************)
EXTENDS ProtocolProofs

-----------------------------------------------------------------------------
(* Drains, in sequences of commands.                                       *)

(* Commands and frames about one subscription. *)
IsSub(c, s) == c.op = "SUB" /\ c.sid = s
IsUnsub(c, s) == c.op = "UNSUB" /\ c.sid = s /\ c.max = 0
IsPing(c, s) == c.op = "PING" /\ c.tag = DrainOf(s)
IsPong(f, s) == f.op = "PONG" /\ f.tag = DrainOf(s)

NoSubOf(q, s) == \A j \in 1..Len(q) : ~IsSub(q[j], s)

(* In q the PING of the drain of s is behind its UNSUB, or comes first     *)
(* when there is no interest already (off), and no SUB is behind it.       *)
DrainedIn(q, s, off) ==
  \A i \in 1..Len(q) :
    IsPing(q[i], s) =>
      /\ (i = 1 /\ off) \/ (i > 1 /\ IsUnsub(q[i - 1], s))
      /\ \A j \in (i + 1)..Len(q) : ~IsSub(q[j], s)

(* SUBs in two sequences, one after the other. *)
LEMMA NoSubConcat ==
  ASSUME NEW V, NEW a \in Seq(V), NEW b \in Seq(V), NEW s
  PROVE  NoSubOf(a \o b, s) <=> NoSubOf(a, s) /\ NoSubOf(b, s)
<1> DEFINE c == a \o b
<1>1. /\ Len(c) = Len(a) + Len(b) /\ Len(a) \in Nat /\ Len(b) \in Nat
      /\ \A i \in 1..Len(a) : c[i] = a[i]
      /\ \A i \in 1..Len(b) : c[Len(a) + i] = b[i]
      /\ \A i \in 1..Len(c) : i \in 1..Len(a) \/ \E j \in 1..Len(b) : i = Len(a) + j
  BY ConcatAt
<1> HIDE DEF c
<1>2. \A i \in 1..Len(a) : i \in 1..Len(c)
  BY <1>1
<1>3. \A i \in 1..Len(b) : Len(a) + i \in 1..Len(c)
  BY <1>1
<1>4. NoSubOf(c, s) => NoSubOf(a, s)
  BY <1>1, <1>2 DEF NoSubOf
<1>5. NoSubOf(c, s) => NoSubOf(b, s)
  BY <1>1, <1>3 DEF NoSubOf
<1>6. NoSubOf(a, s) /\ NoSubOf(b, s) => NoSubOf(c, s)
  BY <1>1 DEF NoSubOf
<1> QED
  BY <1>4, <1>5, <1>6 DEF c

(* More commands behind: their drains are behind their UNSUBs, and they    *)
(* subscribe nothing that drains.                                          *)
LEMMA DrainedConcat ==
  ASSUME NEW V, NEW a \in Seq(V), NEW b \in Seq(V), NEW s, NEW off,
         DrainedIn(a, s, off), DrainedIn(b, s, FALSE),
         NoSubOf(b, s) \/ \A i \in 1..Len(a) : ~IsPing(a[i], s)
  PROVE  DrainedIn(a \o b, s, off)
<1> DEFINE c == a \o b
<1>1. /\ Len(c) = Len(a) + Len(b) /\ Len(a) \in Nat /\ Len(b) \in Nat
      /\ \A i \in 1..Len(a) : c[i] = a[i]
      /\ \A i \in 1..Len(b) : c[Len(a) + i] = b[i]
      /\ \A i \in 1..Len(c) : i \in 1..Len(a) \/ \E j \in 1..Len(b) : i = Len(a) + j
  BY ConcatAt
<1> HIDE DEF c
<1>2. ASSUME NEW i \in 1..Len(c), IsPing(c[i], s)
      PROVE  /\ (i = 1 /\ off) \/ (i > 1 /\ IsUnsub(c[i - 1], s))
             /\ \A j \in (i + 1)..Len(c) : ~IsSub(c[j], s)
  <2>1. CASE i \in 1..Len(a)
    <3>1. IsPing(a[i], s)
      BY <1>1, <1>2, <2>1
    <3>2. (i = 1 /\ off) \/ (i > 1 /\ IsUnsub(a[i - 1], s))
      BY <2>1, <3>1 DEF DrainedIn
    <3>3. i > 1 => i - 1 \in 1..Len(a)
      BY <1>1, <2>1
    <3>4. (i = 1 /\ off) \/ (i > 1 /\ IsUnsub(c[i - 1], s))
      BY <1>1, <3>2, <3>3
    <3>5. ASSUME NEW j \in (i + 1)..Len(c) PROVE ~IsSub(c[j], s)
      <4>0. j \in 1..Len(c) /\ j > i
        BY <1>1, <2>1
      <4>1. CASE j \in 1..Len(a)
        <5>1. j \in (i + 1)..Len(a)
          BY <2>1, <4>0, <4>1
        <5>2. ~IsSub(a[j], s)
          BY <2>1, <3>1, <5>1 DEF DrainedIn
        <5> QED
          BY <1>1, <4>1, <5>2
      <4>2. ASSUME NEW k \in 1..Len(b), j = Len(a) + k PROVE ~IsSub(c[j], s)
        <5>1. NoSubOf(b, s)
          BY <2>1, <3>1
        <5> QED
          BY <1>1, <4>2, <5>1 DEF NoSubOf
      <4> QED
        BY <1>1, <4>0, <4>1, <4>2
    <3> QED
      BY <3>4, <3>5
  <2>2. ASSUME NEW k \in 1..Len(b), i = Len(a) + k
        PROVE  /\ i > 1 /\ IsUnsub(c[i - 1], s)
               /\ \A j \in (i + 1)..Len(c) : ~IsSub(c[j], s)
    <3>1. IsPing(b[k], s)
      BY <1>1, <1>2, <2>2
    <3>2. k > 1 /\ IsUnsub(b[k - 1], s)
      BY <3>1 DEF DrainedIn
    <3>3. k - 1 \in 1..Len(b) /\ i - 1 = Len(a) + (k - 1) /\ i > 1
      BY <1>1, <2>2, <3>2
    <3>4. IsUnsub(c[i - 1], s)
      BY <1>1, <3>2, <3>3
    <3>5. ASSUME NEW j \in (i + 1)..Len(c) PROVE ~IsSub(c[j], s)
      <4>1. j - Len(a) \in (k + 1)..Len(b) /\ j - Len(a) \in 1..Len(b) /\ j = Len(a) + (j - Len(a))
        BY <1>1, <2>2
      <4>2. ~IsSub(b[j - Len(a)], s)
        BY <3>1, <4>1 DEF DrainedIn
      <4> QED
        BY <1>1, <4>1, <4>2
    <3> QED
      BY <3>3, <3>4, <3>5
  <2> QED
    BY <1>1, <2>1, <2>2
<1> QED
  BY <1>2 DEF DrainedIn, c

(* The first of two sequences. *)
LEMMA DrainedFront ==
  ASSUME NEW V, NEW a \in Seq(V), NEW b \in Seq(V), NEW s, NEW off, DrainedIn(a \o b, s, off)
  PROVE  DrainedIn(a, s, off)
<1> DEFINE c == a \o b
<1>1. /\ Len(c) = Len(a) + Len(b) /\ Len(a) \in Nat /\ Len(b) \in Nat
      /\ \A i \in 1..Len(a) : c[i] = a[i]
  BY ConcatAt
<1>2. DrainedIn(c, s, off)
  OBVIOUS
<1> HIDE DEF c
<1>3. ASSUME NEW i \in 1..Len(a), IsPing(a[i], s)
      PROVE  /\ (i = 1 /\ off) \/ (i > 1 /\ IsUnsub(a[i - 1], s))
             /\ \A j \in (i + 1)..Len(a) : ~IsSub(a[j], s)
  <2>1. i \in 1..Len(c) /\ c[i] = a[i] /\ (i > 1 => i - 1 \in 1..Len(a))
    BY <1>1
  <2>2. \A j \in (i + 1)..Len(a) : j \in (i + 1)..Len(c) /\ j \in 1..Len(a)
    BY <1>1
  <2>3. /\ (i = 1 /\ off) \/ (i > 1 /\ IsUnsub(c[i - 1], s))
        /\ \A j \in (i + 1)..Len(c) : ~IsSub(c[j], s)
    BY <1>2, <1>3, <2>1 DEF DrainedIn
  <2> QED
    BY <1>1, <2>1, <2>2, <2>3
<1> QED
  BY <1>3 DEF DrainedIn

(* The server takes the first command: an UNSUB leaves no interest (off),  *)
(* and the PING of a drain finds none.                                     *)
LEMMA DrainedTail ==
  ASSUME NEW V, NEW q \in Seq(V), q # <<>>, NEW s, NEW old, NEW off, DrainedIn(q, s, old),
         IsUnsub(Head(q), s) => off
  PROVE  /\ DrainedIn(Tail(q), s, off)
         /\ IsPing(Head(q), s) => old /\ NoSubOf(Tail(q), s)
<1> DEFINE r == Tail(q)
<1>1. /\ Len(q) \in Nat /\ Len(q) # 0 /\ Len(r) = Len(q) - 1 /\ q[1] = Head(q)
      /\ \A i \in 1..Len(r) : i + 1 \in 1..Len(q) /\ r[i] = q[i + 1]
  OBVIOUS
<1> HIDE DEF r
<1>2. ASSUME NEW i \in 1..Len(r), IsPing(r[i], s)
      PROVE  /\ (i = 1 /\ off) \/ (i > 1 /\ IsUnsub(r[i - 1], s))
             /\ \A j \in (i + 1)..Len(r) : ~IsSub(r[j], s)
  <2>1. i + 1 \in 1..Len(q) /\ r[i] = q[i + 1] /\ i + 1 > 1 /\ (i + 1) - 1 = i /\ i + 1 # 1
    BY <1>1
  <2>2. /\ IsUnsub(q[i], s)
        /\ \A j \in ((i + 1) + 1)..Len(q) : ~IsSub(q[j], s)
    BY <1>2, <2>1 DEF DrainedIn
  <2>3. CASE i = 1
    BY <1>1, <2>2, <2>3
  <2>4. CASE i # 1
    <3>1. i > 1 /\ i - 1 \in 1..Len(r) /\ (i - 1) + 1 = i
      BY <1>1, <2>4
    <3> QED
      BY <1>1, <2>2, <3>1
  <2>5. ASSUME NEW j \in (i + 1)..Len(r) PROVE ~IsSub(r[j], s)
    <3>1. j + 1 \in ((i + 1) + 1)..Len(q) /\ j \in 1..Len(r)
      BY <1>1
    <3> QED
      BY <1>1, <2>2, <3>1
  <2> QED
    BY <2>2, <2>3, <2>4, <2>5
<1>3. DrainedIn(r, s, off)
  BY <1>2 DEF DrainedIn
<1>4. ASSUME IsPing(Head(q), s) PROVE old /\ NoSubOf(r, s)
  <2>1. 1 \in 1..Len(q)
    BY <1>1
  <2>2. old /\ \A j \in (1 + 1)..Len(q) : ~IsSub(q[j], s)
    BY <1>1, <1>4, <2>1 DEF DrainedIn
  <2>3. \A j \in 1..Len(r) : j + 1 \in (1 + 1)..Len(q)
    BY <1>1
  <2> QED
    BY <1>1, <2>2, <2>3 DEF NoSubOf
<1> QED
  BY <1>3, <1>4 DEF r

(* No interest is left already, or still. *)
LEMMA DrainedOff ==
  ASSUME NEW q, NEW s, NEW old, NEW off, DrainedIn(q, s, old), old => off
  PROVE  DrainedIn(q, s, off)
BY DEF DrainedIn

(* Commands that are no PINGs of drains. *)
LEMMA Undrained ==
  ASSUME NEW q, NEW s, NEW off, \A i \in 1..Len(q) : ~IsPing(q[i], s)
  PROVE  DrainedIn(q, s, off)
BY DEF DrainedIn

(* What drains write. *)
LEMMA drainCmdsNeat ==
  ASSUME NEW q \in Seq(Sid), NEW s \in Sid
  PROVE  DrainedIn(drainCmds(q), s, FALSE) /\ NoSubOf(drainCmds(q), s)
<1> DEFINE d == drainCmds(q)
<1>1. Len(d) = 2 * Len(q) /\ Len(q) \in Nat
  <2>1. d \in Seq(Command) /\ DOMAIN d = 1..(2 * Len(q)) /\ 2 * Len(q) \in Nat
    BY drainCmdsType DEF drainCmds
  <2> QED
    BY <2>1
<1>2. \A i \in 1..(2 * Len(q)) :
        d[i] = IF i % 2 = 1 THEN UNSUB(q[(i + 1) \div 2], 0) ELSE PING(DrainOf(q[i \div 2]))
  BY DEF drainCmds
<1> HIDE DEF d
<1>3. NoSubOf(d, s)
  <2>1. \A i \in 1..(2 * Len(q)) : d[i].op # "SUB"
    BY <1>2, Ops
  <2> QED
    BY <1>1, <2>1 DEF NoSubOf, IsSub
<1>4. ASSUME NEW i \in 1..Len(d), IsPing(d[i], s)
      PROVE  i > 1 /\ IsUnsub(d[i - 1], s)
  <2>1. i % 2 # 1 /\ i \in 1..(2 * Len(q))
    BY <1>1, <1>2, <1>4, Ops DEF IsPing
  <2>2. d[i] = PING(DrainOf(q[i \div 2]))
    BY <1>2, <2>1
  <2>3. DrainOf(q[i \div 2]) = DrainOf(s)
    BY <1>4, <2>2, Ops DEF IsPing
  <2>4. q[i \div 2] = s
    BY <2>3, TagsDiffer
  <2>5. i > 1 /\ i - 1 \in 1..(2 * Len(q)) /\ (i - 1) % 2 = 1 /\ ((i - 1) + 1) \div 2 = i \div 2
    BY <1>1, <2>1
  <2>6. d[i - 1] = UNSUB(s, 0)
    BY <1>2, <2>4, <2>5
  <2> QED
    BY <2>5, <2>6 DEF IsUnsub, UNSUB
<1>5. DrainedIn(d, s, FALSE)
  <2>1. \A i \in 1..Len(d) : \A j \in (i + 1)..Len(d) : j \in 1..Len(d)
    BY <1>1
  <2> QED
    BY <1>3, <1>4, <2>1 DEF DrainedIn, NoSubOf
<1> QED
  BY <1>3, <1>5 DEF d

-----------------------------------------------------------------------------
(* The invariant of drains.                                                *)

(* The commands that the server is going to process. *)
Ahead == IF Kept THEN Written ELSE c2s

(* The drain of s was answered, or ended. *)
Answered(s) == subs[s].drain = "settled" \/ \E i \in 1..Len(s2c) : IsPong(s2c[i], s)

(* A PING of a drain is behind an UNSUB that the server has yet to process *)
(* or that has ended the interest; from its PONG on nothing subscribes     *)
(* again and no message is behind the PONG.                                *)
DrainInv ==
  \A s \in Sid :
    /\ DrainedIn(Ahead, s, connected /\ ~srv[s].on)
    /\ Answered(s) => ~srv[s].on /\ NoSubOf(Ahead, s)
    /\ subs[s].drain = "settled" =>
         ~subs[s].listed /\ \A i \in 1..Len(s2c) : ~Carries(s2c[i], s)
    /\ \A i \in 1..Len(s2c) :
         IsPong(s2c[i], s) => \A j \in (i + 1)..Len(s2c) : ~Carries(s2c[j], s)
    /\ subs[s].drain # "no" => s <= sidCounter /\ flushed[DrainOf(s)] # "none"

(* The handshake: until the dial is done the PING of CONNECT is the only   *)
(* command written, and its PONG the only one sent.                        *)
HandInv ==
  /\ transport \in {"none", "connecting", "gone"} => srv = NoInterest
  /\ transport = "leaving" => connected
  /\ transport = "open" /\ ~connected /\ infoReceived =>
       \/ c2s = <<PING(Connect)>> /\ \A i \in 1..Len(s2c) : ~Marked(s2c[i])
       \/ c2s = <<>> /\ \A i, j \in 1..Len(s2c) :
                          Marked(s2c[i]) /\ Marked(s2c[j]) => i = j /\ s2c[i].tag = Connect
  /\ connected => Connect \notin Marks(s2c) /\ Connect \notin Marks(c2s)
  /\ Kept => Connect \notin Marks(outbound)

(* The last flush of drain(): nothing is published after it. *)
FinalInv ==
  /\ flushed[Final] # "none" => noMorePublishing /\ recent \subseteq owed[Final]
  /\ flushed[Final] = "resolved" => closed

SettleInv == BarrierInv /\ DrainInv /\ HandInv /\ FinalInv

-----------------------------------------------------------------------------
(* What handlers write is held back until the dial is done, and neat: the  *)
(* PINGs of drains behind their UNSUBs, no SUB of what drains, no PING of  *)
(* CONNECT.                                                                *)
Held(io) == ~connected => io.wire = c2s
Neat(cmds) ==
  /\ Connect \notin Marks(cmds)
  /\ \A s \in Sid : /\ DrainedIn(cmds, s, FALSE)
                    /\ flushed[DrainOf(s)] # "none" => NoSubOf(cmds, s)
WritesNeatly ==
  \E io \in IOType, cmds \in Seq(Command) :
    Wrote(io, cmds) /\ SetIO(io) /\ Held(io) /\ Neat(cmds)

(* Writing is held back. *)
LEMMA HeldSend ==
  ASSUME NEW io \in IOType, Held(io), NEW cmd \in Command
  PROVE  Held(flushPending(io)) /\ Held(sendCommand(io, cmd))
<1>1. ASSUME NEW v \in IOType, v.wire = io.wire PROVE Held(flushPending(v))
  BY <1>1 DEF Held, flushPending
<1> DEFINE filled == [io EXCEPT !.out = Append(@, cmd)]
<1>2. filled \in IOType /\ filled.wire = io.wire /\ [filled EXCEPT !.queued = TRUE].wire = io.wire
  <2>1. Append(io.out, cmd) \in Seq(Command)
    BY IOParts
  <2>2. \A o \in Seq(Command) :
          /\ [io EXCEPT !.out = o] \in IOType /\ [io EXCEPT !.out = o].wire = io.wire
          /\ [[io EXCEPT !.out = o] EXCEPT !.queued = TRUE].wire = io.wire
    BY DEF IOType
  <2> QED
    BY <2>1, <2>2
<1>3. \/ sendCommand(io, cmd) = [filled EXCEPT !.queued = TRUE]
      \/ sendCommand(io, cmd) = flushPending(filled)
      \/ sendCommand(io, cmd) = filled
  BY DEF sendCommand
<1> HIDE DEF filled
<1>4. Held(flushPending(filled)) /\ Held(filled) /\ Held([filled EXCEPT !.queued = TRUE])
  BY <1>1, <1>2 DEF Held
<1> QED
  BY <1>1, <1>3, <1>4

(* So are UNSUBs and PINGs. *)
LEMMA HeldCalls ==
  ASSUME TypeOK
  PROVE  /\ Held(IO)
         /\ \A s, m \in Nat : Held(unsubIO(IO, s, m))
         /\ \A t \in Tag : Held(flushPing(IO, t))
         /\ \A q \in Seq(Sid) : Held(drainIO(IO, q))
<1>1. Held(IO) /\ IO \in IOType
  BY IOTyped DEF Held, IO
<1>2. ASSUME NEW s \in Nat, NEW m \in Nat PROVE Held(unsubIO(IO, s, m))
  BY <1>1, CommandType, HeldSend DEF unsubIO
<1>3. ASSUME NEW t \in Tag PROVE Held(flushPing(IO, t))
  <2>1. [IO EXCEPT !.out = Append(@, PING(t))].wire = c2s
    BY DEF IO
  <2> QED
    BY <2>1 DEF flushPing, flushPending, Held
<1>4. ASSUME NEW q \in Seq(Sid) PROVE Held(drainIO(IO, q))
  <2>1. \A o, b : [IO EXCEPT !.out = o, !.queued = b].wire = c2s
    BY DEF IO
  <2> QED
    BY <1>1, <2>1 DEF drainIO, flushPending, Held
<1> QED
  BY <1>1, <1>2, <1>3, <1>4

(* SUBs, UNSUBs and PUBs are neat. *)
LEMMA NeatPlain ==
  ASSUME NEW cmds, \A i \in 1..Len(cmds) : cmds[i].op \in {"SUB", "UNSUB", "PUB"},
         \A s \in Sid : flushed[DrainOf(s)] # "none" => NoSubOf(cmds, s)
  PROVE  Neat(cmds)
<1>1. \A i \in 1..Len(cmds) : ~Marked(cmds[i]) /\ \A s \in Sid : ~IsPing(cmds[i], s)
  BY DEF Marked, IsPing
<1>2. Connect \notin Marks(cmds)
  BY <1>1, MarksHas
<1>3. \A s \in Sid : DrainedIn(cmds, s, FALSE)
  BY <1>1, Undrained
<1> QED
  BY <1>2, <1>3 DEF Neat

(* No command, or an UNSUB, is neat. *)
LEMMA NeatUnsub ==
  ASSUME BarrierInv, NEW s \in Nat, NEW m \in Nat, SetIO(IO) \/ SetIO(unsubIO(IO, s, m))
  PROVE  WritesNeatly
<1>0. TypeOK /\ NoInfoYet /\ IO \in IOType /\ Wrote(IO, <<>>)
  BY CallFacts
<1>1. UNSUB(s, m) \in Command /\ UNSUB(s, m).op = "UNSUB"
  BY CommandType, Ops
<1>2. /\ <<>> \in Seq(Command) /\ <<UNSUB(s, m)>> \in Seq(Command)
      /\ \A i \in 1..Len(<<>>) : <<>>[i].op = "UNSUB"
      /\ \A i \in 1..Len(<<UNSUB(s, m)>>) : <<UNSUB(s, m)>>[i].op = "UNSUB"
  BY <1>1
<1>3. Neat(<<>>) /\ Neat(<<UNSUB(s, m)>>)
  <2>1. ASSUME NEW cmds, \A i \in 1..Len(cmds) : cmds[i].op = "UNSUB" PROVE Neat(cmds)
    BY <2>1, NeatPlain DEF NoSubOf, IsSub
  <2> QED
    BY <1>2, <2>1
<1>4. /\ unsubIO(IO, s, m) \in IOType /\ Held(unsubIO(IO, s, m)) /\ Held(IO)
      /\ Wrote(unsubIO(IO, s, m), <<>>) \/ Wrote(unsubIO(IO, s, m), <<UNSUB(s, m)>>)
  BY <1>0, unsubIOType, unsubIOWrote, HeldCalls
<1> QED
  BY <1>0, <1>2, <1>3, <1>4 DEF WritesNeatly

-----------------------------------------------------------------------------
(* Handlers write neatly.                                                  *)

(* Every call and task writes neatly. *)
LEMMA NeatWrites ==
  ASSUME BarrierInv, TypeOK',
         \/ \E m \in Maxes : subscribe(m)
         \/ \E s \in Sid, m \in Maxes : unsubscribe(s, m)
         \/ flush \/ publish \/ drain \/ drainFlush \/ flushTask \/ processMsg
         \/ \E s \in Sid : drainSub(s) \/ subTimeout(s) \/ iterDone(s)
  PROVE  WritesNeatly
<1>0. /\ TypeOK /\ QueueInv /\ CallInv /\ NoInfoYet
      /\ subs \in [Sid -> Subscription] /\ IO \in IOType /\ Wrote(IO, <<>>)
      /\ Sid \subseteq Nat /\ Maxes \subseteq Nat /\ Held(IO) /\ 0 \in Nat
  BY CallFacts, HeldCalls
<1>1. ASSUME NEW m \in Maxes, subscribe(m) PROVE WritesNeatly
  <2> DEFINE s == sidCounter + 1
             io == sendCommand(IO, SUB(s))
             one == <<SUB(s)>>
             two == <<SUB(s)>> \o <<UNSUB(s, m)>>
  <2>1. s \in Sid /\ s \in Nat /\ m \in Nat /\ s > sidCounter
    BY <1>0, <1>1, ProtocolAssumption DEF subscribe, TypeOK, Sid
  <2>2. SUB(s) \in Command /\ UNSUB(s, m) \in Command
    BY <2>1, CommandType
  <2>3. /\ <<>> \in Seq(Command) /\ <<>> \o one = one /\ one \in Seq(Command) /\ two \in Seq(Command)
        /\ \A i \in 1..Len(one) : one[i] = SUB(s)
        /\ \A i \in 1..Len(two) : two[i] = SUB(s) \/ two[i] = UNSUB(s, m)
    <3>1. \A a, b \in Command :
            /\ <<>> \o <<a>> = <<a>> /\ <<a>> \in Seq(Command) /\ <<a>> \o <<b>> \in Seq(Command)
            /\ \A i \in 1..Len(<<a>>) : <<a>>[i] = a
            /\ Len(<<a>> \o <<b>>) = 2 /\ (<<a>> \o <<b>>)[1] = a /\ (<<a>> \o <<b>>)[2] = b
      OBVIOUS
    <3>2. 1..2 = {1, 2}
      OBVIOUS
    <3> QED
      BY <2>2, <3>1, <3>2
  <2>4. io \in IOType /\ Wrote(io, one) /\ Held(io)
    BY <1>0, <2>2, <2>3, sendCommandType, sendCommandWrote, HeldSend
  <2>5. SetIO(io) \/ SetIO(sendCommand(io, UNSUB(s, m)))
    BY <1>1 DEF subscribe
  <2>6. Neat(one) /\ Neat(two)
    <3>1. flushed[DrainOf(s)] = "none"
      BY <1>0, <2>1 DEF CallInv
    <3>2. \A r \in Sid : flushed[DrainOf(r)] # "none" =>
             ~IsSub(SUB(s), r) /\ ~IsSub(UNSUB(s, m), r)
      BY <3>1 DEF IsSub, SUB, UNSUB
    <3>3. SUB(s).op = "SUB" /\ UNSUB(s, m).op = "UNSUB"
      BY Ops
    <3> HIDE DEF one, two
    <3>4. Neat(one)
      BY <2>3, <3>2, <3>3, NeatPlain DEF NoSubOf
    <3>5. Neat(two)
      <4>1. \A i \in 1..Len(two) : two[i].op \in {"SUB", "UNSUB", "PUB"}
        BY <2>3, <3>3
      <4>2. \A r \in Sid : flushed[DrainOf(r)] # "none" => NoSubOf(two, r)
        BY <2>3, <3>2 DEF NoSubOf
      <4> QED
        BY <4>1, <4>2, NeatPlain
    <3> QED
      BY <3>4, <3>5
  <2> HIDE DEF io
  <2>7. /\ sendCommand(io, UNSUB(s, m)) \in IOType /\ Held(sendCommand(io, UNSUB(s, m)))
        /\ Wrote(sendCommand(io, UNSUB(s, m)), two)
    BY <1>0, <2>2, <2>3, <2>4, sendCommandType, sendCommandWrote, HeldSend
  <2> HIDE DEF one, two
  <2> QED
    BY <2>3, <2>4, <2>5, <2>6, <2>7 DEF WritesNeatly
<1>2. ASSUME NEW s \in Sid, NEW m \in Maxes, unsubscribe(s, m) PROVE WritesNeatly
  <2>1. SetIO(unsubIO(IO, s, m))
    BY <1>2 DEF unsubscribe
  <2> QED
    BY <1>0, <2>1, NeatUnsub
<1>3. CASE publish
  <2> DEFINE p == pubs + 1
             io == sendCommand(IO, PUB(p))
  <2>1. PUB(p) \in Command /\ PUB(p).op = "PUB"
    <3>1. p \in PubId
      BY <1>0, <1>3, ProtocolAssumption DEF publish, TypeOK, PubId
    <3> QED
      BY <3>1, PubType, Ops
  <2>2. /\ <<>> \in Seq(Command) /\ <<>> \o <<PUB(p)>> = <<PUB(p)>> /\ <<PUB(p)>> \in Seq(Command)
        /\ \A i \in 1..Len(<<PUB(p)>>) : <<PUB(p)>>[i].op = "PUB"
    BY <2>1
  <2>3. io \in IOType /\ Wrote(io, <<PUB(p)>>) /\ Held(io)
    BY <1>0, <2>1, <2>2, sendCommandType, sendCommandWrote, HeldSend
  <2>4. SetIO(io)
    BY <1>3 DEF publish
  <2>5. Neat(<<PUB(p)>>)
    BY <2>2, NeatPlain DEF NoSubOf, IsSub
  <2> HIDE DEF io, p
  <2> QED
    BY <2>2, <2>3, <2>4, <2>5 DEF WritesNeatly
<1>4. ASSUME NEW t \in Tag, SetIO(flushPing(IO, t)), t # Connect,
             \A s \in Sid : t # DrainOf(s)
      PROVE  WritesNeatly
  <2>1. PING(t) \in Command /\ <<PING(t)>> \in Seq(Command)
    BY PingType
  <2>2. flushPing(IO, t) \in IOType /\ Wrote(flushPing(IO, t), <<PING(t)>>) /\ Held(flushPing(IO, t))
    BY <1>0, flushPingType, flushPingWrote, HeldCalls
  <2>3. \A i \in 1..Len(<<PING(t)>>) : <<PING(t)>>[i] = PING(t)
    OBVIOUS
  <2>4. \A s \in Sid : ~IsPing(PING(t), s) /\ ~IsSub(PING(t), s)
    BY <1>4, Ops DEF IsPing, IsSub
  <2>5. Connect \notin Marks(<<PING(t)>>)
    BY <1>4, <2>3, MarksHas, Ops
  <2>6. Neat(<<PING(t)>>)
    <3>1. \A s \in Sid : DrainedIn(<<PING(t)>>, s, FALSE)
      BY <2>3, <2>4, Undrained
    <3> QED
      BY <2>3, <2>4, <2>5, <3>1 DEF Neat, NoSubOf
  <2> QED
    BY <1>4, <2>1, <2>2, <2>6 DEF WritesNeatly
<1>5. CASE flush
  <2> DEFINE f == flushes + 1
  <2>1. f \in 1..MaxFlushes /\ FlushCall(f) \in Tag
    BY <1>0, <1>5, TagType, ProtocolAssumption DEF flush, TypeOK
  <2>2. SetIO(flushPing(IO, FlushCall(f)))
    BY <1>5 DEF flush
  <2> HIDE DEF f
  <2> QED
    BY <1>4, <2>1, <2>2, TagsDiffer
<1>6. CASE drainFlush
  BY <1>4, <1>6, TagType, TagsDiffer DEF drainFlush
<1>7. ASSUME NEW q \in Seq(Sid), SetIO(drainIO(IO, q)) PROVE WritesNeatly
  <2>1. drainIO(IO, q) \in IOType /\ Wrote(drainIO(IO, q), drainCmds(q)) /\ Held(drainIO(IO, q))
        /\ drainCmds(q) \in Seq(Command)
    BY <1>0, drainIOType, drainIOWrote, drainCmdsType, HeldCalls
  <2>2. Connect \notin Marks(drainCmds(q))
    BY drainCmdsFacts, TagsDiffer
  <2>3. Neat(drainCmds(q))
    BY <2>2, drainCmdsNeat DEF Neat
  <2> QED
    BY <1>7, <2>1, <2>3 DEF WritesNeatly
<1>8. CASE drain
  <2>1. PICK q \in InOrder(ToDrain) : SetIO(drainIO(IO, q))
    BY <1>8 DEF drain
  <2>2. q \in Seq(Sid)
    BY InOrderType DEF ToDrain, Listed
  <2> QED
    BY <1>7, <2>1, <2>2
<1>9. ASSUME NEW s \in Sid, drainSub(s) PROVE WritesNeatly
  <2>1. <<s>> \in Seq(Sid) /\ SetIO(drainIO(IO, <<s>>))
    BY <1>9 DEF drainSub
  <2> QED
    BY <1>7, <2>1
<1>10. CASE flushTask
  <2> DEFINE io == [flushPending(IO) EXCEPT !.queued = FALSE]
  <2>1. /\ flushPending(IO) \in IOType /\ Wrote(flushPending(IO), <<>>)
        /\ Held(flushPending(IO))
    <3>1. Held(flushPending(IO))
      BY <1>0 DEF Held, flushPending
    <3> QED
      BY <1>0, <3>1, flushPendingType, flushPendingWrote
  <2>2. io \in IOType /\ io.wire = flushPending(IO).wire /\ io.out = flushPending(IO).out
    BY <2>1 DEF IOType
  <2>3. SetIO(io)
    BY <1>10 DEF flushTask
  <2> HIDE DEF io
  <2>4. Wrote(io, <<>>) /\ Held(io)
    BY <2>1, <2>2 DEF Wrote, Held
  <2>5. <<>> \in Seq(Command) /\ \A i \in 1..Len(<<>>) : <<>>[i].op = "UNSUB"
    OBVIOUS
  <2>6. Neat(<<>>)
    BY <2>5, NeatPlain DEF NoSubOf, IsSub
  <2> QED
    BY <2>2, <2>3, <2>4, <2>5, <2>6 DEF WritesNeatly
<1>11. CASE processMsg
  <2> DEFINE s == Head(s2c).sid
  <2>1. s \in Nat
    <3>1. s2c \in Seq(Frame) /\ s2c # <<>>
      BY <1>0, <1>11 DEF processMsg, Reading, TypeOK
    <3>2. Head(s2c) \in Frame
      BY <3>1
    <3> QED
      BY <3>2 DEF Frame
  <2>2. SetIO(IO) \/ SetIO(unsubIO(IO, s, 0))
    BY <1>11, SMTT(30) DEF processMsg, SetIO, IO
  <2> HIDE DEF s
  <2> QED
    BY <1>0, <2>1, <2>2, NeatUnsub
<1>12. ASSUME NEW s \in Sid, subTimeout(s) \/ iterDone(s) PROVE WritesNeatly
  <2>1. SetIO(IO) \/ SetIO(unsubIO(IO, s, 0))
    BY <1>12 DEF subTimeout, iterDone
  <2> QED
    BY <1>0, <2>1, NeatUnsub, SMTT(30)
<1> QED
  BY <1>1, <1>2, <1>3, <1>5, <1>6, <1>8, <1>9, <1>10, <1>11, <1>12

(* Equal sequences that begin alike end alike. *)
LEMMA Cancel ==
  ASSUME NEW V, NEW a \in Seq(V), NEW b \in Seq(V), NEW c \in Seq(V)
  PROVE  a \o b = a \o c => b = c
<1>0. SUFFICES ASSUME a \o b = a \o c PROVE b = c
  OBVIOUS
<1>1. \A x \in Seq(V) :
        /\ Len(a \o x) = Len(a) + Len(x) /\ Len(a) \in Nat /\ Len(x) \in Nat
        /\ \A i \in 1..Len(x) : (a \o x)[Len(a) + i] = x[i]
  OBVIOUS
<1>2. \A i \in 1..Len(b) : (a \o b)[Len(a) + i] = b[i]
  BY <1>1
<1>3. Len(b) = Len(c) /\ Len(b) \in Nat
  BY <1>0, <1>1
<1>4. \A i \in 1..Len(b) : b[i] = c[i]
  BY <1>0, <1>1, <1>2, <1>3
<1>6. \A x, y \in Seq(V) : Len(x) = Len(y) /\ (\A i \in 1..Len(x) : x[i] = y[i]) => x = y
  BY SMTT(30)
<1> QED
  BY <1>3, <1>4, <1>6

(* Nobody waits in what is ahead for a drain that has not begun. *)
LEMMA AheadFacts ==
  ASSUME BarrierInv
  PROVE  /\ Ahead \in Seq(Command)
         /\ \A s \in Sid : flushed[DrainOf(s)] = "none" =>
              /\ \A i \in 1..Len(Ahead) : ~IsPing(Ahead[i], s)
              /\ \A i \in 1..Len(s2c) : ~IsPong(s2c[i], s)
<1>1. TypeOK /\ QueueInv
  BY CallFacts
<1>2. c2s \in Seq(Command) /\ Written \in Seq(Command)
  BY <1>1, WrittenType DEF TypeOK
<1>3. ASSUME NEW s \in Sid, flushed[DrainOf(s)] = "none"
      PROVE  /\ \A i \in 1..Len(Ahead) : ~IsPing(Ahead[i], s)
             /\ \A i \in 1..Len(s2c) : ~IsPong(s2c[i], s)
  <2>1. DrainOf(s) \in Tag
    BY TagType
  <2>2. DrainOf(s) \notin Marks(s2c) /\ DrainOf(s) \notin Marks(Ahead)
    BY <1>1, <1>3, <2>1 DEF QueueInv, FreshInv, Ahead
  <2>3. ASSUME NEW i \in 1..Len(Ahead) PROVE ~IsPing(Ahead[i], s)
    BY <2>2, MarksHas DEF IsPing, Marked
  <2>4. ASSUME NEW i \in 1..Len(s2c) PROVE ~IsPong(s2c[i], s)
    BY <2>2, MarksHas DEF IsPong, Marked
  <2> QED
    BY <2>3, <2>4
<1> QED
  BY <1>2, <1>3 DEF Ahead

(* What a handler that writes neatly may do to the table. *)
Drains ==
  \A s \in Sid :
    /\ subs'[s].drain = "settled" =>
         subs[s].drain = "settled" /\ (subs'[s].listed => subs[s].listed)
    /\ subs'[s].drain # "no" => s <= sidCounter' /\ flushed'[DrainOf(s)] # "none"

(* A handler that writes neatly keeps drains settled. *)
LEMMA NeatDrain ==
  ASSUME SettleInv, TypeOK', WritesNeatly, UNCHANGED link, srv' = srv, ReadsPast, Drains
  PROVE  DrainInv'
<1>0. /\ BarrierInv /\ TypeOK /\ DrainInv /\ connected' = connected
      /\ s2c \in Seq(Frame)
  BY CallFacts DEF SettleInv, link, TypeOK
<1>1. PICK io \in IOType, cmds \in Seq(Command) :
        Wrote(io, cmds) /\ SetIO(io) /\ Held(io) /\ Neat(cmds)
  BY DEF WritesNeatly
<1>2. Ahead' = Ahead \o cmds \/ Ahead' = Ahead
  <2>1. Kept' = Kept /\ Written' = io.wire \o io.out /\ c2s' = io.wire
    BY <1>1 DEF Kept, link, SetIO, Written
  <2> QED
    BY <1>1, <2>1 DEF Ahead, Wrote, Kept
<1>3. /\ Ahead \in Seq(Command)
      /\ \A s \in Sid : flushed[DrainOf(s)] = "none" =>
           /\ \A i \in 1..Len(Ahead) : ~IsPing(Ahead[i], s)
           /\ \A i \in 1..Len(s2c) : ~IsPong(s2c[i], s)
  BY <1>0, AheadFacts
<1>4. \A i \in 1..Len(s2c') : \E j \in 1..Len(s2c) : s2c'[i] = s2c[j]
  BY <1>0, Reads
<1>5. ASSUME NEW s \in Sid
      PROVE  /\ DrainedIn(Ahead', s, connected' /\ ~srv'[s].on)
             /\ Answered(s)' => ~srv'[s].on /\ NoSubOf(Ahead', s)
             /\ subs'[s].drain = "settled" =>
                  ~subs'[s].listed /\ \A i \in 1..Len(s2c') : ~Carries(s2c'[i], s)
             /\ \A i \in 1..Len(s2c') :
                  IsPong(s2c'[i], s) => \A j \in (i + 1)..Len(s2c') : ~Carries(s2c'[j], s)
  <2>0. /\ DrainedIn(Ahead, s, connected /\ ~srv[s].on)
        /\ Answered(s) => ~srv[s].on /\ NoSubOf(Ahead, s)
        /\ subs[s].drain = "settled" =>
             ~subs[s].listed /\ \A i \in 1..Len(s2c) : ~Carries(s2c[i], s)
        /\ \A i \in 1..Len(s2c) :
             IsPong(s2c[i], s) => \A j \in (i + 1)..Len(s2c) : ~Carries(s2c[j], s)
        /\ subs[s].drain # "no" => flushed[DrainOf(s)] # "none"
    BY <1>0 DEF DrainInv
  <2>1. NoSubOf(cmds, s) \/ flushed[DrainOf(s)] = "none"
    BY <1>1 DEF Neat
  <2>2. DrainedIn(Ahead', s, connected' /\ ~srv'[s].on)
    <3>1. DrainedIn(cmds, s, FALSE)
      BY <1>1 DEF Neat
    <3>2. DrainedIn(Ahead \o cmds, s, connected /\ ~srv[s].on)
      BY <1>3, <2>0, <2>1, <3>1, DrainedConcat
    <3> QED
      BY <1>0, <1>2, <2>0, <3>2
  <2>3. Answered(s)' => Answered(s)
    BY <1>4 DEF Answered, Drains
  <2>4. Answered(s) => flushed[DrainOf(s)] # "none"
    BY <1>3, <2>0 DEF Answered
  <2>5. Answered(s)' => ~srv'[s].on /\ NoSubOf(Ahead', s)
    <3>1. NoSubOf(Ahead, s) /\ NoSubOf(cmds, s) => NoSubOf(Ahead \o cmds, s)
      BY <1>3, NoSubConcat
    <3> QED
      BY <1>2, <2>0, <2>1, <2>3, <2>4, <3>1
  <2>6. subs'[s].drain = "settled" =>
          ~subs'[s].listed /\ \A i \in 1..Len(s2c') : ~Carries(s2c'[i], s)
    BY <1>4, <2>0 DEF Drains
  <2>7. ASSUME NEW i \in 1..Len(s2c'), IsPong(s2c'[i], s), NEW j \in (i + 1)..Len(s2c')
        PROVE  ~Carries(s2c'[j], s)
    <3>1. CASE s2c' = s2c
      BY <2>0, <2>7, <3>1
    <3>2. CASE s2c # <<>> /\ s2c' = Tail(s2c)
      <4>1. /\ i + 1 \in 1..Len(s2c) /\ s2c'[i] = s2c[i + 1]
            /\ j + 1 \in ((i + 1) + 1)..Len(s2c) /\ s2c'[j] = s2c[j + 1]
        BY <1>0, <3>2
      <4> QED
        BY <2>0, <2>7, <4>1
    <3> QED
      BY <3>1, <3>2 DEF ReadsPast
  <2> QED
    BY <2>2, <2>5, <2>6, <2>7
<1> QED
  BY <1>5 DEF DrainInv, Drains

(* A handler that writes neatly leaves the handshake alone. *)
LEMMA NeatHand ==
  ASSUME SettleInv, TypeOK', WritesNeatly, UNCHANGED link, srv' = srv, ReadsPast
  PROVE  HandInv'
<1>0. /\ BarrierInv /\ TypeOK /\ HandInv /\ UNCHANGED <<connected, transport, infoReceived>>
      /\ s2c \in Seq(Frame) /\ c2s \in Seq(Command) /\ outbound \in Seq(Command)
      /\ c2s' \in Seq(Command) /\ outbound' \in Seq(Command)
  BY CallFacts DEF SettleInv, link, TypeOK
<1>1. PICK io \in IOType, cmds \in Seq(Command) :
        Wrote(io, cmds) /\ SetIO(io) /\ Held(io) /\ Neat(cmds)
  BY DEF WritesNeatly
<1>2. Kept' = Kept /\ c2s' = io.wire /\ outbound' = io.out
  BY <1>0, <1>1 DEF Kept, SetIO
<1>3. ~connected => c2s' = c2s
  BY <1>1, <1>2 DEF Held
<1>4. ~Kept => c2s' = c2s
  BY <1>1, <1>2 DEF Wrote, Kept
<1>5. Kept => c2s' \o outbound' = (c2s \o outbound) \o cmds
  BY <1>1, <1>2 DEF Wrote, Written
<1>6. ASSUME Kept, connected
      PROVE  Connect \notin Marks(c2s') /\ Connect \notin Marks(outbound')
  <2>1. Marks(c2s' \o outbound') = Marks(c2s') \cup Marks(outbound')
    BY <1>0, MarksConcat
  <2>2. Marks(c2s \o outbound) = Marks(c2s) \cup Marks(outbound)
    BY <1>0, MarksConcat
  <2>3. c2s \o outbound \in Seq(Command)
    BY <1>0
  <2>4. Marks((c2s \o outbound) \o cmds) = Marks(c2s \o outbound) \cup Marks(cmds)
    BY <2>3, MarksConcat, ZenonT(40)
  <2> QED
    BY <1>0, <1>1, <1>5, <1>6, <2>1, <2>2, <2>4 DEF HandInv, Neat
<1>7. ASSUME Kept, ~connected
      PROVE  Connect \notin Marks(outbound')
  <2>1. c2s \o outbound' = c2s \o (outbound \o cmds) /\ outbound \o cmds \in Seq(Command)
    <3>1. \A a, b, c \in Seq(Command) : (a \o b) \o c = a \o (b \o c)
      BY ConcatAssoc, SMTT(30)
    <3>2. c2s \in Seq(Command) /\ outbound \in Seq(Command) /\ cmds \in Seq(Command)
      BY <1>0, <1>1
    <3>3. outbound \o cmds \in Seq(Command)
      BY <3>2
    <3>4. c2s \o outbound' = (c2s \o outbound) \o cmds
      BY <1>3, <1>5, <1>7
    <3> QED
      BY <3>1, <3>2, <3>3, <3>4, ZenonT(40)
  <2>2. outbound' = outbound \o cmds
    BY <1>0, <2>1, Cancel
  <2>3. Marks(outbound \o cmds) = Marks(outbound) \cup Marks(cmds)
    BY <1>0, MarksConcat
  <2> QED
    BY <1>0, <1>1, <1>7, <2>2, <2>3 DEF HandInv, Neat
<1>8. Marks(s2c') \subseteq Marks(s2c)
  BY <1>0, Reads
<1>9. ASSUME transport = "open", ~connected, infoReceived
      PROVE  \/ c2s' = <<PING(Connect)>> /\ \A i \in 1..Len(s2c') : ~Marked(s2c'[i])
             \/ c2s' = <<>> /\ \A i, j \in 1..Len(s2c') :
                          Marked(s2c'[i]) /\ Marked(s2c'[j]) => i = j /\ s2c'[i].tag = Connect
  <2>1. \/ c2s = <<PING(Connect)>> /\ \A i \in 1..Len(s2c) : ~Marked(s2c[i])
        \/ c2s = <<>> /\ \A i, j \in 1..Len(s2c) :
                     Marked(s2c[i]) /\ Marked(s2c[j]) => i = j /\ s2c[i].tag = Connect
    BY <1>0, <1>9 DEF HandInv
  <2>2. CASE s2c' = s2c
    BY <1>3, <1>9, <2>1, <2>2
  <2>3. CASE s2c # <<>> /\ s2c' = Tail(s2c)
    <3>1. \A i \in 1..Len(s2c') : i + 1 \in 1..Len(s2c) /\ s2c'[i] = s2c[i + 1] /\ i \in Nat
      BY <1>0, <2>3
    <3>2. \A i, j \in Nat : i + 1 = j + 1 => i = j
      OBVIOUS
    <3> QED
      BY <1>3, <1>9, <2>1, <3>1, <3>2
  <2> QED
    BY <2>2, <2>3 DEF ReadsPast
<1> QED
  BY <1>0, <1>2, <1>4, <1>6, <1>7, <1>8, <1>9 DEF HandInv

-----------------------------------------------------------------------------
(* Calls and tasks, and drains.                                            *)

(* A set of sids in the order of the table holds all of them. *)
LEMMA InOrderAll ==
  ASSUME NEW S \in SUBSET Sid, NEW q \in InOrder(S), NEW s \in S
  PROVE  \E i \in 1..Len(q) : q[i] = s
<1> DEFINE n == Cardinality(S)
<1>1. IsFiniteSet(S) /\ n \in Nat
  <2>1. IsFiniteSet(Sid)
    BY FS_Interval, ProtocolAssumption DEF Sid
  <2> QED
    BY <2>1, FS_Subset, FS_CardinalityType
<1>2. Cardinality(1..n) = n /\ IsFiniteSet(1..n)
  <2>1. 1 \in Int /\ n \in Int
    BY <1>1
  <2>2. Cardinality(1..n) = IF 1 > n THEN 0 ELSE n - 1 + 1
    BY <2>1, FS_Interval
  <2>3. IsFiniteSet(1..n)
    BY <2>1, FS_Interval
  <2> QED
    BY <1>1, <2>2, <2>3
<1>3. q \in [1..n -> S] /\ \A i, j \in 1..n : i < j => q[i] < q[j]
  BY DEF InOrder
<1>4. Len(q) = n
  BY <1>1, <1>3
<1> HIDE DEF n
<1>5. ASSUME NEW i \in 1..n, NEW j \in 1..n, q[i] = q[j]
      PROVE  i = j
  <2>1. q[i] \in Nat /\ q[j] \in Nat
    <3>1. q[i] \in S /\ q[j] \in S /\ Sid \subseteq Nat
      BY <1>3 DEF Sid
    <3> QED
      BY <3>1
  <2>2. ~(i < j) /\ ~(j < i)
    BY <1>3, <1>5, <2>1
  <2> QED
    BY <1>1, <2>2
<1>6. q \in Injection(1..n, S)
  BY <1>3, <1>5 DEF Injection, IsInjective
<1>7. q \in Surjection(1..n, S)
  BY <1>1, <1>2, <1>6, FS_Injection DEF n
<1> QED
  BY <1>4, <1>7 DEF Surjection

(* A step that starts drains with a flush(), and otherwise ends or makes   *)
(* subscriptions, is one of Drains.                                        *)
LEMMA DrainsWhen ==
  ASSUME SettleInv, sidCounter' \in Nat, sidCounter <= sidCounter',
         \A t \in Tag : flushed[t] # "none" => flushed'[t] # "none",
         \A s \in Sid : \/ Milder(subs'[s], subs[s])
                        \/ subs'[s].drain = "no"
                        \/ /\ subs'[s].drain = "pending" /\ s <= sidCounter
                           /\ flushed'[DrainOf(s)] # "none"
  PROVE  Drains
<1>0. DrainInv /\ sidCounter \in Nat /\ Sid \subseteq Nat /\ \A s \in Sid : DrainOf(s) \in Tag
  BY CallFacts, TagType DEF SettleInv, TypeOK
<1>1. \A s \in Nat : s <= sidCounter => s <= sidCounter'
  BY <1>0
<1>2. ASSUME NEW s \in Sid
      PROVE  /\ subs'[s].drain = "settled" =>
                  subs[s].drain = "settled" /\ (subs'[s].listed => subs[s].listed)
             /\ subs'[s].drain # "no" => s <= sidCounter' /\ flushed'[DrainOf(s)] # "none"
  <2>1. /\ s \in Nat /\ DrainOf(s) \in Tag
        /\ subs[s].drain # "no" => s <= sidCounter /\ flushed[DrainOf(s)] # "none"
    BY <1>0 DEF DrainInv
  <2>2. CASE Milder(subs'[s], subs[s])
    <3>1. /\ subs'[s].drain = subs[s].drain /\ (subs'[s].listed => subs[s].listed)
      BY <2>2 DEF Milder
    <3>2. subs[s].drain # "no" => flushed'[DrainOf(s)] # "none"
      BY <2>1
    <3>3. subs[s].drain # "no" => s <= sidCounter'
      BY <1>1, <2>1
    <3> QED
      BY <3>1, <3>2, <3>3
  <2>3. CASE subs'[s].drain = "no"
    BY <2>3
  <2>4. CASE subs'[s].drain = "pending" /\ s <= sidCounter /\ flushed'[DrainOf(s)] # "none"
    <3>1. s <= sidCounter'
      BY <1>1, <2>1, <2>4
    <3> QED
      BY <2>4, <3>1
  <2> QED
    BY <2>2, <2>3, <2>4
<1> QED
  BY <1>2 DEF Drains

(* What calls and tasks do to the table of subscriptions. *)
LEMMA PlainSubs ==
  ASSUME BarrierInv, TypeOK',
         \/ \E s \in Sid, m \in Maxes : unsubscribe(s, m)
         \/ publish \/ flushTask \/ processMsg \/ flush \/ drainFlush
         \/ \E s \in Sid : subTimeout(s) \/ iterDone(s)
  PROVE  \A r \in Sid : Milder(subs'[r], subs[r])
<1>0. /\ TypeOK /\ subs \in [Sid -> Subscription] /\ Sid \subseteq Nat /\ Maxes \subseteq Nat
      /\ 0 \in Nat
  BY CallFacts
<1>1. ASSUME NEW s \in Sid, NEW m \in Maxes, unsubscribe(s, m)
      PROVE  \A r \in Sid : Milder(subs'[r], subs[r])
  <2>1. subs' = [subs EXCEPT ![s] = unsubscribeSub(s, subs[s], m)]
    BY <1>1 DEF unsubscribe
  <2>2. Milder(unsubscribeSub(s, subs[s], m), subs[s])
    BY <1>0, MilderOps
  <2> QED
    BY <1>0, <2>1, <2>2 DEF Milder
<1>2. CASE publish \/ flushTask \/ flush \/ drainFlush
  <2>1. subs' = subs
    BY <1>2 DEF publish, flushTask, flush, drainFlush
  <2> QED
    BY <2>1 DEF Milder
<1>3. CASE processMsg
  <2> DEFINE s == Head(s2c).sid
             got == receivedSub(s, subs[s])
  <2>1. \/ subs' = subs
        \/ subs' = [subs EXCEPT ![s] = unsubscribeSub(s, got, 0)]
        \/ subs' = [subs EXCEPT ![s] = got]
    BY <1>3 DEF processMsg
  <2>2. s \in Sid => Milder(got, subs[s]) /\ got \in Subscription
    BY <1>0, MilderOps, SubscriptionOps, ZenonT(40)
  <2> HIDE DEF got, s
  <2>3. s \in Sid => Milder(unsubscribeSub(s, got, 0), got)
    BY <1>0, <2>2, MilderOps
  <2> QED
    BY <1>0, <2>1, <2>2, <2>3 DEF Milder
<1>4. ASSUME NEW s \in Sid, subTimeout(s) \/ iterDone(s)
      PROVE  \A r \in Sid : Milder(subs'[r], subs[r])
  <2> DEFINE fired == [subs[s] EXCEPT !.timer = FALSE]
             quit == [fired EXCEPT !.done = TRUE]
  <2>1. \/ subs' = [subs EXCEPT ![s] = stopIter(s, fired)]
        \/ subs' = [subs EXCEPT ![s] = quit]
        \/ subs' = [subs EXCEPT ![s] = stopIter(s, subs[s])]
    BY <1>4 DEF subTimeout, iterDone
  <2>2. fired \in Subscription /\ Milder(fired, subs[s]) /\ Milder(quit, subs[s])
    BY <1>0 DEF Subscription, Milder
  <2> HIDE DEF fired, quit
  <2>3. Milder(stopIter(s, fired), fired) /\ Milder(stopIter(s, subs[s]), subs[s])
    BY <1>0, <2>2, MilderOps
  <2> QED
    BY <1>0, <2>1, <2>2, <2>3, SMTT(30) DEF Milder
<1> QED
  BY <1>1, <1>2, <1>3, <1>4

(* Calls and tasks do not touch the transport or the server. *)
LEMMA WritesOnly ==
  ASSUME SettleInv, TypeOK',
         \/ \E m \in Maxes : subscribe(m)
         \/ \E s \in Sid, m \in Maxes : unsubscribe(s, m)
         \/ flush \/ publish \/ drain \/ drainFlush \/ flushTask \/ processMsg
         \/ \E s \in Sid : drainSub(s) \/ subTimeout(s) \/ iterDone(s)
  PROVE  UNCHANGED link /\ srv' = srv /\ ReadsPast /\ Drains
<1>0. /\ BarrierInv /\ TypeOK /\ CallInv /\ subs \in [Sid -> Subscription] /\ Sid \subseteq Nat
      /\ sidCounter \in Nat /\ sidCounter' \in Nat /\ \A s \in Sid : DrainOf(s) \in Tag
  <2>1. /\ BarrierInv /\ TypeOK /\ CallInv /\ subs \in [Sid -> Subscription] /\ Sid \subseteq Nat
    BY CallFacts DEF SettleInv
  <2>2. sidCounter \in 0..MaxSubs /\ sidCounter' \in 0..MaxSubs
    BY <2>1 DEF TypeOK
  <2> QED
    BY <2>1, <2>2, TagType
<1>1. UNCHANGED link /\ srv' = srv
  BY DEF subscribe, unsubscribe, flush, publish, drain, drainFlush, flushTask, processMsg,
         drainSub, subTimeout, iterDone, quiet
<1>2. ReadsPast
  <2>1. CASE processMsg
    <3>1. s2c # <<>> /\ Head(s2c).op = "MSG" /\ s2c' = Tail(s2c)
      BY <2>1 DEF processMsg, Reading
    <3> QED
      BY <3>1 DEF ReadsPast, Marked
  <2>2. CASE ~processMsg
    <3>1. s2c' = s2c
      BY <2>2 DEF subscribe, unsubscribe, flush, publish, drain, drainFlush, flushTask,
                  drainSub, subTimeout, iterDone, quiet
    <3> QED
      BY <3>1 DEF ReadsPast
  <2> QED
    BY <2>1, <2>2
<1>3. ASSUME NEW ts, pushPong(ts)
      PROVE  \A t \in Tag : flushed[t] # "none" => flushed'[t] # "none"
  BY <1>3 DEF pushPong
<1>4. \A t \in Tag : flushed[t] # "none" => flushed'[t] # "none"
  <2>1. CASE flush \/ drain \/ drainFlush \/ \E s \in Sid : drainSub(s)
    <3>1. \E ts : pushPong(ts)
      BY <2>1 DEF flush, drain, drainFlush, drainSub
    <3> QED
      BY <1>3, <3>1
  <2>2. CASE ~(flush \/ drain \/ drainFlush \/ \E s \in Sid : drainSub(s))
    <3>1. flushed' = flushed
      BY <2>2 DEF subscribe, unsubscribe, publish, flushTask, processMsg, subTimeout, iterDone, quiet
    <3> QED
      BY <3>1, SMTT(30)
  <2> QED
    BY <2>1, <2>2
<1>5. ASSUME NEW m \in Maxes, subscribe(m) PROVE Drains
  <2>1. /\ sidCounter' = sidCounter + 1
        /\ subs' = [subs EXCEPT ![sidCounter + 1] = NewSub(sidCounter + 1, m)]
    BY <1>5 DEF subscribe
  <2>2. NewSub(sidCounter + 1, m).drain = "no"
    BY DEF NewSub
  <2>3. \A s \in Sid : Milder(subs'[s], subs[s]) \/ subs'[s].drain = "no"
    BY <1>0, <2>1, <2>2 DEF Milder
  <2>4. sidCounter <= sidCounter'
    BY <1>0, <2>1
  <2> QED
    BY <1>0, <1>4, <2>3, <2>4, DrainsWhen
<1>6. ASSUME NEW S \in SUBSET Sid,
             \A s \in Sid : (s \in S /\ subs'[s] = startDrain(subs[s]))
                            \/ (s \notin S /\ subs'[s] = subs[s]),
             \A s \in S : s <= sidCounter /\ flushed'[DrainOf(s)] # "none",
             sidCounter' = sidCounter
      PROVE  Drains
  <2>1. \A s \in S : subs'[s].drain = "pending"
    BY <1>0, <1>6, startDrainFacts
  <2>2. \A s \in Sid : Milder(subs'[s], subs[s])
           \/ (subs'[s].drain = "pending" /\ s <= sidCounter /\ flushed'[DrainOf(s)] # "none")
    BY <1>6, <2>1 DEF Milder
  <2>3. sidCounter <= sidCounter'
    BY <1>0, <1>6
  <2> QED
    BY <1>0, <1>4, <2>2, <2>3, DrainsWhen
<1>7. ASSUME drain PROVE Drains
  <2>1. PICK q \in InOrder(ToDrain) : pushPong([i \in 1..Len(q) |-> DrainOf(q[i])])
    BY <1>7 DEF drain
  <2>2. ToDrain \in SUBSET Sid
    BY DEF ToDrain, Listed
  <2>3. sidCounter' = sidCounter /\ \A s \in Sid :
           (s \in ToDrain /\ subs'[s] = startDrain(subs[s])) \/ (s \notin ToDrain /\ subs'[s] = subs[s])
    BY <1>7 DEF drain
  <2>4. \A s \in ToDrain : subs'[s].drain = "pending" /\ s <= sidCounter /\ DrainOf(s) \in Tag
    BY <1>0, <2>2, <2>3, startDrainFacts DEF ToDrain, Listed, CallInv
  <2>5. ASSUME NEW s \in ToDrain PROVE flushed'[DrainOf(s)] # "none"
    <3>1. \E i \in 1..Len(q) : q[i] = s
      BY <2>2, <2>5, InOrderAll
    <3>2. PICK i \in 1..Len(q) : q[i] = s
      BY <3>1
    <3> DEFINE ts == [j \in 1..Len(q) |-> DrainOf(q[j])]
    <3>3. Len(ts) = Len(q) /\ ts[i] = DrainOf(s)
      BY <2>2, <3>2, InOrderType
    <3>4. \E j \in 1..Len(ts) : ts[j] = DrainOf(s)
      BY <3>3
    <3> HIDE DEF ts
    <3>5. pushPong(ts)
      BY <2>1 DEF ts
    <3> QED
      BY <2>4, <3>4, <3>5 DEF pushPong
  <2> QED
    BY <1>6, <2>2, <2>3, <2>4, <2>5
<1>8. ASSUME NEW s \in Sid, drainSub(s) PROVE Drains
  <2>1. /\ s <= sidCounter /\ pushPong(<<DrainOf(s)>>) /\ sidCounter' = sidCounter
        /\ subs' = [subs EXCEPT ![s] = startDrain(subs[s])]
    BY <1>8 DEF drainSub
  <2>2. flushed'[DrainOf(s)] = "pending"
    <3>1. <<DrainOf(s)>>[1] = DrainOf(s) /\ 1 \in 1..Len(<<DrainOf(s)>>)
      OBVIOUS
    <3> QED
      BY <1>0, <2>1, <3>1 DEF pushPong
  <2>3. {s} \in SUBSET Sid /\ \A r \in Sid : (r \in {s} /\ subs'[r] = startDrain(subs[r]))
                                             \/ (r \notin {s} /\ subs'[r] = subs[r])
    BY <1>0, <2>1
  <2>4. \A r \in {s} : r <= sidCounter /\ flushed'[DrainOf(r)] # "none"
    BY <2>1, <2>2
  <2> QED
    BY <1>6, <2>1, <2>3, <2>4
<1>9. ASSUME \/ \E s \in Sid, m \in Maxes : unsubscribe(s, m)
             \/ publish \/ flushTask \/ processMsg \/ flush \/ drainFlush
             \/ \E s \in Sid : subTimeout(s) \/ iterDone(s)
      PROVE  Drains
  <2>1. \A s \in Sid : Milder(subs'[s], subs[s])
    BY <1>0, <1>9, PlainSubs, SMTT(30)
  <2>2. sidCounter' = sidCounter
    BY <1>9 DEF unsubscribe, flush, publish, drainFlush, flushTask, processMsg, subTimeout,
                iterDone, quiet
  <2> QED
    BY <1>0, <1>4, <2>1, <2>2, DrainsWhen, SMTT(30)
<1>10. Drains
  BY <1>5, <1>7, <1>8, <1>9
<1> QED
  BY <1>1, <1>2, <1>10

-----------------------------------------------------------------------------
(* Transports that end and begin, and drains.                              *)

(* What is known in every state. *)
LEMMA SettleFacts ==
  ASSUME SettleInv
  PROVE  /\ BarrierInv /\ TypeOK /\ QueueInv /\ CallInv /\ DialInv /\ WireInv /\ NoInfoYet
         /\ DrainInv /\ HandInv /\ FinalInv
         /\ subs \in [Sid -> Subscription] /\ Sid \subseteq Nat /\ sidCounter \in Nat
         /\ c2s \in Seq(Command) /\ outbound \in Seq(Command) /\ s2c \in Seq(Frame)
         /\ pongs \in Seq(Tag)
         /\ flushed \in [Tag -> {"none", "pending", "resolved", "rejected"}]
         /\ \A s \in Sid : DrainOf(s) \in Tag
<1>1. BarrierInv /\ DrainInv /\ HandInv /\ FinalInv
  BY DEF SettleInv
<1>2. /\ TypeOK /\ QueueInv /\ CallInv /\ NoInfoYet /\ DialInv /\ WireInv
      /\ subs \in [Sid -> Subscription] /\ Sid \subseteq Nat
  BY <1>1, CallFacts DEF BarrierInv, StrandedInv
<1>3. sidCounter \in 0..MaxSubs
  BY <1>2 DEF TypeOK
<1>4. /\ c2s \in Seq(Command) /\ outbound \in Seq(Command) /\ s2c \in Seq(Frame)
      /\ pongs \in Seq(Tag)
      /\ flushed \in [Tag -> {"none", "pending", "resolved", "rejected"}]
  BY <1>2 DEF TypeOK
<1> QED
  BY <1>1, <1>2, <1>3, <1>4, TagType

(* Nothing is on the empty wire. *)
LEMMA EmptyWire ==
  /\ Marks(<<>>) = {}
  /\ \A s : NoSubOf(<<>>, s) /\ \A off : DrainedIn(<<>>, s, off)
  /\ \A s : ~NoInterest[s].on \/ s \notin Sid
  /\ \A i \in 1..Len(<<>>) : FALSE
<1>1. \A i \in 1..Len(<<>>) : FALSE
  OBVIOUS
<1> QED
  BY <1>1 DEF Marks, NoSubOf, DrainedIn, NoInterest

(* The transport is lost: drains that have not settled stay as they are.   *)
LEMMA SettleGone ==
  ASSUME SettleInv, TypeOK',
         drainClose \/ close \/ giveUp \/ dialFail \/ socketLost \/ transportLeft
  PROVE  DrainInv' /\ HandInv'
<1>0. /\ DrainInv /\ subs \in [Sid -> Subscription] /\ TypeOK
      /\ flushed \in [Tag -> {"none", "pending", "resolved", "rejected"}]
      /\ \A s \in Sid : DrainOf(s) \in Tag
  BY SettleFacts
<1>1. /\ c2s' = <<>> /\ s2c' = <<>> /\ srv' = NoInterest /\ transport' = "gone"
      /\ doClose \/ subs' = subs
      /\ sidCounter' = sidCounter
      /\ flushed' = flushed \/ flushed' = [flushed EXCEPT ![Final] = "resolved"]
  BY DEF drainClose, close, giveUp, doClose, dialFail, socketLost, transportLeft, disconnected,
         WireDown, app
<1>2. ~Kept' /\ Ahead' = <<>>
  BY <1>1 DEF Kept, Ahead
<1>3. \A s \in Sid : Milder(subs'[s], subs[s])
  <2>1. CASE subs' = subs
    BY <2>1 DEF Milder
  <2>2. CASE doClose
    <3>1. \A s \in Sid : subs'[s] = closeSub(s, subs[s]) \/ subs'[s] = subs[s]
      BY <2>2 DEF doClose
    <3>2. \A s \in Sid : Milder(closeSub(s, subs[s]), subs[s])
      <4>1. 0 \in Nat
        OBVIOUS
      <4> QED
        BY <1>0, <4>1, MilderOps
    <3> QED
      BY <3>1, <3>2 DEF Milder
  <2> QED
    BY <1>1, <2>1, <2>2
<1>4. \A t \in Tag : flushed[t] # "none" => flushed'[t] # "none"
  BY <1>0, <1>1
<1>5. ASSUME NEW s \in Sid
      PROVE  /\ subs'[s].drain = "settled" => ~subs'[s].listed
             /\ subs'[s].drain # "no" => s <= sidCounter' /\ flushed'[DrainOf(s)] # "none"
  <2>1. /\ subs[s].drain = "settled" => ~subs[s].listed
        /\ subs[s].drain # "no" => s <= sidCounter /\ flushed[DrainOf(s)] # "none"
    BY <1>0 DEF DrainInv
  <2> QED
    BY <1>0, <1>1, <1>3, <1>4, <2>1 DEF Milder
<1>6. DrainInv'
  BY <1>1, <1>2, <1>5, EmptyWire DEF DrainInv
<1>7. HandInv'
  BY <1>1, <1>2, EmptyWire DEF HandInv
<1> QED
  BY <1>6, <1>7

(* prepare(): what was written is dropped, and drains that wait settle.    *)
LEMMA SettlePrepare ==
  ASSUME SettleInv, TypeOK', prepare
  PROVE  DrainInv' /\ HandInv'
<1>0. /\ DrainInv /\ subs \in [Sid -> Subscription] /\ TypeOK /\ WireInv /\ HandInv /\ QueueInv
      /\ CallInv /\ pongs \in Seq(Tag) /\ Sid \subseteq Nat /\ sidCounter \in Nat
      /\ \A s \in Sid : DrainOf(s) \in Tag
  BY SettleFacts
<1> DEFINE rejected == {pongs[i] : i \in 1..Len(pongs)}
<1>1. /\ c2s' = <<>> /\ s2c' = <<>> /\ srv' = NoInterest /\ outbound' = <<>>
      /\ transport' = "connecting" /\ ~infoReceived' /\ sidCounter' = sidCounter
      /\ subs' = settleDrains(rejected)
      /\ flushed' = [t \in Tag |-> IF t = Connect THEN "pending"
                                   ELSE IF t \in rejected THEN "rejected" ELSE flushed[t]]
  BY <1>0 DEF prepare, app, WireInv, HandInv
<1> HIDE DEF rejected
<1>2. Ahead' = <<>>
  <2>1. <<>> \o <<>> = <<>>
    OBVIOUS
  <2> QED
    BY <1>1, <2>1 DEF Ahead, Written
<1>3. ASSUME NEW s \in Sid
      PROVE  /\ subs'[s].drain = "settled" => ~subs'[s].listed
             /\ subs'[s].drain # "no" => s <= sidCounter' /\ flushed'[DrainOf(s)] # "none"
  <2>1. CASE DrainOf(s) \in rejected
    <3>1. flushed[DrainOf(s)] # "none"
      BY <1>0, <2>1 DEF QueueInv, FreshInv, rejected
    <3>2. s <= sidCounter
      <4>1. ~(s > sidCounter)
        BY <1>0, <3>1 DEF CallInv
      <4> QED
        BY <1>0, <4>1
    <3>3. flushed'[DrainOf(s)] # "none"
      BY <1>0, <1>1, <2>1
    <3>4. subs'[s].drain = "settled" /\ ~subs'[s].listed
      <4>1. cancelSub(s, subs[s]) \in Subscription /\ ~cancelSub(s, subs[s]).listed
        <5>1. 0 \in Nat
          OBVIOUS
        <5> QED
          BY <1>0, <5>1, SubscriptionOps, CancelFacts
      <4>2. subs'[s] = [cancelSub(s, subs[s]) EXCEPT !.drain = "settled"]
        BY <1>1, <2>1 DEF settleDrains
      <4> QED
        BY <4>1, <4>2 DEF Subscription
    <3> QED
      BY <1>1, <3>2, <3>3, <3>4
  <2>2. CASE DrainOf(s) \notin rejected
    <3>1. subs'[s] = subs[s]
      BY <1>1, <2>2 DEF settleDrains
    <3>2. flushed'[DrainOf(s)] = flushed[DrainOf(s)]
      BY <1>0, <1>1, <2>2, TagsDiffer
    <3> QED
      BY <1>0, <1>1, <3>1, <3>2 DEF DrainInv
  <2> QED
    BY <2>1, <2>2
<1>4. DrainInv'
  BY <1>1, <1>2, <1>3, EmptyWire DEF DrainInv
<1>5. HandInv'
  BY <1>1, EmptyWire DEF HandInv
<1> QED
  BY <1>4, <1>5

(* The transport connects, or begins to leave. *)
LEMMA SettleLinks ==
  ASSUME SettleInv, TypeOK', connectOk \/ disconnect
  PROVE  DrainInv' /\ HandInv'
<1>0. /\ DrainInv /\ TypeOK /\ WireInv /\ HandInv /\ NoInfoYet
      /\ c2s \in Seq(Command) /\ outbound \in Seq(Command)
  BY SettleFacts
<1>1. /\ UNCHANGED <<connected, infoReceived, outbound, subs, flushed, sidCounter>>
  BY DEF connectOk, disconnect, app
<1>2. CASE connectOk
  <2>1. /\ transport = "connecting" /\ transport' = "open" /\ ~infoReceived
        /\ c2s = <<>> /\ c2s' = <<>> /\ s2c' = <<INFO>> /\ srv = NoInterest /\ srv' = NoInterest
    BY <1>0, <1>2 DEF connectOk, WireInv, HandInv, NoInfoYet
  <2>2. Ahead' = Ahead /\ Kept
    BY <1>1, <2>1 DEF Ahead, Written, Kept
  <2>3. \A i \in 1..Len(s2c') : s2c'[i].op = "INFO"
    <3>1. \A i \in 1..Len(<<INFO>>) : <<INFO>>[i] = INFO
      OBVIOUS
    <3> QED
      BY <2>1, <3>1, Ops
  <2>4. \A i \in 1..Len(s2c') : ~Marked(s2c'[i]) /\ \A s : ~IsPong(s2c'[i], s) /\ ~Carries(s2c'[i], s)
    BY <2>3 DEF Marked, IsPong, Carries
  <2>5. DrainInv'
    <3>1. ASSUME NEW s \in Sid
          PROVE  /\ DrainedIn(Ahead', s, connected' /\ ~srv'[s].on)
                 /\ Answered(s)' => ~srv'[s].on /\ NoSubOf(Ahead', s)
                 /\ subs'[s].drain = "settled" => ~subs'[s].listed
                 /\ subs'[s].drain # "no" => s <= sidCounter' /\ flushed'[DrainOf(s)] # "none"
      <4>1. DrainedIn(Ahead', s, connected' /\ ~srv'[s].on)
        BY <1>0, <1>1, <2>1, <2>2 DEF DrainInv
      <4>2. Answered(s)' => Answered(s)
        BY <1>1, <2>4 DEF Answered
      <4> QED
        BY <1>0, <1>1, <2>1, <2>2, <4>1, <4>2 DEF DrainInv
    <3> QED
      BY <2>4, <3>1 DEF DrainInv
  <2>6. Connect \notin Marks(s2c') /\ Connect \notin Marks(c2s')
    BY <2>1, <2>4, MarksHas, EmptyWire
  <2>7. HandInv'
    BY <1>0, <1>1, <2>1, <2>2, <2>6 DEF HandInv
  <2> QED
    BY <2>5, <2>7
<1>3. CASE disconnect
  <2>1. /\ connected /\ transport = "open" /\ transport' = "leaving" /\ UNCHANGED <<c2s, s2c, srv>>
    BY <1>3 DEF disconnect
  <2>2. Ahead = c2s \o outbound /\ Ahead' = c2s
    BY <1>1, <2>1 DEF Ahead, Kept, Written
  <2>3. ASSUME NEW s \in Sid
        PROVE  /\ DrainedIn(Ahead', s, connected' /\ ~srv'[s].on)
               /\ Answered(s)' => ~srv'[s].on /\ NoSubOf(Ahead', s)
    <3>1. DrainedIn(c2s \o outbound, s, connected /\ ~srv[s].on)
      BY <1>0, <2>2 DEF DrainInv
    <3>2. DrainedIn(c2s, s, connected /\ ~srv[s].on)
      BY <1>0, <3>1, DrainedFront
    <3>3. Answered(s)' = Answered(s)
      BY <1>1, <2>1 DEF Answered
    <3>4. Answered(s) => ~srv[s].on /\ NoSubOf(c2s \o outbound, s)
      BY <1>0, <2>2 DEF DrainInv
    <3>5. NoSubOf(c2s \o outbound, s) => NoSubOf(c2s, s)
      BY <1>0, NoSubConcat
    <3> QED
      BY <1>1, <2>1, <2>2, <3>2, <3>3, <3>4, <3>5
  <2>4. DrainInv'
    BY <1>0, <1>1, <2>1, <2>3 DEF DrainInv
  <2>5. HandInv'
    BY <1>0, <1>1, <2>1 DEF HandInv, Kept
  <2> QED
    BY <2>4, <2>5
<1> QED
  BY <1>2, <1>3

-----------------------------------------------------------------------------
(* The server, and drains.                                                 *)

(* A frame more. *)
LEMMA FrameMore ==
  ASSUME NEW V, NEW q \in Seq(V), NEW e \in V
  PROVE  /\ \A i \in 1..Len(Append(q, e)) : \/ i \in 1..Len(q) /\ Append(q, e)[i] = q[i]
                                            \/ i = Len(q) + 1 /\ Append(q, e)[i] = e
         /\ \A i \in 1..Len(Append(q, e)), j \in Nat :
              j \in (i + 1)..Len(Append(q, e)) =>
                /\ i \in 1..Len(q)
                /\ (j \in (i + 1)..Len(q) /\ Append(q, e)[j] = q[j]) \/ Append(q, e)[j] = e
<1>1. /\ Len(q) \in Nat /\ Len(Append(q, e)) = Len(q) + 1
      /\ \A i \in 1..Len(q) : Append(q, e)[i] = q[i]
      /\ Append(q, e)[Len(q) + 1] = e
  OBVIOUS
<1> DEFINE a == Append(q, e)
<1> HIDE DEF a
<1>2. \A i \in 1..(Len(q) + 1) : i \in 1..Len(q) \/ i = Len(q) + 1
  BY <1>1
<1>3. ASSUME NEW i \in 1..(Len(q) + 1), NEW j \in Nat, j \in (i + 1)..(Len(q) + 1)
      PROVE  /\ i \in 1..Len(q)
             /\ (j \in (i + 1)..Len(q) /\ j \in 1..Len(q)) \/ j = Len(q) + 1
  BY <1>1, <1>3
<1> QED
  BY <1>1, <1>2, <1>3

(* The server processes a command: an UNSUB ends the interest, and no SUB  *)
(* is behind the PING of a drain.                                          *)
LEMMA SettleRecv ==
  ASSUME SettleInv, TypeOK', serverRecv
  PROVE  DrainInv' /\ HandInv'
<1> DEFINE h == Head(c2s)
<1>0. /\ DrainInv /\ TypeOK /\ WireInv /\ HandInv
      /\ c2s \in Seq(Command) /\ outbound \in Seq(Command) /\ s2c \in Seq(Frame)
  BY SettleFacts
<1>1. /\ c2s # <<>> /\ c2s' = Tail(c2s) /\ h \in Command /\ transport \in {"open", "leaving"}
      /\ UNCHANGED <<connected, transport, infoReceived, outbound, subs, flushed, sidCounter>>
      /\ s2c' = IF h.op = "PING" THEN Append(s2c, PONG(h.tag)) ELSE s2c
      /\ srv' = [s \in Sid |-> IF h.op \in {"SUB", "UNSUB"} /\ h.sid = s
                               THEN serverSub(srv[s], h) ELSE srv[s]]
  <2>1. c2s # <<>>
    BY DEF serverRecv
  <2>2. h \in Command
    BY <1>0, <2>1
  <2> QED
    BY <2>1, <2>2 DEF serverRecv, Served, client
<1>2. Ahead \in Seq(Command) /\ Ahead # <<>> /\ Head(Ahead) = h /\ Ahead' = Tail(Ahead)
  <2>1. /\ c2s \o outbound \in Seq(Command) /\ c2s \o outbound # <<>>
        /\ Head(c2s \o outbound) = Head(c2s) /\ Tail(c2s \o outbound) = Tail(c2s) \o outbound
    BY <1>0, <1>1
  <2>2. CASE Kept
    BY <1>1, <2>1, <2>2 DEF Ahead, Kept, Written
  <2>3. CASE ~Kept
    BY <1>0, <1>1, <2>3 DEF Ahead, Kept
  <2> QED
    BY <2>2, <2>3
<1>3. infoReceived
  BY <1>0, <1>1 DEF WireInv
<1>4. h.op = "PING" => h.tag \in Tag /\ PONG(h.tag) \in Frame
  BY <1>1, FrameType DEF Command
<1>5. ~connected => c2s = <<PING(Connect)>> /\ h = PING(Connect) /\ \A i \in 1..Len(s2c) : ~Marked(s2c[i])
  <2>1. ASSUME ~connected
        PROVE  c2s = <<PING(Connect)>> /\ \A i \in 1..Len(s2c) : ~Marked(s2c[i])
    BY <1>0, <1>1, <1>3, <2>1 DEF HandInv
  <2>2. c2s = <<PING(Connect)>> => h = PING(Connect)
    OBVIOUS
  <2> QED
    BY <2>1, <2>2
<1> HIDE DEF h
<1>6. \A s \in Sid : /\ IsUnsub(h, s) => ~srv'[s].on
                     /\ ~srv[s].on /\ ~IsSub(h, s) => ~srv'[s].on
  <2>1. ASSUME NEW s \in Sid PROVE IsUnsub(h, s) => ~serverSub(srv[s], h).on
    BY DEF IsUnsub, serverSub
  <2>2. ASSUME NEW s \in Sid, ~srv[s].on, ~IsSub(h, s), h.sid = s PROVE ~serverSub(srv[s], h).on
    BY <2>2 DEF IsSub, serverSub
  <2>3. ASSUME NEW s \in Sid, IsUnsub(h, s) PROVE ~srv'[s].on
    <3>1. srv'[s] = serverSub(srv[s], h)
      BY <1>1, <2>3 DEF IsUnsub
    <3> QED
      BY <2>1, <2>3, <3>1
  <2>4. ASSUME NEW s \in Sid, ~srv[s].on, ~IsSub(h, s) PROVE ~srv'[s].on
    <3>1. (h.sid = s /\ srv'[s] = serverSub(srv[s], h)) \/ srv'[s] = srv[s]
      BY <1>1
    <3> QED
      BY <2>2, <2>4, <3>1
  <2> QED
    BY <2>3, <2>4
<1>7. \A i \in 1..Len(s2c') : \/ i \in 1..Len(s2c) /\ s2c'[i] = s2c[i]
                              \/ i = Len(s2c) + 1 /\ h.op = "PING" /\ s2c'[i] = PONG(h.tag)
  <2>1. CASE h.op = "PING"
    BY <1>0, <1>1, <1>4, <2>1, FrameMore
  <2>2. CASE h.op # "PING"
    BY <1>1, <2>2
  <2> QED
    BY <2>1, <2>2
<1>8. \A i \in 1..Len(s2c'), j \in Nat : j \in (i + 1)..Len(s2c') =>
        \/ i \in 1..Len(s2c) /\ j \in (i + 1)..Len(s2c) /\ s2c'[j] = s2c[j] /\ s2c'[i] = s2c[i]
        \/ s2c'[j].op = "PONG"
  <2>1. CASE h.op = "PING"
    <3>1. s2c' = Append(s2c, PONG(h.tag)) /\ PONG(h.tag) \in Frame /\ PONG(h.tag).op = "PONG"
      BY <1>1, <1>4, <2>1, Ops
    <3>2. \A i \in 1..Len(s2c) : Append(s2c, PONG(h.tag))[i] = s2c[i]
      BY <1>0, <3>1
    <3> QED
      BY <1>0, <3>1, <3>2, FrameMore
  <2>2. CASE h.op # "PING"
    BY <1>0, <1>1, <2>2
  <2> QED
    BY <2>1, <2>2
<1>9. \A s : ~Carries(PONG(h.tag), s) /\ (IsPong(PONG(h.tag), s) => h.tag = DrainOf(s))
  BY Ops DEF Carries, IsPong
<1>10. ASSUME NEW s \in Sid
       PROVE  /\ DrainedIn(Ahead', s, connected' /\ ~srv'[s].on)
              /\ Answered(s)' => ~srv'[s].on /\ NoSubOf(Ahead', s)
              /\ subs'[s].drain = "settled" =>
                   ~subs'[s].listed /\ \A i \in 1..Len(s2c') : ~Carries(s2c'[i], s)
              /\ \A i \in 1..Len(s2c') :
                   IsPong(s2c'[i], s) => \A j \in (i + 1)..Len(s2c') : ~Carries(s2c'[j], s)
  <2>1. /\ DrainedIn(Ahead, s, connected /\ ~srv[s].on)
        /\ Answered(s) => ~srv[s].on /\ NoSubOf(Ahead, s)
        /\ subs[s].drain = "settled" =>
             ~subs[s].listed /\ \A i \in 1..Len(s2c) : ~Carries(s2c[i], s)
        /\ \A i \in 1..Len(s2c) :
             IsPong(s2c[i], s) => \A j \in (i + 1)..Len(s2c) : ~Carries(s2c[j], s)
    BY <1>0 DEF DrainInv
  <2>2. IsUnsub(h, s) => connected' /\ ~srv'[s].on
    <3>1. IsUnsub(h, s) => connected
      BY <1>5, Ops DEF IsUnsub
    <3> QED
      BY <1>1, <1>6, <3>1
  <2>3. /\ DrainedIn(Tail(Ahead), s, connected' /\ ~srv'[s].on)
        /\ IsPing(h, s) => (connected /\ ~srv[s].on) /\ NoSubOf(Tail(Ahead), s)
    BY <1>2, <2>1, <2>2, DrainedTail
  <2>4. NoSubOf(Ahead, s) => ~IsSub(h, s) /\ NoSubOf(Tail(Ahead), s)
    <3>1. /\ Head(Ahead) = Ahead[1] /\ 1 \in 1..Len(Ahead)
          /\ \A j \in 1..Len(Tail(Ahead)) : j + 1 \in 1..Len(Ahead) /\ Tail(Ahead)[j] = Ahead[j + 1]
      BY <1>2
    <3> QED
      BY <1>2, <3>1 DEF NoSubOf
  <2>5. Answered(s)' => Answered(s) \/ IsPing(h, s)
    <3>1. \A i \in 1..Len(s2c') : IsPong(s2c'[i], s) =>
             IsPing(h, s) \/ \E j \in 1..Len(s2c) : IsPong(s2c[j], s)
      BY <1>7, <1>9 DEF IsPing
    <3> QED
      BY <1>1, <3>1 DEF Answered
  <2>6. IsPing(h, s) => ~IsSub(h, s)
    BY DEF IsPing, IsSub
  <2>7. Answered(s)' => ~srv'[s].on /\ NoSubOf(Ahead', s)
    BY <1>2, <1>6, <2>1, <2>3, <2>4, <2>5, <2>6
  <2>8. subs'[s].drain = "settled" =>
          ~subs'[s].listed /\ \A i \in 1..Len(s2c') : ~Carries(s2c'[i], s)
    BY <1>1, <1>7, <1>9, <2>1
  <2>9. ASSUME NEW i \in 1..Len(s2c'), IsPong(s2c'[i], s), NEW j \in (i + 1)..Len(s2c')
        PROVE  ~Carries(s2c'[j], s)
    <3>1. j \in Nat
      BY <2>9
    <3> QED
      BY <1>8, <2>1, <2>9, <3>1 DEF Carries
  <2> QED
    BY <1>2, <2>3, <2>7, <2>8, <2>9
<1>11. DrainInv'
  BY <1>0, <1>1, <1>10 DEF DrainInv
<1>12. ASSUME ~connected
       PROVE  c2s' = <<>> /\ \A i, j \in 1..Len(s2c') :
                Marked(s2c'[i]) /\ Marked(s2c'[j]) => i = j /\ s2c'[i].tag = Connect
  <2>1. c2s' = <<>>
    <3>1. Tail(<<PING(Connect)>>) = <<>>
      OBVIOUS
    <3> QED
      BY <1>1, <1>5, <1>12, <3>1
  <2>2. \A i \in 1..Len(s2c') : Marked(s2c'[i]) => i = Len(s2c) + 1 /\ s2c'[i].tag = Connect
    BY <1>5, <1>7, <1>12, Ops
  <2> QED
    BY <2>1, <2>2
<1>13. ASSUME connected, Connect \in Marks(s2c') \/ Connect \in Marks(c2s')
       PROVE  FALSE
  <2>1. Connect \notin Marks(s2c) /\ Connect \notin Marks(c2s)
    BY <1>0, <1>13 DEF HandInv
  <2>2. Marks(Tail(c2s)) \subseteq Marks(c2s) /\ (Marked(h) => h.tag \in Marks(c2s))
    BY <1>0, <1>1, First DEF h
  <2>3. Connect \in Marks(s2c')
    BY <1>1, <1>13, <2>1, <2>2
  <2>4. PICK i \in 1..Len(s2c') : Marked(s2c'[i]) /\ s2c'[i].tag = Connect
    BY <2>3, MarksHas
  <2>5. CASE i \in 1..Len(s2c) /\ s2c'[i] = s2c[i]
    BY <2>1, <2>4, <2>5, MarksHas
  <2>6. CASE h.op = "PING" /\ s2c'[i] = PONG(h.tag)
    BY <2>1, <2>2, <2>4, <2>6, Ops DEF Marked
  <2> QED
    BY <1>7, <2>5, <2>6
<1>14. HandInv'
  <2>1. Kept' = Kept
    BY <1>1 DEF Kept
  <2> QED
    BY <1>0, <1>1, <1>12, <1>13, <2>1 DEF HandInv
<1> QED
  BY <1>11, <1>14

(* The server sends a message for an interest it has: its subscription was *)
(* not answered.                                                           *)
LEMMA SettleSend ==
  ASSUME SettleInv, TypeOK', NEW s \in Sid, serverMsg(s)
  PROVE  DrainInv' /\ HandInv'
<1>0. /\ DrainInv /\ TypeOK /\ HandInv /\ s2c \in Seq(Frame) /\ s \in Nat
      /\ srv \in [Sid -> ServerSub]
  BY SettleFacts DEF TypeOK
<1>1. /\ srv[s].on /\ transport \in {"open", "leaving"}
      /\ UNCHANGED <<connected, transport, infoReceived, outbound, c2s, subs, flushed, sidCounter>>
      /\ s2c' = Append(s2c, MSG(s)) /\ srv' = [srv EXCEPT ![s] = countMsg(srv[s])]
  BY DEF serverMsg, Served, client
<1>2. MSG(s) \in Frame /\ MSG(s).op = "MSG" /\ MSG(s).sid = s
  BY <1>0, FrameType, TagType, Ops
<1>3. \A i \in 1..Len(s2c') : \/ i \in 1..Len(s2c) /\ s2c'[i] = s2c[i]
                              \/ s2c'[i].op = "MSG" /\ s2c'[i].sid = s
  BY <1>0, <1>1, <1>2, FrameMore
<1>4. \A i \in 1..Len(s2c'), j \in Nat : j \in (i + 1)..Len(s2c') =>
        /\ i \in 1..Len(s2c) /\ s2c'[i] = s2c[i]
        /\ \/ j \in (i + 1)..Len(s2c) /\ s2c'[j] = s2c[j]
           \/ s2c'[j].op = "MSG" /\ s2c'[j].sid = s
  <2>1. \A i \in 1..Len(s2c) : Append(s2c, MSG(s))[i] = s2c[i]
    BY <1>0, <1>2
  <2> QED
    BY <1>0, <1>1, <1>2, <2>1, FrameMore
<1>5. \A r \in Sid : srv'[r].on => srv[r].on
  BY <1>0, <1>1
<1>6. Ahead' = Ahead /\ Kept' = Kept
  BY <1>1 DEF Ahead, Kept, Written
<1>7. ASSUME NEW r \in Sid
      PROVE  /\ DrainedIn(Ahead', r, connected' /\ ~srv'[r].on)
             /\ Answered(r)' => ~srv'[r].on /\ NoSubOf(Ahead', r)
             /\ subs'[r].drain = "settled" =>
                  ~subs'[r].listed /\ \A i \in 1..Len(s2c') : ~Carries(s2c'[i], r)
             /\ \A i \in 1..Len(s2c') :
                  IsPong(s2c'[i], r) => \A j \in (i + 1)..Len(s2c') : ~Carries(s2c'[j], r)
  <2>1. /\ DrainedIn(Ahead, r, connected /\ ~srv[r].on)
        /\ Answered(r) => ~srv[r].on /\ NoSubOf(Ahead, r)
        /\ subs[r].drain = "settled" =>
             ~subs[r].listed /\ \A i \in 1..Len(s2c) : ~Carries(s2c[i], r)
        /\ \A i \in 1..Len(s2c) :
             IsPong(s2c[i], r) => \A j \in (i + 1)..Len(s2c) : ~Carries(s2c[j], r)
    BY <1>0 DEF DrainInv
  <2>2. DrainedIn(Ahead', r, connected' /\ ~srv'[r].on)
    <3>1. DrainedIn(Ahead, r, connected /\ ~srv'[r].on)
      BY <1>5, <2>1, DrainedOff
    <3> QED
      BY <1>1, <1>6, <3>1
  <2>3. Answered(r)' => Answered(r)
    BY <1>1, <1>3 DEF Answered, IsPong
  <2>4. Answered(r) => r # s
    BY <1>1, <2>1
  <2>5. Answered(r)' => ~srv'[r].on /\ NoSubOf(Ahead', r)
    BY <1>5, <1>6, <2>1, <2>3
  <2>6. subs'[r].drain = "settled" =>
          ~subs'[r].listed /\ \A i \in 1..Len(s2c') : ~Carries(s2c'[i], r)
    BY <1>1, <1>3, <2>1, <2>4 DEF Carries, Answered
  <2>7. ASSUME NEW i \in 1..Len(s2c'), IsPong(s2c'[i], r), NEW j \in (i + 1)..Len(s2c')
        PROVE  ~Carries(s2c'[j], r)
    <3>1. j \in Nat
      BY <2>7
    <3>2. i \in 1..Len(s2c) /\ IsPong(s2c[i], r)
      BY <1>4, <2>7, <3>1
    <3>3. r # s
      BY <2>4, <3>2 DEF Answered
    <3> QED
      BY <1>4, <2>1, <2>7, <3>1, <3>2, <3>3 DEF Carries
  <2> QED
    BY <2>2, <2>5, <2>6, <2>7
<1>8. DrainInv'
  BY <1>0, <1>1, <1>7 DEF DrainInv
<1>9. \A i \in 1..Len(s2c') : Marked(s2c'[i]) => i \in 1..Len(s2c) /\ s2c'[i] = s2c[i]
  BY <1>3 DEF Marked
<1>10. Marks(s2c') \subseteq Marks(s2c)
  <2>1. ASSUME NEW t \in Marks(s2c') PROVE t \in Marks(s2c)
    BY <1>9, MarksHas
  <2> QED
    BY <2>1
<1>11. HandInv'
  BY <1>0, <1>1, <1>6, <1>9, <1>10 DEF HandInv
<1> QED
  BY <1>8, <1>11

-----------------------------------------------------------------------------
(* Frames, and drains.                                                     *)

(* A frame is read: what it settles was answered before. *)
LEMMA ReadDrain ==
  ASSUME SettleInv, s2c # <<>>, s2c' = Tail(s2c), srv' = srv, sidCounter' = sidCounter,
         \A t \in Tag : flushed[t] # "none" => flushed'[t] # "none",
         \A s \in Sid : DrainedIn(Ahead', s, connected' /\ ~srv[s].on),
         \A s \in Sid : Answered(s) => NoSubOf(Ahead', s),
         \A s \in Sid : \/ subs'[s] = subs[s]
                        \/ /\ subs'[s].drain = "settled" /\ ~subs'[s].listed
                           /\ IsPong(Head(s2c), s)
  PROVE  DrainInv'
<1>0. /\ DrainInv /\ BarrierInv /\ CallInv /\ s2c \in Seq(Frame)
      /\ Sid \subseteq Nat /\ sidCounter \in Nat
      /\ \A s \in Sid : DrainOf(s) \in Tag
  BY SettleFacts
<1>1. /\ Head(s2c) = s2c[1] /\ 1 \in 1..Len(s2c) /\ Len(s2c) \in Nat
      /\ \A i \in 1..Len(s2c') : i + 1 \in 1..Len(s2c) /\ s2c'[i] = s2c[i + 1]
      /\ \A i \in 1..Len(s2c') : i + 1 \in (1 + 1)..Len(s2c)
      /\ \A i \in 1..Len(s2c') : \A j \in (i + 1)..Len(s2c') :
           j \in 1..Len(s2c') /\ j + 1 \in ((i + 1) + 1)..Len(s2c)
  BY <1>0
<1>2. ASSUME NEW s \in Sid
      PROVE  /\ DrainedIn(Ahead', s, connected' /\ ~srv'[s].on)
             /\ Answered(s)' => ~srv'[s].on /\ NoSubOf(Ahead', s)
             /\ subs'[s].drain = "settled" =>
                  ~subs'[s].listed /\ \A i \in 1..Len(s2c') : ~Carries(s2c'[i], s)
             /\ \A i \in 1..Len(s2c') :
                  IsPong(s2c'[i], s) => \A j \in (i + 1)..Len(s2c') : ~Carries(s2c'[j], s)
             /\ subs'[s].drain # "no" => s <= sidCounter' /\ flushed'[DrainOf(s)] # "none"
  <2>1. /\ Answered(s) => ~srv[s].on
        /\ subs[s].drain = "settled" =>
             ~subs[s].listed /\ \A i \in 1..Len(s2c) : ~Carries(s2c[i], s)
        /\ \A i \in 1..Len(s2c) :
             IsPong(s2c[i], s) => \A j \in (i + 1)..Len(s2c) : ~Carries(s2c[j], s)
        /\ subs[s].drain # "no" => s <= sidCounter /\ flushed[DrainOf(s)] # "none"
    BY <1>0 DEF DrainInv
  <2>2. Answered(s)' => Answered(s)
    BY <1>1 DEF Answered
  <2>3. subs'[s].drain = "settled" =>
          ~subs'[s].listed /\ \A i \in 1..Len(s2c') : ~Carries(s2c'[i], s)
    <3>1. CASE subs'[s] = subs[s]
      BY <1>1, <2>1, <3>1
    <3>2. CASE ~subs'[s].listed /\ IsPong(Head(s2c), s)
      BY <1>1, <2>1, <3>2
    <3> QED
      BY <3>1, <3>2
  <2>4. ASSUME NEW i \in 1..Len(s2c'), IsPong(s2c'[i], s), NEW j \in (i + 1)..Len(s2c')
        PROVE  ~Carries(s2c'[j], s)
    <3>1. IsPong(s2c[i + 1], s) /\ i + 1 \in 1..Len(s2c)
      BY <1>1, <2>4
    <3>2. j \in 1..Len(s2c') /\ j + 1 \in ((i + 1) + 1)..Len(s2c)
      BY <1>1, <2>4
    <3> QED
      BY <1>1, <2>1, <3>1, <3>2
  <2>5. subs'[s].drain # "no" => s <= sidCounter' /\ flushed'[DrainOf(s)] # "none"
    <3>1. CASE subs'[s] = subs[s]
      BY <1>0, <2>1, <3>1
    <3>2. CASE IsPong(Head(s2c), s)
      <4>1. flushed[DrainOf(s)] # "none"
        BY <1>0, <1>1, <3>2, AheadFacts
      <4>2. ~(s > sidCounter)
        BY <1>0, <4>1 DEF CallInv
      <4>3. s <= sidCounter
        BY <1>0, <4>2
      <4> QED
        BY <1>0, <4>1, <4>3
    <3> QED
      BY <3>1, <3>2
  <2> QED
    BY <2>1, <2>2, <2>3, <2>4, <2>5
<1> QED
  BY <1>2 DEF DrainInv

(* A flush() or the drain of a subscription hears its PONG. *)
LEMMA SettlePong ==
  ASSUME SettleInv, TypeOK', processPong
  PROVE  DrainInv' /\ HandInv'
<1>0. /\ DrainInv /\ BarrierInv /\ TypeOK /\ HandInv /\ s2c \in Seq(Frame)
      /\ subs \in [Sid -> Subscription]
      /\ flushed \in [Tag -> {"none", "pending", "resolved", "rejected"}]
  BY SettleFacts
<1>1. /\ Reading /\ s2c # <<>> /\ s2c' = Tail(s2c) /\ Head(s2c).op = "PONG"
      /\ pongs # <<>> /\ Head(pongs) \notin {Connect, Final}
      /\ UNCHANGED <<connected, transport, infoReceived, outbound, c2s, srv, sidCounter>>
      /\ subs' = settleDrains({Head(pongs)})
      /\ flushed' = [flushed EXCEPT ![Head(pongs)] = "resolved"]
  BY DEF processPong, Reading, link
<1>2. Head(pongs) = Head(s2c).tag /\ infoReceived
  BY <1>0, <1>1, Finds
<1>3. Ahead' = Ahead
  BY <1>1 DEF Ahead, Kept, Written
<1>4. \A t \in Tag : flushed[t] # "none" => flushed'[t] # "none"
  BY <1>0, <1>1
<1>5. ASSUME NEW s \in Sid
      PROVE  \/ subs'[s] = subs[s]
             \/ /\ subs'[s].drain = "settled" /\ ~subs'[s].listed
                /\ IsPong(Head(s2c), s)
  <2>1. CASE DrainOf(s) = Head(pongs)
    <3>1. cancelSub(s, subs[s]) \in Subscription /\ ~cancelSub(s, subs[s]).listed
      <4>1. 0 \in Nat
        OBVIOUS
      <4> QED
        BY <1>0, <4>1, SubscriptionOps, CancelFacts
    <3>2. subs'[s] = [cancelSub(s, subs[s]) EXCEPT !.drain = "settled"]
      BY <1>1, <2>1 DEF settleDrains
    <3>3. subs'[s].drain = "settled" /\ ~subs'[s].listed
      BY <3>1, <3>2 DEF Subscription
    <3> QED
      BY <1>1, <1>2, <2>1, <3>3 DEF IsPong
  <2>2. CASE DrainOf(s) # Head(pongs)
    BY <1>1, <2>2 DEF settleDrains
  <2> QED
    BY <2>1, <2>2
<1>6. DrainInv'
  <2>1. \A s \in Sid : /\ DrainedIn(Ahead', s, connected' /\ ~srv[s].on)
                       /\ Answered(s) => NoSubOf(Ahead', s)
    BY <1>0, <1>1, <1>3 DEF DrainInv
  <2> QED
    BY <1>1, <1>4, <1>5, <2>1, ReadDrain
<1>7. HandInv'
  <2>1. transport = "open" => connected
    <3>1. s2c[1].tag # Connect /\ Marked(s2c[1]) /\ 1 \in 1..Len(s2c)
      <4>1. Head(s2c) = s2c[1] /\ 1 \in 1..Len(s2c)
        BY <1>0, <1>1
      <4> QED
        BY <1>1, <1>2, <4>1 DEF Marked
    <3> QED
      BY <1>0, <1>2, <3>1 DEF HandInv
  <2>2. Marks(s2c') \subseteq Marks(s2c)
    BY <1>0, <1>1, First
  <2> QED
    BY <1>0, <1>1, <2>1, <2>2 DEF HandInv, Kept
<1> QED
  BY <1>6, <1>7

(* processInfo(): the PING of CONNECT goes first, and is no drain's.       *)
LEMMA SettleInfo ==
  ASSUME SettleInv, TypeOK', processInfo
  PROVE  DrainInv' /\ HandInv'
<1>0. /\ DrainInv /\ BarrierInv /\ TypeOK /\ HandInv /\ DialInv /\ WireInv /\ s2c \in Seq(Frame)
      /\ c2s \in Seq(Command) /\ outbound \in Seq(Command)
  BY SettleFacts
<1>1. /\ s2c # <<>> /\ s2c' = Tail(s2c) /\ Head(s2c).op = "INFO"
      /\ transport \in {"open", "leaving"} /\ infoReceived'
      /\ UNCHANGED <<connected, transport, outbound, srv, sidCounter, subs, flushed>>
  BY DEF processInfo, Reading
<1>2. Marks(s2c') \subseteq Marks(s2c) /\ Kept' = Kept
  BY <1>0, <1>1, First DEF Kept
<1>3. \A i \in 1..Len(s2c') : i + 1 \in 1..Len(s2c) /\ s2c'[i] = s2c[i + 1] /\ i \in Nat
  BY <1>0, <1>1
<1>4. CASE c2s' = c2s /\ (transport = "open" => infoReceived)
  <2>1. Ahead' = Ahead
    BY <1>1, <1>2, <1>4 DEF Ahead, Written
  <2>2. DrainInv'
    <3>1. \A s \in Sid : /\ DrainedIn(Ahead', s, connected' /\ ~srv[s].on)
                         /\ Answered(s) => NoSubOf(Ahead', s)
      BY <1>0, <1>1, <2>1 DEF DrainInv
    <3> QED
      BY <1>1, <3>1, ReadDrain
  <2>3. ASSUME transport = "open", ~connected
        PROVE  \/ c2s' = <<PING(Connect)>> /\ \A i \in 1..Len(s2c') : ~Marked(s2c'[i])
               \/ c2s' = <<>> /\ \A i, j \in 1..Len(s2c') :
                          Marked(s2c'[i]) /\ Marked(s2c'[j]) => i = j /\ s2c'[i].tag = Connect
    <3>1. \/ c2s = <<PING(Connect)>> /\ \A i \in 1..Len(s2c) : ~Marked(s2c[i])
          \/ c2s = <<>> /\ \A i, j \in 1..Len(s2c) :
                       Marked(s2c[i]) /\ Marked(s2c[j]) => i = j /\ s2c[i].tag = Connect
      BY <1>0, <1>4, <2>3 DEF HandInv
    <3>2. \A i, j \in Nat : i + 1 = j + 1 => i = j
      OBVIOUS
    <3> QED
      BY <1>3, <1>4, <3>1, <3>2
  <2>4. HandInv'
    BY <1>0, <1>1, <1>2, <1>4, <2>3 DEF HandInv
  <2> QED
    BY <2>2, <2>4
<1>5. CASE transport = "open" /\ ~infoReceived
  <2> DEFINE p == <<PING(Connect)>>
  <2>1. p \in Seq(Command) /\ p[1] = PING(Connect) /\ Len(p) = 1
    <3>1. PING(Connect) \in Command
      BY PingType, TagType
    <3> QED
      BY <3>1
  <2>2. c2s = <<>> /\ \A i \in 1..Len(s2c) : s2c[i].op # "PONG"
    BY <1>0, <1>5 DEF WireInv
  <2>3. c2s' = p
    <3>1. c2s' = TransportSend(IO, p).wire
      BY <1>5 DEF processInfo
    <3>2. TransportSend(IO, p).wire = c2s \o p
      BY <1>5 DEF TransportSend, IO
    <3> HIDE DEF p
    <3>3. <<>> \o p = p
      BY <2>1
    <3> QED
      BY <2>2, <3>1, <3>2, <3>3
  <2>4. Ahead = outbound /\ Ahead' = p \o outbound
    <3>1. <<>> \o outbound = outbound
      BY <1>0
    <3> HIDE DEF p
    <3> QED
      BY <1>1, <1>2, <1>5, <2>2, <2>3, <3>1 DEF Ahead, Kept, Written
  <2>5. \A i \in 1..Len(p) : p[i] = PING(Connect)
    BY <2>1
  <2>6. ~connected
    BY <1>0, <1>5 DEF DialInv
  <2>7. \A i \in 1..Len(s2c') : ~Marked(s2c'[i])
    <3>1. \A i \in 1..Len(s2c) : s2c[i].op \in {"PONG", "MSG", "INFO"}
      <4>1. \A f \in Frame : f.op \in {"PONG", "MSG", "INFO"}
        BY DEF Frame
      <4>2. \A i \in 1..Len(s2c) : s2c[i] \in Frame
        BY <1>0
      <4> QED
        BY <4>1, <4>2
    <3> QED
      BY <1>3, <2>2, <3>1 DEF Marked
  <2>8. HandInv'
    BY <1>0, <1>1, <1>2, <2>3, <2>6, <2>7 DEF HandInv
  <2> HIDE DEF p
  <2>9. ASSUME NEW s \in Sid
        PROVE  /\ DrainedIn(Ahead', s, connected' /\ ~srv[s].on)
               /\ Answered(s) => NoSubOf(Ahead', s)
    <3>1. DrainedIn(outbound, s, FALSE)
      <4>1. DrainedIn(outbound, s, connected /\ ~srv[s].on)
        BY <1>0, <2>4 DEF DrainInv
      <4> QED
        BY <2>6, <4>1, DrainedOff
    <3>2. \A i \in 1..Len(p) : ~IsPing(p[i], s) /\ ~IsSub(p[i], s)
      BY <2>5, Ops, TagsDiffer DEF IsPing, IsSub
    <3>3. DrainedIn(p, s, connected' /\ ~srv[s].on)
      BY <3>2, Undrained
    <3>4. DrainedIn(p \o outbound, s, connected' /\ ~srv[s].on)
      BY <1>0, <2>1, <3>1, <3>2, <3>3, DrainedConcat
    <3>5. NoSubOf(p \o outbound, s) <=> NoSubOf(p, s) /\ NoSubOf(outbound, s)
      BY <1>0, <2>1, NoSubConcat
    <3>6. NoSubOf(p, s)
      BY <3>2 DEF NoSubOf
    <3>7. Answered(s) => NoSubOf(outbound, s)
      BY <1>0, <2>4 DEF DrainInv
    <3> QED
      BY <2>4, <3>4, <3>5, <3>6, <3>7
  <2>10. DrainInv'
    BY <1>1, <2>9, ReadDrain
  <2> QED
    BY <2>8, <2>10
<1>6. \/ c2s' = c2s /\ (transport = "open" => infoReceived)
      \/ transport = "open" /\ ~infoReceived
  <2>1. CASE infoReceived
    BY <2>1 DEF processInfo
  <2>2. CASE transport # "open"
    BY <2>2 DEF processInfo, TransportSend, IO
  <2> QED
    BY <2>1, <2>2
<1> QED
  BY <1>4, <1>5, <1>6

-----------------------------------------------------------------------------
(* The last flush.                                                         *)

(* The dial is done: what is listed, and is not drained, is subscribed     *)
(* ahead of what waited in outbound.                                       *)
LEMMA SettleDial ==
  ASSUME SettleInv, TypeOK', dialDone
  PROVE  DrainInv' /\ HandInv'
<1>0. /\ DrainInv /\ BarrierInv /\ TypeOK /\ HandInv /\ s2c \in Seq(Frame)
      /\ c2s \in Seq(Command) /\ outbound \in Seq(Command) /\ Sid \subseteq Nat
      /\ flushed \in [Tag -> {"none", "pending", "resolved", "rejected"}]
  BY SettleFacts
<1>1. /\ Reading /\ s2c # <<>> /\ s2c' = Tail(s2c) /\ Head(s2c).op = "PONG"
      /\ pongs # <<>> /\ Head(pongs) = Connect /\ connected'
      /\ flushed' = [flushed EXCEPT ![Connect] = "resolved"]
      /\ UNCHANGED <<transport, infoReceived, srv, sidCounter, subs>>
  BY DEF dialDone, Reading
<1>2. /\ Head(s2c) = s2c[1] /\ 1 \in 1..Len(s2c)
      /\ \A i \in 1..Len(s2c') : i + 1 \in 1..Len(s2c) /\ s2c'[i] = s2c[i + 1] /\ i + 1 # 1
  BY <1>0, <1>1
<1>3. infoReceived /\ Marked(s2c[1]) /\ s2c[1].tag = Connect
  BY <1>0, <1>1, <1>2, Finds DEF Marked
<1>4. ~connected /\ transport = "open" /\ Kept
  <2>1. Connect \in Marks(s2c)
    BY <1>2, <1>3, MarksHas
  <2> QED
    BY <1>0, <1>1, <2>1 DEF HandInv, Reading, Kept
<1>5. /\ c2s = <<>>
      /\ \A i, j \in 1..Len(s2c) : Marked(s2c[i]) /\ Marked(s2c[j]) => i = j /\ s2c[i].tag = Connect
  BY <1>0, <1>2, <1>3, <1>4 DEF HandInv
<1>6. outbound' = <<>>
  BY <1>0, DialWrites
<1>7. PICK q \in InOrder(Listed), x \in Seq(Command) :
        /\ Len(x) = Len(q) /\ \A i \in 1..Len(x) : x[i] = SUB(q[i])
        /\ transport = "open" => c2s' = (c2s \o x) \o outbound
  BY <1>0, DialWrites
<1>8. c2s' = x \o outbound
  <2>1. <<>> \o x = x
    OBVIOUS
  <2> QED
    BY <1>4, <1>5, <1>7, <2>1
<1>9. Ahead = outbound /\ Ahead' = x \o outbound
  <2>1. <<>> \o outbound = outbound /\ (x \o outbound) \o <<>> = x \o outbound
    <3>1. \A w \in Seq(Command) : <<>> \o w = w /\ w \o <<>> = w
      OBVIOUS
    <3>2. x \o outbound \in Seq(Command)
      BY <1>0
    <3> QED
      BY <1>0, <3>1, <3>2
  <2> QED
    BY <1>1, <1>4, <1>5, <1>6, <1>8, <2>1 DEF Ahead, Kept, Written
<1>10. \A i \in 1..Len(x) : x[i].op = "SUB" /\ x[i].sid \in Listed
  <2>1. \A i \in 1..Len(q) : q[i] \in Listed
    BY InOrderType DEF Listed
  <2>2. \A s : SUB(s).op = "SUB" /\ SUB(s).sid = s
    BY DEF SUB
  <2> QED
    BY <1>7, <2>1, <2>2
<1>11. ASSUME NEW s \in Sid
       PROVE  /\ DrainedIn(Ahead', s, connected' /\ ~srv[s].on)
              /\ Answered(s) => NoSubOf(Ahead', s)
  <2>1. DrainedIn(outbound, s, FALSE)
    <3>1. DrainedIn(outbound, s, connected /\ ~srv[s].on)
      BY <1>0, <1>9 DEF DrainInv
    <3> QED
      BY <1>4, <3>1, DrainedOff
  <2>2. \A i \in 1..Len(x) : ~IsPing(x[i], s)
    BY <1>10 DEF IsPing
  <2>3. DrainedIn(x, s, connected' /\ ~srv[s].on)
    BY <2>2, Undrained
  <2>4. DrainedIn(x \o outbound, s, connected' /\ ~srv[s].on)
    BY <1>0, <2>1, <2>2, <2>3, DrainedConcat
  <2>5. Answered(s) => subs[s].drain = "settled"
    <3>1. \A i \in 1..Len(s2c) : ~IsPong(s2c[i], s)
      BY <1>5, TagsDiffer DEF IsPong, Marked
    <3> QED
      BY <3>1 DEF Answered
  <2>6. Answered(s) => NoSubOf(x, s)
    <3>1. Answered(s) => s \notin Listed
      BY <1>0, <2>5 DEF DrainInv, Listed
    <3> QED
      BY <1>10, <3>1 DEF NoSubOf, IsSub
  <2>7. Answered(s) => NoSubOf(outbound, s)
    BY <1>0, <1>9 DEF DrainInv
  <2>8. NoSubOf(x \o outbound, s) <=> NoSubOf(x, s) /\ NoSubOf(outbound, s)
    BY <1>0, NoSubConcat
  <2> QED
    BY <1>9, <2>4, <2>6, <2>7, <2>8
<1>12. DrainInv'
  <2>1. \A t \in Tag : flushed[t] # "none" => flushed'[t] # "none"
    BY <1>0, <1>1
  <2> QED
    BY <1>1, <1>11, <2>1, ReadDrain
<1>13. Connect \notin Marks(s2c') /\ Connect \notin Marks(c2s')
  <2>1. \A i \in 1..Len(s2c') : ~Marked(s2c'[i])
    BY <1>2, <1>3, <1>5
  <2>2. Marks(x \o outbound) = Marks(x) \cup Marks(outbound)
    BY <1>0, MarksConcat
  <2>3. \A i \in 1..Len(x) : ~Marked(x[i])
    BY <1>10 DEF Marked
  <2>4. Connect \notin Marks(x)
    BY <2>3, MarksHas
  <2>5. Connect \notin Marks(outbound)
    BY <1>0, <1>4 DEF HandInv
  <2> QED
    BY <1>8, <2>1, <2>2, <2>4, <2>5, MarksHas
<1>14. HandInv'
  <2>1. transport' = "open"
    BY <1>1, <1>4
  <2> QED
    BY <1>1, <1>6, <1>13, <2>1, EmptyWire DEF HandInv
<1> QED
  BY <1>12, <1>14

(* The last flush of drain() comes after the last publication, and its     *)
(* PONG closes.                                                            *)
LEMMA FinalStep ==
  ASSUME SettleInv, TypeOK', Next
  PROVE  FinalInv'
<1>0. /\ FinalInv /\ BarrierInv /\ TypeOK /\ CallInv /\ Final \in Tag
      /\ flushed \in [Tag -> {"none", "pending", "resolved", "rejected"}]
      /\ owed \in [Tag -> SUBSET PubId]
  BY SettleFacts, TagType DEF TypeOK
<1>1. ASSUME flushed'[Final] = flushed[Final],
             closed => closed', noMorePublishing => noMorePublishing',
             flushed[Final] # "none" => recent' \subseteq recent /\ owed'[Final] = owed[Final]
      PROVE  FinalInv'
  BY <1>0, <1>1 DEF FinalInv
<1>2. ASSUME NEW ts, pushPong(ts), \A i \in 1..Len(ts) : ts[i] # Final
      PROVE  flushed'[Final] = flushed[Final] /\ owed'[Final] = owed[Final]
  BY <1>0, <1>2 DEF pushPong
<1>3. CASE flush
  <2>1. pushPong(<<FlushCall(flushes + 1)>>) /\ UNCHANGED <<closed, noMorePublishing, recent>>
    BY <1>3 DEF flush, link
  <2>2. \A i \in 1..Len(<<FlushCall(flushes + 1)>>) : <<FlushCall(flushes + 1)>>[i] = FlushCall(flushes + 1)
    OBVIOUS
  <2>3. flushed'[Final] = flushed[Final] /\ owed'[Final] = owed[Final]
    BY <1>2, <2>1, <2>2, TagsDiffer
  <2> QED
    BY <1>1, <2>1, <2>3
<1>4. ASSUME NEW s \in Sid, drainSub(s) PROVE FinalInv'
  <2>1. pushPong(<<DrainOf(s)>>) /\ UNCHANGED <<closed, noMorePublishing, recent>>
    BY <1>4 DEF drainSub, link
  <2>2. \A i \in 1..Len(<<DrainOf(s)>>) : <<DrainOf(s)>>[i] = DrainOf(s)
    OBVIOUS
  <2>3. flushed'[Final] = flushed[Final] /\ owed'[Final] = owed[Final]
    BY <1>2, <2>1, <2>2, TagsDiffer
  <2> QED
    BY <1>1, <2>1, <2>3
<1>5. CASE drain
  <2>1. PICK q \in InOrder(ToDrain) : pushPong([i \in 1..Len(q) |-> DrainOf(q[i])])
    BY <1>5 DEF drain
  <2>2. q \in Seq(Sid)
    BY InOrderType DEF ToDrain, Listed
  <2> DEFINE ts == [i \in 1..Len(q) |-> DrainOf(q[i])]
  <2>3. \A i \in 1..Len(ts) : ts[i] = DrainOf(q[i])
    BY <2>2
  <2>4. pushPong(ts)
    BY <2>1
  <2> HIDE DEF ts
  <2>5. flushed'[Final] = flushed[Final] /\ owed'[Final] = owed[Final]
    BY <1>2, <2>3, <2>4, TagsDiffer
  <2>6. UNCHANGED <<closed, noMorePublishing, recent>>
    BY <1>5 DEF drain, link
  <2> QED
    BY <1>1, <2>5, <2>6
<1>6. CASE drainFlush
  <2>1. pushPong(<<Final>>) /\ noMorePublishing' /\ recent' = recent
    BY <1>6 DEF drainFlush
  <2>2. <<Final>>[1] = Final /\ 1 \in 1..Len(<<Final>>)
    OBVIOUS
  <2>3. flushed'[Final] = "pending" /\ owed'[Final] = recent
    BY <1>0, <2>1, <2>2 DEF pushPong
  <2> QED
    BY <2>1, <2>3 DEF FinalInv
<1>7. CASE publish
  <2>1. ~noMorePublishing /\ UNCHANGED <<closed, noMorePublishing, flushed, owed>>
    BY <1>7 DEF publish, link
  <2> QED
    BY <1>0, <2>1 DEF FinalInv
<1>8. CASE prepare
  <2>1. UNCHANGED <<closed, noMorePublishing>> /\ recent' = {}
        /\ flushed'[Final] \in {flushed[Final], "rejected"}
        /\ owed' = [owed EXCEPT ![Connect] = {}]
    BY <1>0, <1>8, TagsDiffer DEF prepare, app
  <2>2. flushed'[Final] # "none" => flushed[Final] # "none"
    <3>1. /\ \A i \in 1..Len(pongs) : flushed[pongs[i]] # "none"
          /\ flushed' = [t \in Tag |-> IF t = Connect THEN "pending"
               ELSE IF t \in {pongs[i] : i \in 1..Len(pongs)} THEN "rejected" ELSE flushed[t]]
      BY <1>8, SettleFacts DEF prepare, QueueInv, FreshInv
    <3> QED
      BY <1>0, <3>1, TagsDiffer
  <2> QED
    BY <1>0, <2>1, <2>2 DEF FinalInv
<1>9. CASE drainClose
  <2>1. closed' /\ UNCHANGED <<noMorePublishing, recent, owed>>
        /\ Reading /\ Head(s2c).op = "PONG" /\ pongs # <<>> /\ Head(pongs) = Final
    BY <1>9 DEF drainClose, doClose, history
  <2>2. flushed[Final] # "none"
    BY <1>0, <2>1, Finds
  <2> QED
    BY <1>0, <2>1, <2>2 DEF FinalInv
<1>10. CASE processPong \/ dialDone
  <2>1. UNCHANGED <<closed, noMorePublishing, recent, owed>>
        /\ flushed' = [flushed EXCEPT ![Head(pongs)] = "resolved"] /\ Head(pongs) # Final
    BY <1>10, TagsDiffer DEF processPong, dialDone, link, history
  <2>2. flushed'[Final] = flushed[Final]
    BY <1>0, <2>1
  <2> QED
    BY <1>1, <2>1, <2>2
<1>11. CASE close \/ giveUp
  <2>1. closed' /\ UNCHANGED <<noMorePublishing, recent, owed, flushed>>
    BY <1>11, SMTT(30) DEF close, giveUp, doClose, history, app
  <2> QED
    BY <1>1, <2>1
<1>12. CASE \/ \E m \in Maxes : subscribe(m)
            \/ \E s \in Sid, m \in Maxes : unsubscribe(s, m)
            \/ disconnect
            \/ \E s \in Sid : subTimeout(s) \/ iterDone(s) \/ serverMsg(s)
            \/ flushTask \/ processInfo \/ processMsg
            \/ connectOk \/ dialFail \/ socketLost \/ transportLeft
            \/ serverRecv
  <2>1. UNCHANGED <<closed, noMorePublishing, recent, owed, flushed>>
    BY <1>12 DEF subscribe, unsubscribe, disconnect, subTimeout, iterDone, serverMsg,
         flushTask, processInfo, processMsg, connectOk, dialFail, socketLost, transportLeft,
         disconnected, serverRecv, link, quiet, history, client, app
  <2> QED
    BY <1>1, <2>1, SMTT(30)
<1> QED
  BY <1>3, <1>4, <1>5, <1>6, <1>7, <1>8, <1>9, <1>10, <1>11, <1>12 DEF Next

-----------------------------------------------------------------------------
(* Draining loses nothing.                                                 *)

(* SettleInv is inductive. *)
LEMMA SettleStep == SettleInv /\ [Next]_vars => SettleInv'
<1> SUFFICES ASSUME SettleInv, [Next]_vars PROVE SettleInv'
  OBVIOUS
<1>1. BarrierInv'
  BY BarrierStep DEF SettleInv
<1>2. TypeOK' /\ BarrierInv
  BY <1>1 DEF BarrierInv, StrandedInv, SettleInv
<1>3. CASE Next
  <2>1. ASSUME \/ \E m \in Maxes : subscribe(m)
               \/ \E s \in Sid, m \in Maxes : unsubscribe(s, m)
               \/ flush \/ publish \/ drain \/ drainFlush \/ flushTask \/ processMsg
               \/ \E s \in Sid : drainSub(s) \/ subTimeout(s) \/ iterDone(s)
        PROVE  DrainInv' /\ HandInv'
    <3>1. WritesNeatly
      BY <1>2, <2>1, NeatWrites
    <3>2. UNCHANGED link /\ srv' = srv /\ ReadsPast /\ Drains
      BY <1>2, <2>1, WritesOnly
    <3> QED
      BY <1>2, <3>1, <3>2, NeatDrain, NeatHand
  <2>2. ASSUME drainClose \/ close \/ giveUp \/ dialFail \/ socketLost \/ transportLeft
        PROVE  DrainInv' /\ HandInv'
    BY <1>2, <2>2, SettleGone
  <2>3. ASSUME \/ processInfo \/ processPong \/ dialDone \/ serverRecv \/ prepare
               \/ connectOk \/ disconnect \/ \E s \in Sid : serverMsg(s)
        PROVE  DrainInv' /\ HandInv'
    BY <1>2, <2>3, SettleInfo, SettlePong, SettleDial, SettleRecv, SettleSend, SettlePrepare,
       SettleLinks
  <2>4. DrainInv' /\ HandInv'
    BY <1>3, <2>1, <2>2, <2>3 DEF Next
  <2>5. FinalInv'
    BY <1>2, <1>3, FinalStep
  <2> QED
    BY <1>1, <2>4, <2>5 DEF SettleInv
<1>4. CASE UNCHANGED vars
  <2>1. UNCHANGED <<connected, closed, transport, infoReceived, outbound, c2s, s2c, srv, subs,
                    flushed, sidCounter, noMorePublishing, recent, owed>>
    BY <1>4 DEF vars, client, history
  <2>2. Ahead' = Ahead /\ Kept' = Kept /\ \A s \in Sid : Answered(s)' = Answered(s)
    BY <2>1 DEF Ahead, Kept, Written, Answered
  <2>3. DrainInv'
    BY <2>1, <2>2 DEF SettleInv, DrainInv
  <2>4. HandInv' /\ FinalInv'
    BY <2>1, <2>2 DEF SettleInv, HandInv, FinalInv
  <2> QED
    BY <1>1, <2>3, <2>4 DEF SettleInv
<1> QED
  BY <1>3, <1>4

(* It holds initially. *)
LEMMA SettleInit == Init => SettleInv
<1> SUFFICES ASSUME Init PROVE SettleInv
  OBVIOUS
<1>1. BarrierInv
  BY BarrierInit
<1>2. /\ transport = "none" /\ ~connected /\ c2s = <<>> /\ s2c = <<>> /\ outbound = <<>>
      /\ srv = NoInterest /\ flushed = [t \in Tag |-> "none"]
      /\ subs = [s \in Sid |-> NoSub]
  BY DEF Init
<1>3. Ahead = <<>>
  BY <1>2 DEF Ahead, Kept
<1>4. \A s \in Sid : subs[s].drain = "no" /\ ~subs[s].listed
  BY <1>2 DEF NoSub
<1>5. DrainInv
  BY <1>2, <1>3, <1>4, EmptyWire DEF DrainInv
<1>6. HandInv
  BY <1>2, EmptyWire DEF HandInv, Kept
<1>7. FinalInv
  BY <1>2, TagType DEF FinalInv
<1> QED
  BY <1>1, <1>5, <1>6, <1>7 DEF SettleInv

(* Draining loses nothing. When the drain of a subscription has settled,   *)
(* by its PONG or by a reconnect, the server has no interest in it and no  *)
(* message of it is on its way; when drain() of the connection closes by   *)
(* itself, every publication that no reconnect dropped was processed. For  *)
(* any number of subscriptions, calls, messages and reconnects.            *)
THEOREM DrainsLoseNothing == Spec => DrainLosesNothing
<1> DEFINE Settled == \A s \in Sid : subs[s].drain = "settled" => ~srv[s].on /\ InFlight(s) = 0
           Closing == (closed' /\ ~closed /\ flushed'[Final] = "resolved") => recent \subseteq served
<1>1. ASSUME SettleInv PROVE Settled
  <2>1. DrainInv
    BY <1>1 DEF SettleInv
  <2>2. ASSUME NEW s \in Sid, subs[s].drain = "settled"
        PROVE  ~srv[s].on /\ InFlight(s) = 0
    <3>1. ~srv[s].on /\ \A i \in 1..Len(s2c) : ~Carries(s2c[i], s)
      BY <2>1, <2>2 DEF DrainInv, Answered
    <3>2. {i \in 1..Len(s2c) : Carries(s2c[i], s)} = {}
      BY <3>1
    <3>3. Cardinality({}) = 0
      BY FS_EmptySet
    <3> QED
      BY <3>1, <3>2, <3>3 DEF InFlight
  <2> QED
    BY <2>2
<1>2. ASSUME SettleInv, [Next]_vars PROVE Closing \/ UNCHANGED vars
  <2>1. FinalInv /\ BarrierInv /\ Final \in Tag
        /\ flushed \in [Tag -> {"none", "pending", "resolved", "rejected"}]
    BY <1>2, SettleFacts, TagType, SMTT(30)
  <2>2. ASSUME Next, closed', ~closed, flushed'[Final] = "resolved"
        PROVE  recent \subseteq served
    <3>1. close \/ giveUp \/ drainClose
      BY <2>2 DEF Next, subscribe, unsubscribe, flush, publish, drain, drainFlush, disconnect,
           drainSub, subTimeout, iterDone, serverMsg, flushTask, processInfo, processMsg,
           processPong, dialDone, prepare, connectOk, dialFail, socketLost, transportLeft,
           disconnected, serverRecv, link, client
    <3>2. CASE close \/ giveUp
      <4>1. flushed' = flushed
        BY <3>2 DEF close, giveUp
      <4> QED
        BY <2>1, <2>2, <4>1 DEF FinalInv
    <3>3. CASE drainClose
      <4>1. /\ Reading /\ Head(s2c).op = "PONG" /\ pongs # <<>> /\ Head(pongs) = Final
        BY <3>3 DEF drainClose
      <4>2. owed[Final] \subseteq served /\ flushed[Final] # "none"
        BY <2>1, <4>1, Finds
      <4> QED
        BY <2>1, <4>2 DEF FinalInv
    <3> QED
      BY <3>1, <3>2, <3>3, SMTT(30)
  <2> QED
    BY <1>2, <2>2
<1>3. Spec => []SettleInv
  BY SettleInit, SettleStep, PTL DEF Spec
<1>4. Spec => []Settled
  BY <1>1, <1>3, PTL
<1>5. Spec => [][Closing]_vars
  BY <1>2, <1>3, PTL DEF Spec
<1> QED
  BY <1>4, <1>5 DEF DrainLosesNothing

-----------------------------------------------------------------------------
(* InterestInSync: the commands that ask the server for an interest.       *)

(* An UNSUB of s, of any max. *)
IsStop(c, s) == c.op = "UNSUB" /\ c.sid = s

(* In q an UNSUB of s comes with no SUB behind it; every UNSUB of s asks   *)
(* for l messages at least; nothing is about s.                            *)
Stops(q, s) == \E i \in 1..Len(q) : IsStop(q[i], s) /\ \A j \in (i + 1)..Len(q) : ~IsSub(q[j], s)
Lenient(q, s, l) == \A i \in 1..Len(q) : IsStop(q[i], s) => l # 0 /\ q[i].max >= l
Silent(q, s) == \A i \in 1..Len(q) : ~IsSub(q[i], s) /\ ~IsStop(q[i], s)

(* The same of two sequences, one after the other. *)
LEMMA BothSequences ==
  ASSUME NEW V, NEW a \in Seq(V), NEW b \in Seq(V), NEW s, NEW l
  PROVE  /\ Stops(b, s) \/ (Stops(a, s) /\ NoSubOf(b, s)) => Stops(a \o b, s)
         /\ Lenient(a \o b, s, l) <=> Lenient(a, s, l) /\ Lenient(b, s, l)
         /\ Silent(a \o b, s) <=> Silent(a, s) /\ Silent(b, s)
<1> DEFINE c == a \o b
<1>0. /\ Len(a \o b) = Len(a) + Len(b) /\ Len(a) \in Nat /\ Len(b) \in Nat
      /\ \A i \in 1..Len(a) : (a \o b)[i] = a[i]
      /\ \A i \in 1..Len(b) : (a \o b)[Len(a) + i] = b[i]
  OBVIOUS
<1>1. /\ Len(c) = Len(a) + Len(b) /\ Len(a) \in Nat /\ Len(b) \in Nat
      /\ \A i \in 1..Len(a) : c[i] = a[i]
      /\ \A i \in 1..Len(b) : c[Len(a) + i] = b[i]
      /\ \A i \in 1..Len(c) : i \in 1..Len(a) \/ \E j \in 1..Len(b) : i = Len(a) + j
  BY <1>0, ConcatAt
<1> HIDE DEF c
<1>2. /\ \A i \in 1..Len(a) : i \in 1..Len(c)
      /\ \A i \in 1..Len(b) : Len(a) + i \in 1..Len(c)
  BY <1>1
<1>3. ASSUME Stops(b, s) PROVE Stops(c, s)
  <2>1. PICK i \in 1..Len(b) : IsStop(b[i], s) /\ \A j \in (i + 1)..Len(b) : ~IsSub(b[j], s)
    BY <1>3 DEF Stops
  <2>2. Len(a) + i \in 1..Len(c) /\ IsStop(c[Len(a) + i], s)
    BY <1>1, <1>2, <2>1
  <2>3. ASSUME NEW j \in ((Len(a) + i) + 1)..Len(c) PROVE ~IsSub(c[j], s)
    <3>1. j - Len(a) \in (i + 1)..Len(b) /\ j - Len(a) \in 1..Len(b) /\ j = Len(a) + (j - Len(a))
      BY <1>1, <2>3
    <3> QED
      BY <1>1, <2>1, <3>1
  <2> QED
    BY <2>2, <2>3 DEF Stops
<1>4. ASSUME Stops(a, s), NoSubOf(b, s) PROVE Stops(c, s)
  <2>1. PICK i \in 1..Len(a) : IsStop(a[i], s) /\ \A j \in (i + 1)..Len(a) : ~IsSub(a[j], s)
    BY <1>4 DEF Stops
  <2>2. i \in 1..Len(c) /\ IsStop(c[i], s)
    BY <1>1, <1>2, <2>1
  <2>3. ASSUME NEW j \in (i + 1)..Len(c) PROVE ~IsSub(c[j], s)
    <3>1. CASE j \in 1..Len(a)
      <4>1. j \in (i + 1)..Len(a)
        BY <2>3, <3>1
      <4> QED
        BY <1>1, <2>1, <3>1, <4>1
    <3>2. ASSUME NEW k \in 1..Len(b), j = Len(a) + k PROVE ~IsSub(c[j], s)
      BY <1>1, <1>4, <3>2 DEF NoSubOf
    <3>3. j \in 1..Len(c)
      BY <2>3
    <3> QED
      BY <1>1, <3>1, <3>2, <3>3
  <2> QED
    BY <2>2, <2>3 DEF Stops
<1>5. Lenient(c, s, l) => Lenient(a, s, l) /\ Lenient(b, s, l)
  BY <1>1, <1>2 DEF Lenient
<1>6. Lenient(a, s, l) /\ Lenient(b, s, l) => Lenient(c, s, l)
  BY <1>1 DEF Lenient
<1>7. Silent(c, s) => Silent(a, s) /\ Silent(b, s)
  BY <1>1, <1>2 DEF Silent
<1>8. Silent(a, s) /\ Silent(b, s) => Silent(c, s)
  BY <1>1 DEF Silent
<1> QED
  BY <1>3, <1>4, <1>5, <1>6, <1>7, <1>8 DEF c

(* The first command of a sequence, and the rest. *)
LEMMA FirstCommand ==
  ASSUME NEW V, NEW q \in Seq(V), q # <<>>, NEW s, NEW l
  PROVE  /\ NoSubOf(q, s) <=> ~IsSub(Head(q), s) /\ NoSubOf(Tail(q), s)
         /\ Stops(q, s) => Stops(Tail(q), s) \/ (IsStop(Head(q), s) /\ NoSubOf(Tail(q), s))
         /\ Lenient(q, s, l) => /\ Lenient(Tail(q), s, l)
                                /\ IsStop(Head(q), s) => l # 0 /\ Head(q).max >= l
         /\ Silent(q, s) => Silent(Tail(q), s) /\ ~IsSub(Head(q), s) /\ ~IsStop(Head(q), s)
<1> DEFINE t == Tail(q)
<1>1. /\ Head(q) = q[1] /\ 1 \in 1..Len(q) /\ Len(q) \in Nat /\ Len(t) = Len(q) - 1
      /\ \A j \in 1..Len(t) : j + 1 \in 1..Len(q) /\ t[j] = q[j + 1]
  OBVIOUS
<1> HIDE DEF t
<1>2. \A i \in 1..Len(q) : i = 1 \/ (i - 1 \in 1..Len(t) /\ t[i - 1] = q[i])
  <2>1. \A i \in 1..Len(q) : i = 1 \/ (i - 1 \in 1..Len(t) /\ i = (i - 1) + 1)
    BY <1>1
  <2> QED
    BY <1>1, <2>1
<1>3. NoSubOf(q, s) <=> ~IsSub(Head(q), s) /\ NoSubOf(t, s)
  BY <1>1, <1>2 DEF NoSubOf
<1>4. ASSUME Stops(q, s) PROVE Stops(t, s) \/ (IsStop(Head(q), s) /\ NoSubOf(t, s))
  <2>1. PICK i \in 1..Len(q) : IsStop(q[i], s) /\ \A j \in (i + 1)..Len(q) : ~IsSub(q[j], s)
    BY <1>4 DEF Stops
  <2>2. ASSUME NEW j \in 1..Len(t), j >= i PROVE ~IsSub(t[j], s)
    <3>1. j + 1 \in (i + 1)..Len(q)
      BY <1>1, <2>2
    <3> QED
      BY <1>1, <2>1, <3>1
  <2>3. CASE i = 1
    <3>1. \A j \in 1..Len(t) : j >= i
      BY <2>3
    <3> QED
      BY <1>1, <2>1, <2>2, <2>3, <3>1 DEF NoSubOf
  <2>4. CASE i # 1
    <3>1. i - 1 \in 1..Len(t) /\ IsStop(t[i - 1], s)
      BY <1>2, <2>1, <2>4
    <3>2. \A j \in ((i - 1) + 1)..Len(t) : j \in 1..Len(t) /\ j >= i
      BY <1>1
    <3> QED
      BY <2>2, <3>1, <3>2 DEF Stops
  <2> QED
    BY <2>3, <2>4
<1>5. Lenient(q, s, l) => Lenient(t, s, l) /\ (IsStop(Head(q), s) => l # 0 /\ Head(q).max >= l)
  BY <1>1 DEF Lenient
<1>6. Silent(q, s) => Silent(t, s) /\ ~IsSub(Head(q), s) /\ ~IsStop(Head(q), s)
  BY <1>1 DEF Silent
<1> QED
  BY <1>3, <1>4, <1>5, <1>6 DEF t

(* How many frames of q are messages of s. *)
Messages(q, s) == Cardinality({i \in 1..Len(q) : Carries(q[i], s)})

(* A frame more is a message more, or none. *)
LEMMA MessagesMore ==
  ASSUME NEW V, NEW q \in Seq(V), NEW f \in V, NEW s
  PROVE  /\ Messages(q, s) \in Nat
         /\ Messages(Append(q, f), s) = Messages(q, s) + (IF Carries(f, s) THEN 1 ELSE 0)
<1> DEFINE S == {i \in 1..Len(q) : Carries(q[i], s)}
           T == {i \in 1..Len(Append(q, f)) : Carries(Append(q, f)[i], s)}
           n == Len(q) + 1
<1>1. /\ Len(Append(q, f)) = n /\ Append(q, f)[n] = f /\ n \notin 1..Len(q)
      /\ \A i \in 1..Len(q) : Append(q, f)[i] = q[i]
      /\ Len(q) \in Nat /\ 1..n = (1..Len(q)) \cup {n}
  OBVIOUS
<1>2. IsFiniteSet(1..Len(q)) /\ S \in SUBSET (1..Len(q))
  BY <1>1, FS_Interval
<1>3. IsFiniteSet(S)
  BY <1>2, FS_Subset
<1> HIDE DEF n
<1>4. T = IF Carries(f, s) THEN S \cup {n} ELSE S
  BY <1>1
<1>5. n \notin S
  BY <1>1
<1> HIDE DEF S, T
<1>6. Cardinality(S) \in Nat
  BY <1>3, FS_CardinalityType
<1>7. Cardinality(T) = Cardinality(S) + (IF Carries(f, s) THEN 1 ELSE 0)
  <2>1. CASE Carries(f, s)
    <3>1. Cardinality(S \cup {n}) = Cardinality(S) + 1
      BY <1>3, <1>5, FS_AddElement
    <3> QED
      BY <1>4, <2>1, <3>1
  <2>2. CASE ~Carries(f, s)
    BY <1>4, <1>6, <2>2
  <2> QED
    BY <2>1, <2>2
<1> QED
  BY <1>6, <1>7 DEF Messages, S, T

(* The first frame is a message, or none. *)
LEMMA MessagesLess ==
  ASSUME NEW V, NEW q \in Seq(V), q # <<>>, NEW s
  PROVE  /\ Messages(Tail(q), s) \in Nat
         /\ Messages(q, s) = Messages(Tail(q), s) + (IF Carries(Head(q), s) THEN 1 ELSE 0)
<1> DEFINE t == Tail(q)
           S == {i \in 1..Len(t) : Carries(t[i], s)}
           U == {i \in 2..Len(q) : Carries(q[i], s)}
           T == {i \in 1..Len(q) : Carries(q[i], s)}
           g == [i \in S |-> i + 1]
<1>1. /\ Head(q) = q[1] /\ Len(q) \in Nat /\ 1 \in 1..Len(q) /\ Len(t) = Len(q) - 1
      /\ \A i \in 1..Len(t) : t[i] = q[i + 1]
  OBVIOUS
<1> HIDE DEF t
<1>2. Len(t) \in Nat /\ 1..Len(q) = (2..Len(q)) \cup {1}
  BY <1>1
<1>3. IsFiniteSet(1..Len(t)) /\ S \in SUBSET (1..Len(t))
  BY <1>2, FS_Interval
<1>4. IsFiniteSet(S)
  BY <1>3, FS_Subset
<1>5. \A i \in S : i \in Nat /\ i + 1 \in U
  BY <1>1
<1>6. \A j \in U : j \in Nat /\ j - 1 \in S /\ j = (j - 1) + 1
  <2>1. ASSUME NEW j \in U PROVE j \in Nat /\ j - 1 \in S /\ j = (j - 1) + 1
    <3>1. j - 1 \in 1..Len(t) /\ j = (j - 1) + 1 /\ j \in Nat
      BY <1>1
    <3>2. t[j - 1] = q[(j - 1) + 1]
      BY <1>1, <3>1
    <3> QED
      BY <3>1, <3>2
  <2> QED
    BY <2>1
<1>7. T = IF Carries(Head(q), s) THEN U \cup {1} ELSE U
  BY <1>1, <1>2
<1>8. 1 \notin U
  OBVIOUS
<1> HIDE DEF S, U, T
<1>9. ExistsBijection(S, U)
  <2>1. g \in [S -> U]
    BY <1>5
  <2>2. \A i, j \in S : g[i] = g[j] => i = j
    BY <1>5
  <2>3. \A j \in U : \E i \in S : g[i] = j
    BY <1>6
  <2> HIDE DEF g
  <2>4. DOMAIN g = S
    BY <2>1
  <2> QED
    BY <2>1, <2>2, <2>3, <2>4 DEF ExistsBijection, Bijection, Injection, Surjection, IsInjective
<1>10. IsFiniteSet(U) /\ Cardinality(U) = Cardinality(S) /\ Cardinality(S) \in Nat
  BY <1>4, <1>9, FS_Bijection, FS_CardinalityType
<1>11. Cardinality(T) = Cardinality(S) + (IF Carries(Head(q), s) THEN 1 ELSE 0)
  <2>1. CASE Carries(Head(q), s)
    <3>1. Cardinality(U \cup {1}) = Cardinality(U) + 1
      BY <1>8, <1>10, FS_AddElement
    <3> QED
      BY <1>7, <1>10, <2>1, <3>1
  <2>2. CASE ~Carries(Head(q), s)
    BY <1>7, <1>10, <2>2
  <2> QED
    BY <2>1, <2>2
<1> QED
  BY <1>10, <1>11 DEF Messages, S, T, t

(* No frame, no message. *)
LEMMA NoMessages == \A s : Messages(<<>>, s) = 0
<1>1. \A s : {i \in 1..Len(<<>>) : Carries(<<>>[i], s)} = {}
  OBVIOUS
<1> QED
  BY <1>1, FS_EmptySet DEF Messages

-----------------------------------------------------------------------------
(* The invariant of interest.                                              *)

(* A subscription to be served; the messages it got or has on their way;   *)
(* they are as many as it asked for.                                       *)
Wanted(s) == subs[s].listed /\ subs[s].drain = "no"
Due(s) == subs[s].received + InFlight(s)
Reached(s) == limit[s] # 0 /\ Due(s) >= limit[s]

(* The interest e ends no sooner than at l, and sent no more than n. *)
Honours(e, l, n) == e.on => (e.max # 0 => l # 0 /\ e.max >= l) /\ e.sent <= n

(* No timer runs for a subscription that was not made. *)
TimerInv == \A s \in Sid : subs[s].timer => s <= sidCounter

(* The server has no interest before the dial is done. *)
MutedInv == Kept /\ ~connected => srv = NoInterest

(* What is no longer listed was unsubscribed, or is about to be. *)
UnlistedInv ==
  Kept => \A s \in Sid :
    ~subs[s].listed => \/ Stops(Written, s)
                       \/ NoSubOf(Written, s) /\ (srv[s].on => srv[s].max # 0)

(* A sid is not used before its time. *)
NewInv == Kept => \A s \in Sid : s > sidCounter => ~srv[s].on /\ Silent(Written, s)

(* What is to be served is, or is about to be, or has all it asked for; no *)
(* UNSUB ends it sooner.                                                   *)
WantedInv ==
  Kept => \A s \in Sid :
    Wanted(s) => /\ connected => srv[s].on \/ Reached(s) \/ ~NoSubOf(Written, s)
                 /\ Lenient(Written, s, limit[s])
                 /\ Honours(srv[s], limit[s], Due(s))

InterestInv == MutedInv /\ UnlistedInv /\ NewInv /\ WantedInv

-----------------------------------------------------------------------------
(* Handlers that write.                                                    *)

(* A limit is set, or lowered, or left alone. *)
Lower(new, old) == new = old \/ (new # 0 /\ (old = 0 \/ new <= old))

(* What a handler that writes cmds may do to the table. *)
Minds(cmds) ==
  \A s \in Sid :
    /\ s > sidCounter' => s > sidCounter /\ Silent(cmds, s)
    /\ ~subs'[s].listed => Stops(cmds, s) \/ (~subs[s].listed /\ NoSubOf(cmds, s))
    /\ Wanted(s)' =>
         /\ Lenient(cmds, s, limit'[s])
         /\ \/ Wanted(s) /\ Due(s)' = Due(s) /\ Lower(limit'[s], limit[s])
            \/ s > sidCounter /\ ~NoSubOf(cmds, s)

(* Numbers are numbers. *)
LEMMA InterestFacts ==
  ASSUME TypeOK
  PROVE  /\ Written \in Seq(Command) /\ c2s \in Seq(Command) /\ outbound \in Seq(Command)
         /\ s2c \in Seq(Frame) /\ sidCounter \in Nat /\ Sid \subseteq Nat
         /\ srv \in [Sid -> ServerSub] /\ limit \in [Sid -> Nat]
         /\ subs \in [Sid -> Subscription]
         /\ \A s \in Sid : /\ srv[s].on \in BOOLEAN /\ srv[s].max \in Nat /\ srv[s].sent \in Nat
                           /\ limit[s] \in Nat /\ subs[s].received \in Nat
                           /\ InFlight(s) = Messages(s2c, s) /\ InFlight(s) \in Nat /\ Due(s) \in Nat
         /\ \A q \in Seq(Command) : \A i \in 1..Len(q) : q[i] \in Command /\ q[i].max \in Nat
<1>1. /\ Written \in Seq(Command) /\ c2s \in Seq(Command) /\ outbound \in Seq(Command)
      /\ s2c \in Seq(Frame) /\ Sid \subseteq Nat
  BY WrittenType DEF TypeOK, Sid
<1>2. sidCounter \in Nat /\ srv \in [Sid -> ServerSub] /\ limit \in [Sid -> Nat]
      /\ subs \in [Sid -> Subscription]
  BY DEF TypeOK
<1>3. ASSUME NEW s \in Sid
      PROVE  /\ srv[s].on \in BOOLEAN /\ srv[s].max \in Nat /\ srv[s].sent \in Nat
             /\ limit[s] \in Nat /\ subs[s].received \in Nat
             /\ InFlight(s) = Messages(s2c, s) /\ InFlight(s) \in Nat /\ Due(s) \in Nat
  <2>1. srv[s] \in ServerSub /\ subs[s] \in Subscription /\ limit[s] \in Nat
    BY <1>2
  <2>2. srv[s].on \in BOOLEAN /\ srv[s].max \in Nat /\ srv[s].sent \in Nat /\ subs[s].received \in Nat
    BY <2>1 DEF ServerSub, Subscription
  <2>3. InFlight(s) = Messages(s2c, s)
    BY DEF InFlight, Messages
  <2>4. INFO \in Frame
    <3>1. 0 \in Nat /\ Connect \in Tag
      BY TagType
    <3> QED
      BY <3>1, FrameType
  <2>5. Messages(s2c, s) \in Nat
    BY <1>1, <2>4, MessagesMore
  <2> QED
    BY <2>1, <2>2, <2>3, <2>5 DEF Due
<1>4. ASSUME NEW q \in Seq(Command), NEW i \in 1..Len(q) PROVE q[i] \in Command /\ q[i].max \in Nat
  <2>1. q[i] \in Command
    OBVIOUS
  <2> QED
    BY <2>1 DEF Command
<1> QED
  BY <1>1, <1>2, <1>3, <1>4

(* A handler that minds the table keeps the invariant. *)
LEMMA InterestWrites ==
  ASSUME TypeOK, TypeOK', InterestInv, NEW cmds \in Seq(Command),
         UNCHANGED <<closed, connected, transport, srv>>,
         Kept => Written' = Written \o cmds /\ Minds(cmds)
  PROVE  InterestInv'
<1>0. /\ Written \in Seq(Command) /\ Kept' = Kept
      /\ MutedInv /\ UnlistedInv /\ NewInv /\ WantedInv
  BY InterestFacts DEF InterestInv, Kept
<1>1. MutedInv'
  BY <1>0 DEF MutedInv
<1>2. ASSUME NEW s, NEW l
      PROVE  /\ Stops(cmds, s) \/ (Stops(Written, s) /\ NoSubOf(cmds, s)) => Stops(Written \o cmds, s)
             /\ NoSubOf(Written \o cmds, s) <=> NoSubOf(Written, s) /\ NoSubOf(cmds, s)
             /\ Lenient(Written \o cmds, s, l) <=> Lenient(Written, s, l) /\ Lenient(cmds, s, l)
             /\ Silent(Written \o cmds, s) <=> Silent(Written, s) /\ Silent(cmds, s)
  BY <1>0, BothSequences, NoSubConcat
<1>3. UnlistedInv'
  BY <1>0, <1>2 DEF UnlistedInv, Minds
<1>4. NewInv'
  BY <1>0, <1>2 DEF NewInv, Minds
<1>5. ASSUME Kept, NEW s \in Sid, Wanted(s)'
      PROVE  /\ connected' => srv'[s].on \/ Reached(s)' \/ ~NoSubOf(Written', s)
             /\ Lenient(Written', s, limit'[s])
             /\ Honours(srv'[s], limit'[s], Due(s)')
  <2>0. /\ limit[s] \in Nat /\ limit'[s] \in Nat /\ srv[s].max \in Nat /\ Due(s) \in Nat
        /\ \A i \in 1..Len(Written) : Written[i].max \in Nat
    <3>1. limit' \in [Sid -> Nat]
      BY DEF TypeOK
    <3>2. limit'[s] \in Nat
      BY <3>1
    <3>3. limit[s] \in Nat /\ srv[s].max \in Nat /\ Due(s) \in Nat
      BY InterestFacts
    <3>4. \A i \in 1..Len(Written) : Written[i].max \in Nat
      BY <1>0, InterestFacts
    <3> QED
      BY <3>2, <3>3, <3>4
  <2>1. CASE Wanted(s) /\ Due(s)' = Due(s) /\ Lower(limit'[s], limit[s])
    <3>1. /\ connected => srv[s].on \/ Reached(s) \/ ~NoSubOf(Written, s)
          /\ Lenient(Written, s, limit[s]) /\ Honours(srv[s], limit[s], Due(s))
      BY <1>0, <1>5, <2>1 DEF WantedInv
    <3>2. Reached(s) => Reached(s)'
      BY <2>0, <2>1 DEF Reached, Lower
    <3>3. Lenient(Written, s, limit'[s])
      BY <2>0, <2>1, <3>1 DEF Lenient, Lower
    <3>4. Honours(srv[s], limit'[s], Due(s))
      BY <2>0, <2>1, <3>1 DEF Honours, Lower
    <3>5. Lenient(cmds, s, limit'[s])
      BY <1>5 DEF Minds
    <3> QED
      BY <1>2, <1>5, <2>1, <3>1, <3>2, <3>3, <3>4, <3>5
  <2>2. CASE s > sidCounter /\ ~NoSubOf(cmds, s)
    <3>1. ~srv[s].on /\ Silent(Written, s)
      BY <1>0, <1>5, <2>2 DEF NewInv
    <3>2. Lenient(Written, s, limit'[s]) /\ Lenient(cmds, s, limit'[s])
      BY <1>5, <3>1 DEF Lenient, Silent, Minds
    <3>3. Honours(srv[s], limit'[s], Due(s)')
      BY <3>1 DEF Honours
    <3> QED
      BY <1>2, <1>5, <2>2, <3>2, <3>3
  <2> QED
    BY <1>5, <2>1, <2>2 DEF Minds
<1>6. WantedInv'
  BY <1>0, <1>5 DEF WantedInv
<1> QED
  BY <1>1, <1>3, <1>4, <1>6 DEF InterestInv

(* What the commands say of a subscription. *)
LEMMA Says ==
  /\ \A s, r : (IsSub(SUB(s), r) <=> r = s) /\ ~IsStop(SUB(s), r)
  /\ \A s, m, r : ~IsSub(UNSUB(s, m), r) /\ (IsStop(UNSUB(s, m), r) <=> r = s)
  /\ \A s, m : UNSUB(s, m).max = m
  /\ \A c, r : c.op \in {"PUB", "PING"} => ~IsSub(c, r) /\ ~IsStop(c, r)
BY DEF IsSub, IsStop, SUB, UNSUB

(* No command, or commands about nobody. *)
LEMMA SaysNothing ==
  ASSUME NEW cmds, NEW s, NEW l, \A i \in 1..Len(cmds) : ~IsSub(cmds[i], s) /\ ~IsStop(cmds[i], s)
  PROVE  NoSubOf(cmds, s) /\ Lenient(cmds, s, l) /\ Silent(cmds, s)
BY DEF NoSubOf, Lenient, Silent

(* One command. *)
LEMMA OneCommand ==
  ASSUME NEW c \in Command, NEW s, NEW l
  PROVE  /\ NoSubOf(<<c>>, s) <=> ~IsSub(c, s)
         /\ IsStop(c, s) => Stops(<<c>>, s)
         /\ Lenient(<<c>>, s, l) <=> (IsStop(c, s) => l # 0 /\ c.max >= l)
         /\ Silent(<<c>>, s) <=> ~IsSub(c, s) /\ ~IsStop(c, s)
<1> DEFINE q == <<c>>
<1>1. Len(q) = 1 /\ q[1] = c /\ 1 \in 1..1 /\ (\A i \in 1..1 : i = 1) /\ (1 + 1)..1 = {}
  OBVIOUS
<1> HIDE DEF q
<1>2. NoSubOf(q, s) <=> ~IsSub(c, s)
  BY <1>1 DEF NoSubOf
<1>3. IsStop(c, s) => Stops(q, s)
  BY <1>1 DEF Stops
<1>4. Lenient(q, s, l) <=> (IsStop(c, s) => l # 0 /\ c.max >= l)
  BY <1>1 DEF Lenient
<1>5. Silent(q, s) <=> ~IsSub(c, s) /\ ~IsStop(c, s)
  BY <1>1 DEF Silent
<1> QED
  BY <1>2, <1>3, <1>4, <1>5 DEF q

(* What a handler did with its io value. *)
LEMMA WrittenBy ==
  ASSUME NEW io, NEW cmds, Kept, Wrote(io, cmds), SetIO(io)
  PROVE  Written' = Written \o cmds
BY DEF Wrote, SetIO, Written

(* Nothing is written by one that leaves its io value. *)
LEMMA WritesNothing ==
  ASSUME TypeOK, UNCHANGED <<outbound, c2s>>
  PROVE  Written' = Written \o <<>> /\ <<>> \in Seq(Command)
<1>1. Written \o <<>> = Written
  BY WrittenType
<1> QED
  BY <1>1 DEF Written

(* On a transport that is kept unsubscribing writes. *)
LEMMA UnsubWrites ==
  ASSUME TypeOK, NoInfoYet, Kept, ~closed, NEW s \in Nat, NEW m \in Nat, SetIO(unsubIO(IO, s, m))
  PROVE  Written' = Written \o <<UNSUB(s, m)>> /\ <<UNSUB(s, m)>> \in Seq(Command)
<1>1. UNSUB(s, m) \in Command /\ <<>> \in Seq(Command) /\ IO \in IOType /\ Wrote(IO, <<>>)
  BY CommandType, IOWrote
<1>2. Wrote(sendCommand(IO, UNSUB(s, m)), <<>> \o <<UNSUB(s, m)>>)
  BY <1>1, sendCommandWrote
<1>3. <<>> \o <<UNSUB(s, m)>> = <<UNSUB(s, m)>> /\ <<UNSUB(s, m)>> \in Seq(Command)
  BY <1>1
<1>4. unsubIO(IO, s, m) = sendCommand(IO, UNSUB(s, m))
  BY DEF unsubIO
<1> QED
  BY <1>2, <1>3, <1>4, WrittenBy

(* Nothing changed for the subscription s. *)
Same(s) ==
  /\ Wanted(s)' => Wanted(s) /\ Due(s)' = Due(s) /\ limit'[s] = limit[s]
  /\ subs[s].listed => subs'[s].listed

(* Handlers that write nothing about subscriptions. *)
LEMMA MindsNothing ==
  ASSUME NEW cmds, sidCounter' = sidCounter,
         \A s \in Sid : Same(s) /\ \A i \in 1..Len(cmds) : ~IsSub(cmds[i], s) /\ ~IsStop(cmds[i], s)
  PROVE  Minds(cmds)
<1>1. ASSUME NEW s \in Sid
      PROVE  /\ Silent(cmds, s) /\ NoSubOf(cmds, s) /\ \A l : Lenient(cmds, s, l)
             /\ ~subs'[s].listed => ~subs[s].listed
             /\ Wanted(s)' => Wanted(s) /\ Due(s)' = Due(s) /\ Lower(limit'[s], limit[s])
  BY SaysNothing DEF Same, Lower
<1> QED
  BY <1>1 DEF Minds

(* Handlers that unsubscribe s. *)
LEMMA MindsStop ==
  ASSUME TypeOK, NEW s \in Nat, NEW m \in Nat, sidCounter' = sidCounter,
         \A r \in Sid : r # s => Same(r),
         s \in Sid => s <= sidCounter,
         s \in Sid /\ Wanted(s)' =>
           m # 0 /\ limit'[s] = m /\ Wanted(s) /\ Due(s)' = Due(s) /\ Lower(m, limit[s])
  PROVE  Minds(<<UNSUB(s, m)>>)
<1>0. UNSUB(s, m) \in Command
  BY CommandType
<1> DEFINE cmds == <<UNSUB(s, m)>>
<1>1. ASSUME NEW r \in Sid, r # s
      PROVE  /\ Silent(cmds, r) /\ NoSubOf(cmds, r) /\ \A l : Lenient(cmds, r, l)
             /\ ~subs'[r].listed => ~subs[r].listed
             /\ Wanted(r)' => Wanted(r) /\ Due(r)' = Due(r) /\ Lower(limit'[r], limit[r])
  <2>1. Silent(cmds, r) /\ NoSubOf(cmds, r) /\ \A l : Lenient(cmds, r, l)
    BY <1>0, <1>1, Says, OneCommand
  <2> QED
    BY <1>1, <2>1 DEF Same, Lower
<1>2. Stops(cmds, s) /\ (m # 0 => Lenient(cmds, s, m))
  <2>1. IsStop(UNSUB(s, m), s) /\ UNSUB(s, m).max = m
    BY Says
  <2>2. Stops(cmds, s) /\ (Lenient(cmds, s, m) <=> m # 0 /\ m >= m)
    BY <1>0, <2>1, OneCommand
  <2> QED
    BY <2>2
<1> HIDE DEF cmds
<1>3. ASSUME NEW r \in Sid, r # s
      PROVE  /\ r > sidCounter' => r > sidCounter /\ Silent(cmds, r)
             /\ ~subs'[r].listed => Stops(cmds, r) \/ (~subs[r].listed /\ NoSubOf(cmds, r))
             /\ Wanted(r)' => /\ Lenient(cmds, r, limit'[r])
                              /\ Wanted(r) /\ Due(r)' = Due(r) /\ Lower(limit'[r], limit[r])
  BY <1>1, <1>3
<1>4. ASSUME s \in Sid
      PROVE  /\ ~(s > sidCounter')
             /\ Wanted(s)' => /\ Lenient(cmds, s, limit'[s])
                              /\ Wanted(s) /\ Due(s)' = Due(s) /\ Lower(limit'[s], limit[s])
  <2>1. sidCounter' = sidCounter /\ s <= sidCounter /\ sidCounter \in Nat
    BY <1>4 DEF TypeOK
  <2>2. ~(s > sidCounter')
    BY <2>1
  <2> QED
    BY <1>2, <1>4, <2>2
<1> QED
  BY <1>2, <1>3, <1>4 DEF Minds, cmds

(* A subscription that nobody touched. *)
LEMMA Untouched ==
  ASSUME NEW s \in Sid, subs'[s] = subs[s], limit'[s] = limit[s], InFlight(s)' = InFlight(s)
  PROVE  Same(s)
<1>1. Due(s)' = Due(s) /\ (Wanted(s)' <=> Wanted(s))
  BY DEF Due, Wanted
<1> QED
  BY <1>1 DEF Same

(* Handlers that write leave commands behind that mind the table. *)
Mindful == \E cmds \in Seq(Command) : Written' = Written \o cmds /\ Minds(cmds)

(* A call that subscribes. *)
LEMMA MindsSubscribe ==
  ASSUME BarrierInv, TypeOK', Kept, NEW m \in Maxes, subscribe(m)
  PROVE  Mindful
<1>0. /\ TypeOK /\ NoInfoYet /\ IO \in IOType /\ Wrote(IO, <<>>)
      /\ subs \in [Sid -> Subscription] /\ Sid \subseteq Nat /\ Maxes \subseteq Nat
      /\ limit \in [Sid -> Nat]
  BY CallFacts DEF TypeOK
<1> DEFINE s == sidCounter + 1
           io == sendCommand(IO, SUB(s))
           both == sendCommand(io, UNSUB(s, m))
           one == <<SUB(s)>>
           two == one \o <<UNSUB(s, m)>>
<1>1. s \in Sid /\ s \in Nat /\ m \in Nat /\ sidCounter \in Nat /\ s > sidCounter
  <2>1. sidCounter \in 0..MaxSubs /\ sidCounter < MaxSubs /\ MaxSubs \in Nat
    BY <1>0, ProtocolAssumption DEF subscribe, TypeOK
  <2>2. s \in 1..MaxSubs /\ s \in Nat /\ s > sidCounter /\ sidCounter \in Nat
    BY <2>1
  <2> QED
    BY <1>0, <2>2 DEF Sid
<1>2. SUB(s) \in Command /\ UNSUB(s, m) \in Command
  BY <1>1, CommandType
<1>3. /\ sidCounter' = s /\ subs' = [subs EXCEPT ![s] = NewSub(s, m)] /\ s2c' = s2c
      /\ limit' = [limit EXCEPT ![s] = m]
      /\ SetIO(IF m = 0 THEN io ELSE both)
  BY DEF subscribe
<1>4. /\ <<>> \in Seq(Command) /\ <<>> \o one = one /\ one \in Seq(Command)
      /\ <<UNSUB(s, m)>> \in Seq(Command) /\ two \in Seq(Command)
  BY <1>2
<1>5. io \in IOType /\ Wrote(io, <<>> \o one)
  BY <1>0, <1>2, <1>4, sendCommandType, sendCommandWrote
<1>6. both \in IOType /\ Wrote(both, two)
  <2> HIDE DEF io, s
  <2>1. Wrote(io, one)
    BY <1>4, <1>5
  <2> QED
    BY <1>0, <1>2, <1>4, <1>5, <2>1, sendCommandType, sendCommandWrote
<1>7. ASSUME NEW r, NEW l
      PROVE  /\ NoSubOf(one, r) <=> r # s
             /\ Lenient(one, r, l)
             /\ Silent(one, r) <=> r # s
  BY <1>2, Says, OneCommand
<1>8. ASSUME NEW r
      PROVE  /\ NoSubOf(two, r) <=> r # s
             /\ (r = s /\ m # 0) \/ r # s => Lenient(two, r, m)
             /\ r # s => Silent(two, r) /\ \A l : Lenient(two, r, l)
  <2> DEFINE last == <<UNSUB(s, m)>>
  <2>1. /\ NoSubOf(last, r)
        /\ m # 0 => Lenient(last, r, m)
        /\ r # s => Silent(last, r) /\ \A l : Lenient(last, r, l)
    <3>1. UNSUB(s, m).max = m /\ m >= m
      BY <1>1, Says
    <3>2. ~IsSub(UNSUB(s, m), r) /\ (IsStop(UNSUB(s, m), r) <=> r = s)
      BY Says
    <3> QED
      BY <1>2, <3>1, <3>2, OneCommand
  <2>2. ASSUME NEW l
        PROVE  /\ NoSubOf(two, r) <=> NoSubOf(one, r) /\ NoSubOf(last, r)
               /\ Lenient(two, r, l) <=> Lenient(one, r, l) /\ Lenient(last, r, l)
               /\ Silent(two, r) <=> Silent(one, r) /\ Silent(last, r)
    <3> HIDE DEF one, last
    <3>1. one \in Seq(Command) /\ last \in Seq(Command) /\ two = one \o last
      BY <1>4 DEF last
    <3> QED
      BY <3>1, BothSequences, NoSubConcat
  <2> HIDE DEF one, two, last
  <2> QED
    BY <1>7, <2>1, <2>2
<1>9. PICK cmds \in {one, two} :
        /\ Written' = Written \o cmds
        /\ ~NoSubOf(cmds, s) /\ Lenient(cmds, s, m)
        /\ \A r : r # s => NoSubOf(cmds, r) /\ Silent(cmds, r) /\ \A l : Lenient(cmds, r, l)
  <2> HIDE DEF one, two, io, both, s
  <2>1. CASE m = 0
    <3>1. Written' = Written \o one
      BY <1>3, <1>4, <1>5, <2>1, WrittenBy
    <3> QED
      BY <1>7, <3>1
  <2>2. CASE m # 0
    <3>1. Written' = Written \o two
      BY <1>3, <1>6, <2>2, WrittenBy
    <3> QED
      BY <1>8, <2>2, <3>1
  <2> QED
    BY <2>1, <2>2
<1>10. cmds \in Seq(Command)
  BY <1>4
<1> HIDE DEF one, two, io, both
<1>11. ASSUME NEW r \in Sid, r # s PROVE Same(r)
  <2>1. subs'[r] = subs[r] /\ limit'[r] = limit[r] /\ InFlight(r)' = InFlight(r)
    BY <1>0, <1>3, <1>11 DEF InFlight
  <2> QED
    BY <2>1, Untouched
<1>12. subs'[s].listed /\ limit'[s] = m
  BY <1>0, <1>1, <1>3 DEF NewSub
<1>13. ASSUME NEW r \in Sid, r # s
       PROVE  /\ r > sidCounter' => r > sidCounter /\ Silent(cmds, r)
              /\ ~subs'[r].listed => ~subs[r].listed /\ NoSubOf(cmds, r)
              /\ Wanted(r)' => /\ Lenient(cmds, r, limit'[r])
                               /\ Wanted(r) /\ Due(r)' = Due(r) /\ Lower(limit'[r], limit[r])
  <2>1. r > sidCounter' => r > sidCounter
    BY <1>0, <1>1, <1>3
  <2> QED
    BY <1>9, <1>11, <1>13, <2>1 DEF Same, Lower
<1>14. ~(s > sidCounter') /\ Lenient(cmds, s, limit'[s])
  BY <1>1, <1>3, <1>9, <1>12
<1>15. Minds(cmds)
  <2> HIDE DEF s
  <2>1. ASSUME NEW r \in Sid
        PROVE  /\ r > sidCounter' => r > sidCounter /\ Silent(cmds, r)
               /\ ~subs'[r].listed => Stops(cmds, r) \/ (~subs[r].listed /\ NoSubOf(cmds, r))
               /\ Wanted(r)' =>
                    /\ Lenient(cmds, r, limit'[r])
                    /\ \/ Wanted(r) /\ Due(r)' = Due(r) /\ Lower(limit'[r], limit[r])
                       \/ r > sidCounter /\ ~NoSubOf(cmds, r)
    <3>1. CASE r = s
      BY <1>1, <1>9, <1>12, <1>14, <3>1
    <3>2. CASE r # s
      BY <1>13, <3>2
    <3> QED
      BY <3>1, <3>2
  <2> QED
    BY <2>1 DEF Minds
<1> QED
  BY <1>9, <1>10, <1>15 DEF Mindful

(* A subscription that counted no message of those on their way. *)
LEMMA Uncounted ==
  ASSUME NEW s \in Sid, subs'[s].received = subs[s].received, InFlight(s)' = InFlight(s),
         Milder(subs'[s], subs[s])
  PROVE  Due(s)' = Due(s) /\ (Wanted(s)' => Wanted(s))
BY DEF Due, Milder, Wanted

(* unsubscribe(). *)
LEMMA MindsUnsubscribe ==
  ASSUME BarrierInv, TypeOK', Kept, ~closed, NEW s \in Sid, NEW m \in Maxes, unsubscribe(s, m)
  PROVE  Mindful
<1>0. /\ TypeOK /\ NoInfoYet /\ subs \in [Sid -> Subscription] /\ Sid \subseteq Nat
      /\ Maxes \subseteq Nat /\ limit \in [Sid -> Nat] /\ s \in Nat /\ m \in Nat
      /\ subs[s] \in Subscription /\ limit[s] \in Nat
  BY CallFacts DEF TypeOK
<1>1. /\ subs' = [subs EXCEPT ![s] = unsubscribeSub(s, subs[s], m)]
      /\ limit' = [limit EXCEPT ![s] = Smaller(limit[s], m)]
      /\ s <= sidCounter /\ sidCounter' = sidCounter /\ s2c' = s2c
      /\ m = 0 \/ limit[s] = 0 \/ m <= limit[s]
      /\ SetIO(unsubIO(IO, s, m))
  BY DEF unsubscribe
<1>2. Written' = Written \o <<UNSUB(s, m)>> /\ <<UNSUB(s, m)>> \in Seq(Command)
  BY <1>0, <1>1, UnsubWrites
<1>3. ASSUME NEW r \in Sid, r # s PROVE Same(r)
  <2>1. subs'[r] = subs[r] /\ limit'[r] = limit[r] /\ InFlight(r)' = InFlight(r)
    BY <1>0, <1>1, <1>3 DEF InFlight
  <2> QED
    BY <2>1, Untouched
<1>4. ASSUME Wanted(s)'
      PROVE  m # 0 /\ limit'[s] = m /\ Wanted(s) /\ Due(s)' = Due(s) /\ Lower(m, limit[s])
  <2>1. subs'[s] = unsubscribeSub(s, subs[s], m) /\ limit'[s] = Smaller(limit[s], m)
    BY <1>0, <1>1
  <2>2. subs'[s].received = subs[s].received /\ Milder(subs'[s], subs[s])
    <3>1. unsubscribeSub(s, subs[s], m).received = subs[s].received
      BY <1>0, unsubscribeFacts
    <3>2. Milder(unsubscribeSub(s, subs[s], m), subs[s])
      BY <1>0, MilderOps
    <3> QED
      BY <2>1, <3>1, <3>2
  <2>3. m # 0
    BY <1>0, <1>4, <2>1, unsubscribeFacts DEF Wanted
  <2>4. Smaller(limit[s], m) = m /\ Lower(m, limit[s])
    BY <1>0, <1>1, <2>3 DEF Smaller, Lower
  <2>5. InFlight(s)' = InFlight(s)
    BY <1>1 DEF InFlight
  <2> QED
    BY <1>4, <2>1, <2>2, <2>3, <2>4, <2>5, Uncounted
<1>5. Minds(<<UNSUB(s, m)>>)
  BY <1>0, <1>1, <1>3, <1>4, MindsStop
<1> QED
  BY <1>2, <1>5 DEF Mindful

(* Handlers that change no subscription and write nothing about one. *)
LEMMA MindsPlain ==
  ASSUME BarrierInv, Kept,
         flush \/ publish \/ drainFlush \/ flushTask
  PROVE  Mindful
<1>0. /\ TypeOK /\ NoInfoYet /\ IO \in IOType /\ Wrote(IO, <<>>)
  BY CallFacts
<1>1. UNCHANGED <<subs, sidCounter, limit, s2c>>
  BY DEF flush, publish, drainFlush, flushTask, quiet, history
<1>2. \A r \in Sid : Same(r)
  <2>1. ASSUME NEW r \in Sid PROVE Same(r)
    <3>1. subs'[r] = subs[r] /\ limit'[r] = limit[r] /\ InFlight(r)' = InFlight(r)
      BY <1>1 DEF InFlight
    <3> QED
      BY <3>1, Untouched
  <2> QED
    BY <2>1
<1>3. ASSUME NEW c \in Command, c.op \in {"PUB", "PING"}, NEW io, Wrote(io, <<c>>), SetIO(io)
      PROVE  Mindful
  <2>1. Written' = Written \o <<c>>
    BY <1>3, WrittenBy
  <2>2. <<c>> \in Seq(Command) /\ \A i \in 1..Len(<<c>>) : <<c>>[i] = c
    OBVIOUS
  <2>3. \A s : ~IsSub(c, s) /\ ~IsStop(c, s)
    BY <1>3, Says
  <2> DEFINE q == <<c>>
  <2>4. \A s : \A i \in 1..Len(q) : ~IsSub(q[i], s) /\ ~IsStop(q[i], s)
    BY <2>2, <2>3
  <2> HIDE DEF q
  <2>5. Minds(q)
    BY <1>1, <1>2, <2>4, MindsNothing
  <2> QED
    BY <2>1, <2>2, <2>5 DEF Mindful, q
<1>4. CASE publish
  <2> DEFINE p == pubs + 1
             io == sendCommand(IO, PUB(p))
  <2>1. PUB(p) \in Command /\ PUB(p).op = "PUB"
    <3>1. p \in PubId
      BY <1>0, <1>4, ProtocolAssumption DEF publish, TypeOK, PubId
    <3> QED
      BY <3>1, PubType, Ops
  <2>2. <<>> \in Seq(Command) /\ <<>> \o <<PUB(p)>> = <<PUB(p)>>
    BY <2>1
  <2>3. Wrote(io, <<PUB(p)>>)
    BY <1>0, <2>1, <2>2, sendCommandWrote
  <2>4. SetIO(io)
    BY <1>4 DEF publish
  <2> HIDE DEF io, p
  <2> QED
    BY <1>3, <2>1, <2>3, <2>4
<1>5. ASSUME NEW t \in Tag, SetIO(flushPing(IO, t)) PROVE Mindful
  <2>1. PING(t) \in Command /\ PING(t).op = "PING" /\ Wrote(flushPing(IO, t), <<PING(t)>>)
    BY <1>0, PingType, Ops, flushPingWrote
  <2> QED
    BY <1>3, <1>5, <2>1
<1>6. CASE flush
  <2> DEFINE f == flushes + 1
  <2>1. FlushCall(f) \in Tag
    BY <1>0, <1>6, TagType, ProtocolAssumption DEF flush, TypeOK
  <2>2. SetIO(flushPing(IO, FlushCall(f)))
    BY <1>6 DEF flush
  <2> HIDE DEF f
  <2> QED
    BY <1>5, <2>1, <2>2
<1>7. CASE drainFlush
  BY <1>5, <1>7, TagType DEF drainFlush
<1>8. CASE flushTask
  <2>1. flushPending(IO) \in IOType /\ Wrote(flushPending(IO), <<>>)
    BY <1>0, flushPendingType, flushPendingWrote
  <2> DEFINE io == [flushPending(IO) EXCEPT !.queued = FALSE]
  <2>2. io.wire = flushPending(IO).wire /\ io.out = flushPending(IO).out
    BY <2>1 DEF IOType
  <2>3. SetIO(io)
    BY <1>8 DEF flushTask
  <2> HIDE DEF io
  <2>4. Wrote(io, <<>>)
    BY <2>1, <2>2 DEF Wrote
  <2>5. Written' = Written \o <<>>
    BY <2>3, <2>4, WrittenBy
  <2>6. <<>> \in Seq(Command) /\ Len(<<>>) = 0
    OBVIOUS
  <2>7. Minds(<<>>)
    BY <1>1, <1>2, <2>6, MindsNothing
  <2> QED
    BY <2>5, <2>6, <2>7 DEF Mindful
<1> QED
  BY <1>4, <1>6, <1>7, <1>8

(* Stopping a subscription that counted what it got. *)
LEMMA MindsStopped ==
  ASSUME BarrierInv, Kept, ~closed, NEW s \in Nat, s \in Sid => s <= sidCounter,
         sidCounter' = sidCounter,
         SetIO(unsubIO(IO, s, 0)), \A r \in Sid : r # s => Same(r),
         s \in Sid => subs'[s].listed = FALSE
  PROVE  Mindful
<1>0. TypeOK /\ NoInfoYet /\ 0 \in Nat
  BY CallFacts
<1>1. Written' = Written \o <<UNSUB(s, 0)>> /\ <<UNSUB(s, 0)>> \in Seq(Command)
  BY <1>0, UnsubWrites
<1>2. s \in Sid => ~Wanted(s)'
  BY DEF Wanted
<1>3. Minds(<<UNSUB(s, 0)>>)
  BY <1>0, <1>2, MindsStop
<1> QED
  BY <1>1, <1>3 DEF Mindful

(* Timers and iterators. *)
LEMMA MindsTimers ==
  ASSUME BarrierInv, TimerInv, Kept, ~closed, NEW s \in Sid, subTimeout(s) \/ iterDone(s)
  PROVE  Mindful
<1>0. /\ TypeOK /\ NoInfoYet /\ subs \in [Sid -> Subscription] /\ Sid \subseteq Nat
      /\ subs[s] \in Subscription /\ s \in Nat
  BY CallFacts
<1> DEFINE fired == [subs[s] EXCEPT !.timer = FALSE]
           quit == [fired EXCEPT !.done = TRUE]
<1>1. UNCHANGED <<sidCounter, limit, s2c>> /\ s <= sidCounter
  BY DEF subTimeout, iterDone, quiet, history, TimerInv
<1>2. \/ /\ SetIO(unsubIO(IO, s, 0))
         /\ \/ subs' = [subs EXCEPT ![s] = stopIter(s, fired)]
            \/ subs' = [subs EXCEPT ![s] = stopIter(s, subs[s])]
      \/ SetIO(IO) /\ subs' = [subs EXCEPT ![s] = quit]
  BY DEF subTimeout, iterDone
<1>3. ASSUME NEW r \in Sid, r # s PROVE Same(r)
  <2>1. subs'[r] = subs[r]
    BY <1>0, <1>2, <1>3
  <2>2. limit'[r] = limit[r] /\ InFlight(r)' = InFlight(r)
    BY <1>1 DEF InFlight
  <2> QED
    BY <2>1, <2>2, Untouched
<1>4. fired \in Subscription /\ quit.listed = subs[s].listed /\ quit.drain = subs[s].drain
      /\ quit.received = subs[s].received
  BY <1>0 DEF Subscription
<1> HIDE DEF fired, quit
<1>5. CASE SetIO(unsubIO(IO, s, 0)) /\ subs' = [subs EXCEPT ![s] = stopIter(s, fired)]
  <2>1. subs'[s].listed = FALSE
    BY <1>0, <1>4, <1>5, stopIterFacts
  <2> QED
    BY <1>0, <1>1, <1>3, <1>5, <2>1, MindsStopped
<1>6. CASE SetIO(unsubIO(IO, s, 0)) /\ subs' = [subs EXCEPT ![s] = stopIter(s, subs[s])]
  <2>1. subs'[s].listed = FALSE
    BY <1>0, <1>6, stopIterFacts
  <2> QED
    BY <1>0, <1>1, <1>3, <1>6, <2>1, MindsStopped
<1>7. CASE SetIO(IO) /\ subs' = [subs EXCEPT ![s] = quit]
  <2>1. Written' = Written \o <<>> /\ <<>> \in Seq(Command) /\ Len(<<>>) = 0
    BY <1>0, <1>7, WritesNothing DEF SetIO, IO
  <2>2. Same(s)
    <3>1. /\ subs'[s].listed = subs[s].listed /\ subs'[s].drain = subs[s].drain
          /\ subs'[s].received = subs[s].received
      BY <1>0, <1>4, <1>7
    <3>2. Due(s)' = Due(s) /\ (Wanted(s)' <=> Wanted(s)) /\ limit'[s] = limit[s]
      BY <1>1, <3>1 DEF Due, InFlight, Wanted
    <3> QED
      BY <3>1, <3>2 DEF Same
  <2>3. Minds(<<>>)
    BY <1>1, <1>3, <2>1, <2>2, MindsNothing
  <2> QED
    BY <2>1, <2>3 DEF Mindful
<1> QED
  BY <1>2, <1>5, <1>6, <1>7

(* The commands of drains are PINGs and UNSUBs of those that drain. *)
LEMMA drainCmdsSay ==
  ASSUME NEW q \in Seq(Sid), NEW s \in Sid, \A i \in 1..Len(q) : q[i] # s
  PROVE  \A i \in 1..Len(drainCmds(q)) : ~IsSub(drainCmds(q)[i], s) /\ ~IsStop(drainCmds(q)[i], s)
<1>1. ASSUME NEW i \in 1..Len(drainCmds(q))
      PROVE  ~IsSub(drainCmds(q)[i], s) /\ ~IsStop(drainCmds(q)[i], s)
  <2>1. i \in 1..(2 * Len(q)) /\ Len(q) \in Nat
    BY <1>1 DEF drainCmds
  <2>2. drainCmds(q)[i] = IF i % 2 = 1 THEN UNSUB(q[(i + 1) \div 2], 0)
                                       ELSE PING(DrainOf(q[i \div 2]))
    BY <2>1 DEF drainCmds
  <2>3. CASE i % 2 = 1
    <3>1. (i + 1) \div 2 \in 1..Len(q)
      BY <2>1, <2>3
    <3> QED
      BY <2>2, <2>3, <3>1, Says
  <2>4. CASE i % 2 # 1
    BY <2>2, <2>4, Says, Ops
  <2> QED
    BY <2>3, <2>4
<1> QED
  BY <1>1

(* They subscribe nobody. *)
LEMMA drainCmdsSubs ==
  ASSUME NEW q \in Seq(Sid), NEW s
  PROVE  NoSubOf(drainCmds(q), s)
<1>1. ASSUME NEW i \in 1..Len(drainCmds(q)) PROVE ~IsSub(drainCmds(q)[i], s)
  <2>1. \/ drainCmds(q)[i] = UNSUB(q[(i + 1) \div 2], 0)
        \/ drainCmds(q)[i] = PING(DrainOf(q[i \div 2]))
    <3>1. i \in 1..(2 * Len(q))
      BY <1>1 DEF drainCmds
    <3> QED
      BY <3>1 DEF drainCmds
  <2> QED
    BY <2>1, Says, Ops
<1> QED
  BY <1>1 DEF NoSubOf

(* A drain of the subscriptions of S. *)
LEMMA MindsDraining ==
  ASSUME BarrierInv, Kept, NEW S \in SUBSET Sid, NEW q \in Seq(Sid),
         \A i \in 1..Len(q) : q[i] \in S, \A s \in S : s <= sidCounter,
         SetIO(drainIO(IO, q)), UNCHANGED <<sidCounter, limit, s2c>>,
         subs' = [s \in Sid |-> IF s \in S THEN startDrain(subs[s]) ELSE subs[s]]
  PROVE  Mindful
<1>0. TypeOK /\ NoInfoYet /\ subs \in [Sid -> Subscription] /\ Sid \subseteq Nat /\ sidCounter \in Nat
  BY CallFacts DEF TypeOK
<1> DEFINE cmds == drainCmds(q)
<1>1. cmds \in Seq(Command) /\ Written' = Written \o cmds
  BY <1>0, drainCmdsType, drainIOWrote, WrittenBy
<1>2. ASSUME NEW s \in Sid, s \in S
      PROVE  /\ ~(s > sidCounter') /\ ~Wanted(s)'
             /\ subs'[s].listed = subs[s].listed
  <2>1. subs'[s] = startDrain(subs[s]) /\ subs[s] \in Subscription
    BY <1>0, <1>2
  <2>2. startDrain(subs[s]).drain = "pending" /\ startDrain(subs[s]).listed = subs[s].listed
    BY <2>1 DEF startDrain, Subscription
  <2>3. s \in Nat /\ s <= sidCounter
    BY <1>0, <1>2
  <2> QED
    BY <1>0, <2>1, <2>2, <2>3 DEF Wanted
<1>3. ASSUME NEW s \in Sid, s \notin S
      PROVE  Same(s) /\ Silent(cmds, s) /\ \A l : Lenient(cmds, s, l)
  <2>1. subs'[s] = subs[s] /\ limit'[s] = limit[s] /\ InFlight(s)' = InFlight(s)
    BY <1>0, <1>3 DEF InFlight
  <2>2. \A i \in 1..Len(cmds) : ~IsSub(cmds[i], s) /\ ~IsStop(cmds[i], s)
    BY <1>3, drainCmdsSay
  <2> QED
    BY <2>1, <2>2, Untouched, SaysNothing
<1>4. \A s : NoSubOf(cmds, s)
  BY drainCmdsSubs
<1> HIDE DEF cmds
<1>5. Minds(cmds)
  BY <1>2, <1>3, <1>4 DEF Minds, Same, Lower
<1> QED
  BY <1>1, <1>5 DEF Mindful

(* drain(), of a subscription or of the connection. *)
LEMMA MindsDrains ==
  ASSUME BarrierInv, Kept, drain \/ \E s \in Sid : drainSub(s)
  PROVE  Mindful
<1>0. TypeOK /\ CallInv /\ subs \in [Sid -> Subscription]
  BY CallFacts
<1>1. CASE drain
  <2>1. PICK q \in InOrder(ToDrain) : SetIO(drainIO(IO, q))
    BY <1>1 DEF drain
  <2>2. ToDrain \in SUBSET Sid /\ \A s \in ToDrain : s <= sidCounter
    BY <1>0 DEF ToDrain, Listed, CallInv
  <2>3. q \in Seq(Sid) /\ \A i \in 1..Len(q) : q[i] \in ToDrain
    BY <2>2, InOrderType
  <2>4. /\ UNCHANGED <<sidCounter, limit, s2c>>
        /\ subs' = [s \in Sid |-> IF s \in ToDrain THEN startDrain(subs[s]) ELSE subs[s]]
    BY <1>1 DEF drain
  <2> QED
    BY <2>1, <2>2, <2>3, <2>4, MindsDraining
<1>2. ASSUME NEW s \in Sid, drainSub(s) PROVE Mindful
  <2>1. /\ s <= sidCounter /\ UNCHANGED <<sidCounter, limit, s2c>> /\ SetIO(drainIO(IO, <<s>>))
        /\ subs' = [subs EXCEPT ![s] = startDrain(subs[s])]
    BY <1>2 DEF drainSub
  <2>2. subs' = [r \in Sid |-> IF r \in {s} THEN startDrain(subs[r]) ELSE subs[r]]
    BY <1>0, <2>1
  <2>3. <<s>> \in Seq(Sid) /\ (\A i \in 1..Len(<<s>>) : <<s>>[i] \in {s}) /\ {s} \in SUBSET Sid
    OBVIOUS
  <2>4. \A r \in {s} : r <= sidCounter
    BY <2>1
  <2> QED
    BY <2>1, <2>2, <2>3, <2>4, MindsDraining
<1> QED
  BY <1>1, <1>2

(* A message. *)
LEMMA MindsMsg ==
  ASSUME BarrierInv, TypeOK', Kept, ~closed, processMsg, NEW s, s = Head(s2c).sid
  PROVE  Mindful
<1> DEFINE got == receivedSub(s, subs[s])
           full == atLimit(got)
<1>0. /\ TypeOK /\ CallInv /\ NoInfoYet /\ subs \in [Sid -> Subscription] /\ Sid \subseteq Nat
      /\ s2c \in Seq(Frame) /\ INFO \in Frame /\ 0 \in Nat /\ limit' = limit
  <2>1. 0 \in Nat /\ Connect \in Tag
    BY TagType
  <2>2. INFO \in Frame
    BY <2>1, FrameType
  <2>3. limit' = limit
    BY DEF processMsg, history
  <2> QED
    BY <2>1, <2>2, <2>3, CallFacts DEF TypeOK
<1>1. /\ s2c # <<>> /\ Head(s2c).op = "MSG" /\ s2c' = Tail(s2c) /\ sidCounter' = sidCounter
  BY DEF processMsg, Reading
<1>2. s \in Nat
  <2>1. Head(s2c) \in Frame
    BY <1>0, <1>1
  <2> QED
    BY <2>1 DEF Frame
<1>3. \/ subs' = subs /\ UNCHANGED <<outbound, c2s>> /\ ~subs[s].listed
      \/ subs' = [subs EXCEPT ![s] = got] /\ UNCHANGED <<outbound, c2s>> /\ subs[s].listed
      \/ subs' = [subs EXCEPT ![s] = unsubscribeSub(s, got, 0)] /\ SetIO(unsubIO(IO, s, 0))
         /\ subs[s].listed
  <2>1. CASE ~subs[s].listed
    BY <2>1 DEF processMsg
  <2>2. CASE subs[s].listed /\ full
    BY <2>2 DEF processMsg
  <2>3. CASE subs[s].listed /\ ~full
    BY <2>3 DEF processMsg, SetIO, IO
  <2> QED
    BY <2>1, <2>2, <2>3
<1> HIDE DEF full
<1>4. \A r : Carries(Head(s2c), r) <=> r = s
  BY <1>1 DEF Carries
<1>5. ASSUME NEW r \in Sid
      PROVE  /\ InFlight(r) \in Nat /\ InFlight(r)' \in Nat
             /\ r # s => InFlight(r)' = InFlight(r)
             /\ r = s => InFlight(r) = InFlight(r)' + 1
  <2>1. /\ Messages(Tail(s2c), r) \in Nat
        /\ Messages(s2c, r) = Messages(Tail(s2c), r) + (IF Carries(Head(s2c), r) THEN 1 ELSE 0)
    BY <1>0, <1>1, MessagesLess
  <2>2. InFlight(r) = Messages(s2c, r) /\ InFlight(r)' = Messages(Tail(s2c), r)
    BY <1>1 DEF InFlight, Messages
  <2>3. Carries(Head(s2c), r) <=> r = s
    BY <1>4
  <2> QED
    BY <2>1, <2>2, <2>3
<1> HIDE DEF got
<1>6. ASSUME NEW r \in Sid, r # s PROVE Same(r)
  <2>1. subs'[r] = subs[r]
    BY <1>0, <1>3, <1>6
  <2>2. limit'[r] = limit[r] /\ InFlight(r)' = InFlight(r)
    BY <1>0, <1>5, <1>6
  <2> QED
    BY <2>1, <2>2, Untouched
<1>7. ASSUME UNCHANGED <<outbound, c2s>>, s \in Sid => Same(s)
      PROVE  Mindful
  <2>1. Written' = Written \o <<>>
    BY <1>0, <1>7, WritesNothing
  <2>2. <<>> \in Seq(Command) /\ Len(<<>>) = 0
    OBVIOUS
  <2>3. \A r \in Sid : Same(r)
    BY <1>6, <1>7
  <2>4. Minds(<<>>)
    BY <1>1, <2>2, <2>3, MindsNothing
  <2> QED
    BY <2>1, <2>2, <2>4 DEF Mindful
<1>8. CASE subs' = subs /\ UNCHANGED <<outbound, c2s>> /\ ~subs[s].listed
  <2>1. Same(s)
    BY <1>8 DEF Same, Wanted
  <2> QED
    BY <1>7, <1>8, <2>1
<1>9. CASE subs' = [subs EXCEPT ![s] = got] /\ UNCHANGED <<outbound, c2s>> /\ subs[s].listed
  <2>1. ASSUME s \in Sid PROVE Same(s)
    <3>1. subs'[s] = got /\ subs[s] \in Subscription /\ subs[s].received \in Nat
      <4>1. subs[s] \in Subscription
        BY <1>0, <2>1
      <4> QED
        BY <1>0, <1>9, <2>1, <4>1 DEF Subscription
    <3>2. /\ got.received = subs[s].received + 1 /\ got.listed = subs[s].listed
          /\ got.drain = subs[s].drain
      BY <2>1, <3>1, receivedFacts DEF got
    <3>3. Due(s)' = Due(s)
      <4>1. InFlight(s) \in Nat /\ InFlight(s)' \in Nat /\ InFlight(s) = InFlight(s)' + 1
        BY <1>5, <2>1
      <4>2. (subs[s].received + 1) + InFlight(s)' = subs[s].received + (InFlight(s)' + 1)
        BY <3>1, <4>1
      <4> QED
        BY <3>1, <3>2, <4>1, <4>2 DEF Due
    <3> QED
      BY <1>0, <3>1, <3>2, <3>3 DEF Same, Wanted
  <2> QED
    BY <1>7, <1>9, <2>1
<1>10. CASE /\ subs' = [subs EXCEPT ![s] = unsubscribeSub(s, got, 0)] /\ SetIO(unsubIO(IO, s, 0))
            /\ subs[s].listed
  <2>1. s \in Sid => s <= sidCounter
    BY <1>0, <1>10 DEF CallInv
  <2>2. ASSUME s \in Sid PROVE subs'[s].listed = FALSE
    <3>1. got \in Subscription
      BY <1>0, <2>2, SubscriptionOps DEF got
    <3>2. unsubscribeSub(s, got, 0).listed = FALSE
      BY <1>0, <2>2, <3>1, unsubscribeFacts
    <3> QED
      BY <1>0, <1>10, <2>2, <3>2
  <2> QED
    BY <1>1, <1>2, <1>6, <1>10, <2>1, <2>2, MindsStopped
<1> QED
  BY <1>3, <1>8, <1>9, <1>10

-----------------------------------------------------------------------------
(* Calls and tasks keep the invariant of interest. *)
LEMMA InterestCalls ==
  ASSUME SettleInv, LimitInv, TimerInv, InterestInv, TypeOK',
         \/ \E m \in Maxes : subscribe(m)
         \/ \E s \in Sid, m \in Maxes : unsubscribe(s, m)
         \/ flush \/ publish \/ drain \/ drainFlush \/ flushTask \/ processMsg
         \/ \E s \in Sid : drainSub(s) \/ subTimeout(s) \/ iterDone(s)
  PROVE  InterestInv'
<1>1. BarrierInv /\ TypeOK /\ UNCHANGED link /\ srv' = srv
  BY WritesOnly, CallFacts DEF SettleInv
<1>2. UNCHANGED <<closed, connected, transport, srv>> /\ (Kept => ~closed)
  BY <1>1 DEF link, LimitInv, Kept
<1>3. Kept => Mindful
  <2>1. Kept /\ processMsg => Mindful
    <3>1. PICK s : s = Head(s2c).sid
      OBVIOUS
    <3> QED
      BY <1>1, <1>2, <3>1, MindsMsg
  <2>2. SUFFICES ASSUME Kept PROVE Mindful
    OBVIOUS
  <2>3. CASE \E m \in Maxes : subscribe(m)
    BY <1>1, <2>2, <2>3, MindsSubscribe
  <2>4. CASE \E s \in Sid, m \in Maxes : unsubscribe(s, m)
    BY <1>1, <1>2, <2>2, <2>4, MindsUnsubscribe
  <2>5. CASE flush \/ publish \/ drainFlush \/ flushTask
    BY <1>1, <2>2, <2>5, MindsPlain
  <2>6. CASE drain \/ \E s \in Sid : drainSub(s)
    BY <1>1, <2>2, <2>6, MindsDrains
  <2>7. CASE \E s \in Sid : subTimeout(s) \/ iterDone(s)
    BY <1>1, <1>2, <2>2, <2>7, MindsTimers
  <2> QED
    BY <2>1, <2>2, <2>3, <2>4, <2>5, <2>6, <2>7
<1>4. CASE Kept
  <2>1. PICK cmds \in Seq(Command) : Written' = Written \o cmds /\ Minds(cmds)
    BY <1>3, <1>4 DEF Mindful
  <2> QED
    BY <1>1, <1>2, <2>1, InterestWrites
<1>5. CASE ~Kept
  <2>1. <<>> \in Seq(Command)
    OBVIOUS
  <2> QED
    BY <1>1, <1>2, <1>5, <2>1, InterestWrites
<1> QED
  BY <1>4, <1>5

-----------------------------------------------------------------------------
(* Transports and frames, and interest.                                    *)

(* Without a transport nothing is promised. *)
LEMMA InterestGone == ASSUME ~Kept' PROVE InterestInv'
BY DEF InterestInv, MutedInv, UnlistedInv, NewInv, WantedInv

(* With nothing written and no interest yet, nothing is to be ended. *)
LEMMA InterestFresh ==
  ASSUME Written' = <<>>, srv' = NoInterest, ~connected'
  PROVE  InterestInv'
<1>1. Len(<<>>) = 0
  OBVIOUS
<1>2. \A s : NoSubOf(<<>>, s) /\ Silent(<<>>, s) /\ \A l : Lenient(<<>>, s, l)
  BY <1>1 DEF NoSubOf, Silent, Lenient
<1>3. \A s \in Sid : ~srv'[s].on
  BY DEF NoInterest
<1>4. \A s \in Sid : \A l, n : Honours(srv'[s], l, n)
  BY <1>3 DEF Honours
<1> QED
  BY <1>2, <1>3, <1>4 DEF InterestInv, MutedInv, UnlistedInv, NewInv, WantedInv

(* What is written says the same; nothing else changed. *)
LEMMA InterestSame ==
  ASSUME InterestInv, UNCHANGED <<connected, transport, srv, subs, sidCounter, limit>>,
         \A s \in Sid : /\ InFlight(s)' = InFlight(s)
                        /\ Stops(Written, s) => Stops(Written', s)
                        /\ NoSubOf(Written, s) <=> NoSubOf(Written', s)
                        /\ Silent(Written, s) => Silent(Written', s)
                        /\ \A l : Lenient(Written, s, l) => Lenient(Written', s, l)
  PROVE  InterestInv'
<1>0. Kept' = Kept /\ MutedInv /\ UnlistedInv /\ NewInv /\ WantedInv
  BY DEF Kept, InterestInv
<1>1. MutedInv'
  BY <1>0 DEF MutedInv
<1>2. UnlistedInv'
  BY <1>0 DEF UnlistedInv
<1>3. NewInv'
  BY <1>0 DEF NewInv
<1>4. \A s \in Sid : (Wanted(s)' <=> Wanted(s)) /\ Due(s)' = Due(s) /\ (Reached(s)' <=> Reached(s))
  BY DEF Wanted, Due, Reached
<1>5. WantedInv'
  BY <1>0, <1>4 DEF WantedInv
<1> QED
  BY <1>1, <1>2, <1>3, <1>5 DEF InterestInv

(* prepare() and connect. *)
LEMMA InterestLinks ==
  ASSUME SettleInv, InterestInv, prepare \/ connectOk
  PROVE  InterestInv'
<1>0. TypeOK /\ WireInv /\ HandInv /\ DialInv /\ NoInfoYet /\ outbound \in Seq(Command)
  BY SettleFacts
<1>1. CASE prepare
  <2>1. /\ c2s' = <<>> /\ outbound' = <<>> /\ srv' = NoInterest /\ ~connected'
    BY <1>0, <1>1 DEF prepare, WireInv, HandInv, DialInv
  <2>2. <<>> \o <<>> = <<>>
    OBVIOUS
  <2>3. Written' = <<>>
    BY <2>1, <2>2 DEF Written
  <2> QED
    BY <2>1, <2>3, InterestFresh
<1>2. CASE connectOk
  <2>1. /\ transport = "connecting" /\ transport' = "open" /\ ~connected
        /\ UNCHANGED <<connected, c2s, outbound, srv, subs, sidCounter, limit>>
        /\ srv = NoInterest
    BY <1>0, <1>2 DEF connectOk, app, WireInv, HandInv, DialInv, NoInfoYet
  <2>2. Kept /\ Kept' /\ Written' = Written
    BY <2>1 DEF Kept, Written
  <2>3. MutedInv' /\ UnlistedInv' /\ NewInv'
    BY <2>1, <2>2 DEF InterestInv, MutedInv, UnlistedInv, NewInv
  <2>4. ASSUME NEW s \in Sid, Wanted(s)'
        PROVE  Lenient(Written', s, limit'[s]) /\ Honours(srv'[s], limit'[s], Due(s)')
    <3>1. Wanted(s)
      BY <2>1, <2>4 DEF Wanted
    <3>2. Lenient(Written, s, limit[s])
      BY <2>2, <3>1 DEF InterestInv, WantedInv
    <3>3. ~srv'[s].on
      BY <2>1 DEF NoInterest
    <3> QED
      BY <2>1, <2>2, <3>2, <3>3 DEF Honours
  <2>5. WantedInv'
    BY <2>1, <2>4 DEF WantedInv
  <2> QED
    BY <2>3, <2>5 DEF InterestInv
<1> QED
  BY <1>1, <1>2

(* A frame that is no message. *)
LEMMA NoMessage ==
  ASSUME s2c \in Seq(Frame), NEW s \in Sid,
         \/ s2c # <<>> /\ s2c' = Tail(s2c) /\ Head(s2c).op # "MSG"
         \/ \E f \in Frame : s2c' = Append(s2c, f) /\ f.op # "MSG"
  PROVE  InFlight(s)' = InFlight(s)
<1>1. InFlight(s) = Messages(s2c, s) /\ InFlight(s)' = Messages(s2c', s)
  BY DEF InFlight, Messages
<1>2. CASE s2c # <<>> /\ s2c' = Tail(s2c) /\ Head(s2c).op # "MSG"
  <2>1. /\ Messages(Tail(s2c), s) \in Nat
        /\ Messages(s2c, s) = Messages(Tail(s2c), s) + (IF Carries(Head(s2c), s) THEN 1 ELSE 0)
    BY <1>2, MessagesLess
  <2>2. ~Carries(Head(s2c), s)
    BY <1>2 DEF Carries
  <2> QED
    BY <1>1, <1>2, <2>1, <2>2
<1>3. ASSUME NEW f \in Frame, s2c' = Append(s2c, f), f.op # "MSG"
      PROVE  InFlight(s)' = InFlight(s)
  <2>1. /\ Messages(s2c, s) \in Nat
        /\ Messages(Append(s2c, f), s) = Messages(s2c, s) + (IF Carries(f, s) THEN 1 ELSE 0)
    BY MessagesMore
  <2>2. ~Carries(f, s)
    BY <1>3 DEF Carries
  <2> QED
    BY <1>1, <1>3, <2>1, <2>2
<1> QED
  BY <1>2, <1>3

(* processInfo(): the PING of CONNECT is about no subscription. *)
LEMMA InterestInfo ==
  ASSUME SettleInv, InterestInv, processInfo
  PROVE  InterestInv'
<1>0. /\ TypeOK /\ WireInv /\ s2c \in Seq(Frame)
      /\ c2s \in Seq(Command) /\ outbound \in Seq(Command)
  BY SettleFacts
<1>1. /\ s2c # <<>> /\ s2c' = Tail(s2c) /\ Head(s2c).op = "INFO"
      /\ UNCHANGED <<connected, transport, outbound, srv, subs, sidCounter, limit>>
  BY DEF processInfo, Reading, history
<1>2. \A s \in Sid : InFlight(s)' = InFlight(s)
  BY <1>0, <1>1, NoMessage
<1>3. CASE c2s' = c2s
  <2>1. Written' = Written
    BY <1>1, <1>3 DEF Written
  <2> QED
    BY <1>1, <1>2, <2>1, InterestSame
<1>4. CASE c2s' # c2s
  <2> DEFINE p == <<PING(Connect)>>
  <2>1. PING(Connect) \in Command /\ p \in Seq(Command) /\ PING(Connect).op = "PING"
    BY PingType, TagType, Ops
  <2>2. /\ transport = "open" /\ ~infoReceived /\ c2s' = c2s \o p
    BY <1>4 DEF processInfo, TransportSend, IO
  <2>3. c2s = <<>>
    BY <1>0, <2>2 DEF WireInv
  <2>4. \A s, l : NoSubOf(p, s) /\ Silent(p, s) /\ Lenient(p, s, l)
    BY <2>1, Says, OneCommand
  <2> HIDE DEF p
  <2>5. <<>> \o p = p /\ <<>> \o outbound = outbound
    BY <1>0, <2>1
  <2>6. Written = outbound /\ Written' = p \o outbound
    BY <1>1, <2>2, <2>3, <2>5 DEF Written
  <2>7. ASSUME NEW s \in Sid, NEW l
        PROVE  /\ Stops(Written, s) => Stops(Written', s)
               /\ NoSubOf(Written, s) <=> NoSubOf(Written', s)
               /\ Silent(Written, s) => Silent(Written', s)
               /\ Lenient(Written, s, l) => Lenient(Written', s, l)
    <3>1. /\ Stops(outbound, s) => Stops(p \o outbound, s)
          /\ Lenient(p \o outbound, s, l) <=> Lenient(p, s, l) /\ Lenient(outbound, s, l)
          /\ Silent(p \o outbound, s) <=> Silent(p, s) /\ Silent(outbound, s)
      BY <1>0, <2>1, BothSequences
    <3>2. NoSubOf(p \o outbound, s) <=> NoSubOf(p, s) /\ NoSubOf(outbound, s)
      BY <1>0, <2>1, NoSubConcat
    <3> QED
      BY <2>4, <2>6, <3>1, <3>2
  <2> QED
    BY <1>1, <1>2, <2>7, InterestSame
<1> QED
  BY <1>3, <1>4

(* processPong(): what drained and is answered has no interest left. *)
LEMMA InterestPong ==
  ASSUME SettleInv, SettleInv', InterestInv, processPong
  PROVE  InterestInv'
<1>0. /\ TypeOK /\ s2c \in Seq(Frame) /\ subs \in [Sid -> Subscription] /\ DrainInv'
  BY SettleFacts DEF SettleInv
<1>1. /\ s2c # <<>> /\ s2c' = Tail(s2c) /\ Head(s2c).op = "PONG"
      /\ UNCHANGED <<connected, transport, outbound, c2s, srv, sidCounter, limit>>
      /\ subs' = settleDrains({Head(pongs)})
  BY DEF processPong, Reading, link, history
<1>2. Kept' = Kept /\ Written' = Written /\ MutedInv /\ UnlistedInv /\ NewInv /\ WantedInv
  BY <1>1 DEF Kept, Written, InterestInv
<1>3. ASSUME NEW s \in Sid
      PROVE  /\ \/ subs'[s] = subs[s]
                \/ subs'[s].drain = "settled" /\ ~subs'[s].listed
             /\ subs'[s].drain # "settled" => subs'[s] = subs[s]
  <2>1. CASE DrainOf(s) = Head(pongs)
    <3>1. cancelSub(s, subs[s]) \in Subscription /\ ~cancelSub(s, subs[s]).listed
      <4>1. 0 \in Nat
        OBVIOUS
      <4> QED
        BY <1>0, <4>1, SubscriptionOps, CancelFacts
    <3>2. subs'[s] = [cancelSub(s, subs[s]) EXCEPT !.drain = "settled"]
      BY <1>1, <2>1 DEF settleDrains
    <3>3. subs'[s].drain = "settled" /\ ~subs'[s].listed
      BY <3>1, <3>2 DEF Subscription
    <3> QED
      BY <3>3
  <2>2. CASE DrainOf(s) # Head(pongs)
    BY <1>1, <2>2 DEF settleDrains
  <2> QED
    BY <2>1, <2>2
<1>4. MutedInv' /\ NewInv'
  BY <1>1, <1>2 DEF MutedInv, NewInv
<1>5. UnlistedInv'
  <2>1. ASSUME Kept, NEW s \in Sid, ~subs'[s].listed
        PROVE  \/ Stops(Written', s)
               \/ NoSubOf(Written', s) /\ (srv'[s].on => srv'[s].max # 0)
    <3>1. CASE subs'[s] = subs[s]
      BY <1>1, <1>2, <2>1, <3>1 DEF UnlistedInv
    <3>2. CASE subs'[s].drain = "settled"
      <4>1. ~srv'[s].on /\ NoSubOf(Ahead', s)
        BY <1>0, <3>2 DEF DrainInv, Answered
      <4>2. Ahead' = Written'
        BY <1>2, <2>1 DEF Ahead
      <4> QED
        BY <4>1, <4>2
    <3> QED
      BY <1>3, <3>1, <3>2
  <2> QED
    BY <1>2, <2>1 DEF UnlistedInv
<1>6. ASSUME NEW s \in Sid, Wanted(s)'
      PROVE  /\ Wanted(s) /\ Due(s)' = Due(s) /\ (Reached(s)' <=> Reached(s))
             /\ limit'[s] = limit[s]
  <2>1. subs'[s] = subs[s]
    BY <1>3, <1>6 DEF Wanted
  <2>2. InFlight(s)' = InFlight(s)
    BY <1>0, <1>1, NoMessage
  <2>3. Due(s)' = Due(s) /\ limit'[s] = limit[s]
    BY <1>1, <2>1, <2>2 DEF Due
  <2> QED
    BY <1>6, <2>1, <2>3 DEF Wanted, Reached
<1>7. WantedInv'
  BY <1>1, <1>2, <1>6 DEF WantedInv
<1> QED
  BY <1>4, <1>5, <1>7 DEF InterestInv

(* What one command does to the interest in s. *)
LEMMA Interested ==
  ASSUME NEW e \in ServerSub, NEW h \in Command, NEW s
  PROVE  /\ IsSub(h, s) /\ ~e.on => serverSub(e, h).on /\ serverSub(e, h).max = 0 /\ serverSub(e, h).sent = 0
         /\ IsSub(h, s) /\ e.on => serverSub(e, h) = e
         /\ IsStop(h, s) /\ ~e.on => serverSub(e, h) = e
         /\ IsStop(h, s) /\ e.on /\ (h.max = 0 \/ e.sent >= h.max) => ~serverSub(e, h).on
         /\ IsStop(h, s) /\ e.on /\ ~(h.max = 0 \/ e.sent >= h.max) =>
              serverSub(e, h).on /\ serverSub(e, h).max = h.max /\ serverSub(e, h).sent = e.sent
<1>1. ASSUME IsSub(h, s)
      PROVE  /\ ~e.on => serverSub(e, h).on /\ serverSub(e, h).max = 0 /\ serverSub(e, h).sent = 0
             /\ e.on => serverSub(e, h) = e
  <2>1. h.op = "SUB" /\ h.op # "UNSUB"
    BY <1>1 DEF IsSub
  <2> QED
    BY <2>1 DEF serverSub
<1>2. ASSUME IsStop(h, s)
      PROVE  /\ ~e.on => serverSub(e, h) = e
             /\ e.on /\ (h.max = 0 \/ e.sent >= h.max) => ~serverSub(e, h).on
             /\ e.on /\ ~(h.max = 0 \/ e.sent >= h.max) =>
                  serverSub(e, h) = [e EXCEPT !.max = h.max]
  <2>1. h.op = "UNSUB" /\ h.op # "SUB"
    BY <1>2 DEF IsStop
  <2> QED
    BY <2>1 DEF serverSub
<1>3. e.on => /\ [e EXCEPT !.max = h.max].on /\ [e EXCEPT !.max = h.max].max = h.max
              /\ [e EXCEPT !.max = h.max].sent = e.sent
  BY DEF ServerSub
<1> QED
  BY <1>1, <1>2, <1>3

(* The server processes a command. *)
LEMMA InterestRecv ==
  ASSUME SettleInv, InterestInv, serverRecv
  PROVE  InterestInv'
<1> DEFINE h == Head(c2s)
<1>0. /\ TypeOK /\ WireInv /\ HandInv
      /\ c2s \in Seq(Command) /\ outbound \in Seq(Command) /\ s2c \in Seq(Frame)
      /\ srv \in [Sid -> ServerSub]
  BY SettleFacts DEF TypeOK
<1>1. /\ c2s # <<>> /\ c2s' = Tail(c2s) /\ h \in Command /\ transport \in {"open", "leaving"}
      /\ UNCHANGED <<connected, transport, outbound, subs, sidCounter, limit>>
      /\ s2c' = IF h.op = "PING" THEN Append(s2c, PONG(h.tag)) ELSE s2c
      /\ srv' = [s \in Sid |-> IF h.op \in {"SUB", "UNSUB"} /\ h.sid = s
                               THEN serverSub(srv[s], h) ELSE srv[s]]
  <2>1. c2s # <<>>
    BY DEF serverRecv
  <2>2. h \in Command
    BY <1>0, <2>1
  <2> QED
    BY <2>1, <2>2 DEF serverRecv, Served, client
<1>2. CASE ~Kept
  BY <1>1, <1>2, InterestGone DEF Kept
<1>3. ASSUME Kept PROVE InterestInv'
  <2>1. Kept' /\ MutedInv /\ UnlistedInv /\ NewInv /\ WantedInv
    BY <1>1, <1>3 DEF Kept, InterestInv
  <2>2. /\ Written \in Seq(Command) /\ Written # <<>>
        /\ Head(Written) = h /\ Written' = Tail(Written)
    <3>1. /\ c2s \o outbound \in Seq(Command) /\ c2s \o outbound # <<>>
          /\ Head(c2s \o outbound) = Head(c2s) /\ Tail(c2s \o outbound) = Tail(c2s) \o outbound
      BY <1>0, <1>1
    <3> QED
      BY <1>1, <3>1 DEF Written
  <2>3. \A s \in Sid : InFlight(s)' = InFlight(s)
    <3>1. CASE h.op = "PING"
      <4>1. PONG(h.tag) \in Frame /\ PONG(h.tag).op = "PONG"
        <5>1. h.tag \in Tag /\ 0 \in Nat
          BY <1>1 DEF Command
        <5> QED
          BY <5>1, FrameType, Ops
      <4> QED
        BY <1>0, <1>1, <3>1, <4>1, NoMessage
    <3>2. CASE h.op # "PING"
      BY <1>1, <3>2 DEF InFlight
    <3> QED
      BY <3>1, <3>2
  <2>4. ~connected => h = PING(Connect)
    <3>1. infoReceived
      BY <1>0, <1>1 DEF WireInv
    <3>2. transport = "open"
      BY <1>1, <1>3 DEF Kept
    <3>3. ~connected => c2s = <<PING(Connect)>>
      BY <1>0, <1>1, <3>1, <3>2 DEF HandInv
    <3>4. c2s = <<PING(Connect)>> => h = PING(Connect)
      OBVIOUS
    <3> QED
      BY <3>3, <3>4
  <2> HIDE DEF h
  <2>5. ASSUME NEW s \in Sid
        PROVE  /\ IsSub(h, s) \/ IsStop(h, s) => srv'[s] = serverSub(srv[s], h)
               /\ ~IsSub(h, s) /\ ~IsStop(h, s) => srv'[s] = srv[s]
    BY <1>1 DEF IsSub, IsStop
  <2>6. ASSUME NEW s \in Sid, NEW l
        PROVE  /\ NoSubOf(Written, s) <=> ~IsSub(h, s) /\ NoSubOf(Written', s)
               /\ Stops(Written, s) => Stops(Written', s) \/ (IsStop(h, s) /\ NoSubOf(Written', s))
               /\ Lenient(Written, s, l) => /\ Lenient(Written', s, l)
                                            /\ IsStop(h, s) => l # 0 /\ h.max >= l
               /\ Silent(Written, s) => Silent(Written', s) /\ ~IsSub(h, s) /\ ~IsStop(h, s)
    BY <2>2, FirstCommand
  <2>7. ASSUME NEW s \in Sid
        PROVE  /\ srv[s] \in ServerSub /\ srv[s].on \in BOOLEAN /\ srv[s].max \in Nat
               /\ srv[s].sent \in Nat /\ limit[s] \in Nat /\ Due(s) \in Nat /\ h.max \in Nat
    <3>1. srv[s] \in ServerSub
      BY <1>0
    <3>2. h.max \in Nat
      BY <1>1 DEF Command
    <3> QED
      BY <1>0, <3>1, <3>2, InterestFacts
  <2>8. MutedInv'
    <3>1. ASSUME ~connected PROVE srv' = srv
      <4>1. h.op = "PING"
        BY <2>4, <3>1, Ops
      <4> QED
        BY <1>0, <1>1, <4>1
    <3> QED
      BY <1>1, <1>3, <2>1, <3>1 DEF MutedInv
  <2>9. ASSUME NEW s \in Sid, IsStop(h, s)
        PROVE  srv'[s].on => /\ srv[s].on /\ srv'[s].max = h.max /\ srv'[s].sent = srv[s].sent
                             /\ h.max # 0 /\ srv[s].sent < h.max
    <3>1. srv'[s] = serverSub(srv[s], h) /\ ~IsSub(h, s)
      BY <2>5, <2>9 DEF IsSub, IsStop
    <3>2. CASE ~srv[s].on
      BY <1>1, <2>7, <2>9, <3>1, <3>2, Interested
    <3>3. CASE srv[s].on /\ (h.max = 0 \/ srv[s].sent >= h.max)
      BY <1>1, <2>7, <2>9, <3>1, <3>3, Interested
    <3>4. CASE srv[s].on /\ ~(h.max = 0 \/ srv[s].sent >= h.max)
      <4>1. /\ serverSub(srv[s], h).max = h.max /\ serverSub(srv[s], h).sent = srv[s].sent
        BY <1>1, <2>7, <2>9, <3>4, Interested
      <4> QED
        BY <2>7, <3>1, <3>4, <4>1
    <3> QED
      BY <3>2, <3>3, <3>4
  <2>10. ASSUME NEW s \in Sid, IsSub(h, s)
         PROVE  /\ srv'[s].on
                /\ srv'[s] = srv[s] \/ (srv'[s].max = 0 /\ srv'[s].sent = 0)
    <3>1. srv'[s] = serverSub(srv[s], h)
      BY <2>5, <2>10
    <3>2. CASE ~srv[s].on
      BY <1>1, <2>7, <2>10, <3>1, <3>2, Interested
    <3>3. CASE srv[s].on
      BY <1>1, <2>7, <2>10, <3>1, <3>3, Interested
    <3> QED
      BY <3>2, <3>3
  <2>11. UnlistedInv'
    <3>1. ASSUME NEW s \in Sid, ~subs'[s].listed
          PROVE  \/ Stops(Written', s)
                 \/ NoSubOf(Written', s) /\ (srv'[s].on => srv'[s].max # 0)
      <4>1. \/ Stops(Written, s)
            \/ NoSubOf(Written, s) /\ (srv[s].on => srv[s].max # 0)
        BY <1>1, <1>3, <2>1, <3>1 DEF UnlistedInv
      <4>2. CASE IsStop(h, s)
        BY <2>6, <2>9, <4>1, <4>2
      <4>3. CASE ~IsStop(h, s)
        <5>1. NoSubOf(Written, s) => srv'[s] = srv[s]
          BY <2>5, <2>6, <4>3
        <5> QED
          BY <2>6, <4>1, <4>3, <5>1
      <4> QED
        BY <4>2, <4>3
    <3> QED
      BY <3>1 DEF UnlistedInv
  <2>12. NewInv'
    BY <1>1, <1>3, <2>1, <2>5, <2>6 DEF NewInv
  <2>13. ASSUME NEW s \in Sid, Wanted(s)'
         PROVE  /\ connected' => srv'[s].on \/ Reached(s)' \/ ~NoSubOf(Written', s)
                /\ Lenient(Written', s, limit'[s])
                /\ Honours(srv'[s], limit'[s], Due(s)')
    <3>1. Wanted(s) /\ Due(s)' = Due(s) /\ limit'[s] = limit[s] /\ (Reached(s)' <=> Reached(s))
      BY <1>1, <2>3, <2>13 DEF Wanted, Due, Reached
    <3>2. /\ connected => srv[s].on \/ Reached(s) \/ ~NoSubOf(Written, s)
          /\ Lenient(Written, s, limit[s]) /\ Honours(srv[s], limit[s], Due(s))
      BY <1>3, <2>1, <3>1 DEF WantedInv
    <3>3. Lenient(Written', s, limit[s]) /\ (IsStop(h, s) => limit[s] # 0 /\ h.max >= limit[s])
      BY <2>6, <3>2
    <3>4. CASE IsSub(h, s)
      <4>1. Honours(srv'[s], limit[s], Due(s))
        BY <2>7, <2>10, <3>2, <3>4 DEF Honours
      <4> QED
        BY <2>10, <3>1, <3>3, <3>4, <4>1
    <3>5. CASE IsStop(h, s)
      <4>1. ~IsSub(h, s)
        BY <3>5 DEF IsSub, IsStop
      <4>2. Honours(srv'[s], limit[s], Due(s))
        BY <2>7, <2>9, <3>2, <3>3, <3>5 DEF Honours
      <4>3. srv[s].on /\ ~srv'[s].on => Reached(s)
        <5>1. ASSUME srv[s].on, ~srv'[s].on PROVE Reached(s)
          <6>1. srv[s].sent >= h.max
            <7>1. srv'[s] = serverSub(srv[s], h) /\ h.max # 0
              BY <2>5, <2>7, <3>3, <3>5
            <7>2. ~(srv[s].sent >= h.max) => serverSub(srv[s], h).on
              BY <1>1, <2>7, <3>5, <5>1, <7>1, Interested
            <7> QED
              BY <5>1, <7>1, <7>2
          <6>2. srv[s].sent <= Due(s)
            BY <3>2, <5>1 DEF Honours
          <6> QED
            BY <2>7, <3>3, <3>5, <6>1, <6>2 DEF Reached
        <5> QED
          BY <5>1
      <4> QED
        BY <1>1, <2>6, <3>1, <3>2, <3>3, <4>1, <4>2, <4>3
    <3>6. CASE ~IsSub(h, s) /\ ~IsStop(h, s)
      <4>1. srv'[s] = srv[s]
        BY <2>5, <3>6
      <4> QED
        BY <1>1, <2>6, <3>1, <3>2, <3>3, <3>6, <4>1
    <3> QED
      BY <3>4, <3>5, <3>6
  <2>14. WantedInv'
    BY <2>13 DEF WantedInv
  <2> QED
    BY <2>8, <2>11, <2>12, <2>14 DEF InterestInv
<1> QED
  BY <1>2, <1>3

(* The server sends a message. *)
LEMMA InterestSend ==
  ASSUME SettleInv, InterestInv, NEW s \in Sid, serverMsg(s)
  PROVE  InterestInv'
<1>0. /\ TypeOK /\ s2c \in Seq(Frame) /\ s \in Nat /\ srv \in [Sid -> ServerSub]
  BY SettleFacts DEF TypeOK
<1>1. /\ srv[s].on
      /\ UNCHANGED <<connected, transport, outbound, c2s, subs, sidCounter, limit>>
      /\ s2c' = Append(s2c, MSG(s)) /\ srv' = [srv EXCEPT ![s] = countMsg(srv[s])]
  BY DEF serverMsg, client, history
<1>2. MSG(s) \in Frame /\ \A r : Carries(MSG(s), r) <=> r = s
  BY <1>0, FrameType, TagType, Ops DEF Carries
<1>3. CASE ~Kept
  BY <1>1, <1>3, InterestGone DEF Kept
<1>4. ASSUME Kept PROVE InterestInv'
  <2>1. /\ Kept' /\ MutedInv /\ UnlistedInv /\ NewInv /\ WantedInv /\ Written' = Written
    BY <1>1, <1>4 DEF Kept, InterestInv, Written
  <2>2. connected
    BY <1>1, <1>4, <2>1 DEF MutedInv, NoInterest
  <2>3. MutedInv'
    BY <1>1, <2>2 DEF MutedInv
  <2>4. ASSUME NEW r \in Sid
        PROVE  /\ srv[r].on \in BOOLEAN /\ srv[r].max \in Nat /\ srv[r].sent \in Nat
               /\ limit[r] \in Nat /\ Due(r) \in Nat /\ InFlight(r) \in Nat
               /\ subs[r].received \in Nat
    BY <1>0, InterestFacts
  <2>5. ASSUME NEW r \in Sid
        PROVE  Due(r)' = Due(r) + (IF r = s THEN 1 ELSE 0)
    <3>1. InFlight(r)' = InFlight(r) + (IF r = s THEN 1 ELSE 0)
      <4>1. Messages(Append(s2c, MSG(s)), r) = Messages(s2c, r) + (IF Carries(MSG(s), r) THEN 1 ELSE 0)
        BY <1>0, <1>2, MessagesMore
      <4>2. InFlight(r) = Messages(s2c, r) /\ InFlight(r)' = Messages(s2c', r)
        BY DEF InFlight, Messages
      <4> QED
        BY <1>1, <1>2, <4>1, <4>2
    <3>2. Due(r)' = subs[r].received + InFlight(r)' /\ Due(r) = subs[r].received + InFlight(r)
      BY <1>1 DEF Due
    <3> QED
      BY <2>4, <3>1, <3>2
  <2>6. /\ srv'[s].on => srv'[s].max = srv[s].max /\ srv'[s].sent = srv[s].sent + 1
        /\ ~srv'[s].on => srv[s].max # 0 /\ srv[s].sent + 1 >= srv[s].max
    <3>1. srv'[s] = countMsg(srv[s]) /\ srv[s] \in ServerSub
      BY <1>0, <1>1
    <3>2. CASE srv[s].max # 0 /\ srv[s].sent + 1 >= srv[s].max
      BY <3>1, <3>2 DEF countMsg
    <3>3. CASE ~(srv[s].max # 0 /\ srv[s].sent + 1 >= srv[s].max)
      <4>1. countMsg(srv[s]) = [srv[s] EXCEPT !.sent = @ + 1]
        BY <3>3 DEF countMsg
      <4>2. /\ [srv[s] EXCEPT !.sent = @ + 1].on /\ [srv[s] EXCEPT !.sent = @ + 1].max = srv[s].max
            /\ [srv[s] EXCEPT !.sent = @ + 1].sent = srv[s].sent + 1
        BY <1>1, <3>1 DEF ServerSub
      <4> QED
        BY <3>1, <4>1, <4>2
    <3> QED
      BY <3>2, <3>3
  <2>7. \A r \in Sid : r # s => srv'[r] = srv[r]
    BY <1>0, <1>1
  <2>8. UnlistedInv'
    BY <1>1, <1>4, <2>1, <2>6, <2>7 DEF UnlistedInv
  <2>9. NewInv'
    BY <1>1, <1>4, <2>1, <2>7 DEF NewInv
  <2>10. ASSUME NEW r \in Sid, Wanted(r)'
         PROVE  /\ connected' => srv'[r].on \/ Reached(r)' \/ ~NoSubOf(Written', r)
                /\ Lenient(Written', r, limit'[r])
                /\ Honours(srv'[r], limit'[r], Due(r)')
    <3>1. Wanted(r) /\ limit'[r] = limit[r]
      BY <1>1, <2>10 DEF Wanted
    <3>2. /\ srv[r].on \/ Reached(r) \/ ~NoSubOf(Written, r)
          /\ Lenient(Written, r, limit[r]) /\ Honours(srv[r], limit[r], Due(r))
      BY <1>4, <2>1, <2>2, <3>1 DEF WantedInv
    <3>3. Reached(r) => Reached(r)'
      BY <2>4, <2>5, <3>1 DEF Reached
    <3>4. Honours(srv'[r], limit[r], Due(r)')
      BY <1>1, <2>4, <2>5, <2>6, <2>7, <3>2 DEF Honours
    <3>5. srv[r].on => srv'[r].on \/ Reached(r)'
      <4>1. CASE r # s
        BY <2>7, <4>1
      <4>2. ASSUME r = s, ~srv'[s].on PROVE Reached(r)'
        <5>1. srv[s].max # 0 /\ srv[s].sent + 1 >= srv[s].max
          BY <2>6, <4>2
        <5>2. limit[r] # 0 /\ srv[s].max >= limit[r] /\ srv[s].sent <= Due(r)
          BY <1>1, <3>2, <4>2, <5>1 DEF Honours
        <5>3. Due(r)' = Due(r) + 1
          BY <2>5, <4>2
        <5>4. Due(r)' >= limit[r]
          BY <2>4, <4>2, <5>1, <5>2, <5>3
        <5> QED
          BY <3>1, <5>2, <5>4 DEF Reached
      <4> QED
        BY <4>1, <4>2
    <3> QED
      BY <2>1, <3>1, <3>2, <3>3, <3>4, <3>5
  <2>11. WantedInv'
    BY <2>10 DEF WantedInv
  <2> QED
    BY <2>3, <2>8, <2>9, <2>11 DEF InterestInv
<1> QED
  BY <1>3, <1>4

(* The dial is done: what is listed is subscribed once more. *)
LEMMA InterestDial ==
  ASSUME SettleInv, InterestInv, dialDone
  PROVE  InterestInv'
<1>0. /\ BarrierInv /\ TypeOK /\ HandInv /\ CallInv /\ s2c \in Seq(Frame)
      /\ c2s \in Seq(Command) /\ outbound \in Seq(Command) /\ Sid \subseteq Nat
      /\ sidCounter \in Nat
  BY SettleFacts
<1>1. /\ Reading /\ s2c # <<>> /\ s2c' = Tail(s2c) /\ Head(s2c).op = "PONG"
      /\ pongs # <<>> /\ Head(pongs) = Connect /\ connected'
      /\ UNCHANGED <<transport, srv, sidCounter, subs, limit>>
  BY DEF dialDone, Reading, history
<1>2. Head(s2c) = s2c[1] /\ 1 \in 1..Len(s2c)
  BY <1>0, <1>1
<1>3. infoReceived /\ Marked(s2c[1]) /\ s2c[1].tag = Connect
  BY <1>0, <1>1, <1>2, Finds DEF Marked
<1>4. ~connected /\ transport = "open" /\ Kept
  <2>1. Connect \in Marks(s2c)
    BY <1>2, <1>3, MarksHas
  <2> QED
    BY <1>0, <1>1, <2>1 DEF HandInv, Reading, Kept
<1>5. c2s = <<>>
  BY <1>0, <1>2, <1>3, <1>4 DEF HandInv
<1>6. srv = NoInterest /\ UnlistedInv /\ NewInv /\ WantedInv
  BY <1>4 DEF InterestInv, MutedInv
<1>7. outbound' = <<>>
  BY <1>0, DialWrites
<1>8. PICK q \in InOrder(Listed), x \in Seq(Command) :
        /\ Len(x) = Len(q) /\ \A i \in 1..Len(x) : x[i] = SUB(q[i])
        /\ transport = "open" => c2s' = (c2s \o x) \o outbound
  BY <1>0, DialWrites
<1>9. Written = outbound /\ Written' = x \o outbound
  <2>1. <<>> \o x = x /\ <<>> \o outbound = outbound
    BY <1>0
  <2>2. x \o outbound \in Seq(Command)
    BY <1>0
  <2>3. (x \o outbound) \o <<>> = x \o outbound
    BY <2>2
  <2> QED
    BY <1>4, <1>5, <1>7, <1>8, <2>1, <2>3 DEF Written
<1>10. Listed \in SUBSET Sid
  BY DEF Listed
<1>11. \A i \in 1..Len(q) : q[i] \in Listed
  BY <1>10, InOrderType
<1>12. ASSUME NEW s \in Sid, NEW l
       PROVE  /\ Lenient(x, s, l)
              /\ ~subs[s].listed => NoSubOf(x, s) /\ Silent(x, s)
              /\ subs[s].listed => ~NoSubOf(x, s)
  <2>1. \A i \in 1..Len(x) : ~IsStop(x[i], s) /\ (IsSub(x[i], s) <=> q[i] = s)
    BY <1>8, Says
  <2>2. Lenient(x, s, l)
    BY <2>1 DEF Lenient
  <2>3. ASSUME ~subs[s].listed PROVE NoSubOf(x, s) /\ Silent(x, s)
    <3>1. \A i \in 1..Len(x) : q[i] # s
      BY <1>8, <1>11, <2>3 DEF Listed
    <3> QED
      BY <2>1, <3>1 DEF NoSubOf, Silent
  <2>4. ASSUME subs[s].listed PROVE ~NoSubOf(x, s)
    <3>1. s \in Listed
      BY <2>4 DEF Listed
    <3>2. \E i \in 1..Len(q) : q[i] = s
      BY <1>10, <3>1, InOrderAll
    <3> QED
      BY <1>8, <2>1, <3>2 DEF NoSubOf
  <2> QED
    BY <2>2, <2>3, <2>4
<1>13. ASSUME NEW s \in Sid, NEW l
       PROVE  /\ Stops(outbound, s) => Stops(Written', s)
              /\ NoSubOf(Written', s) <=> NoSubOf(x, s) /\ NoSubOf(outbound, s)
              /\ Lenient(Written', s, l) <=> Lenient(x, s, l) /\ Lenient(outbound, s, l)
              /\ Silent(Written', s) <=> Silent(x, s) /\ Silent(outbound, s)
  BY <1>0, <1>8, <1>9, BothSequences, NoSubConcat
<1>14. \A s \in Sid : ~srv'[s].on
  BY <1>1, <1>6 DEF NoInterest
<1>15. MutedInv'
  BY <1>1 DEF MutedInv
<1>16. UnlistedInv'
  <2>1. ASSUME NEW s \in Sid, ~subs'[s].listed
        PROVE  Stops(Written', s) \/ NoSubOf(Written', s)
    <3>1. Stops(outbound, s) \/ NoSubOf(outbound, s)
      BY <1>1, <1>4, <1>6, <1>9, <2>1 DEF UnlistedInv
    <3> QED
      BY <1>1, <1>12, <1>13, <2>1, <3>1
  <2> QED
    BY <1>14, <2>1 DEF UnlistedInv
<1>17. NewInv'
  <2>1. ASSUME NEW s \in Sid, s > sidCounter PROVE Silent(Written', s)
    <3>1. ~subs[s].listed
      <4>1. subs[s].listed => s <= sidCounter
        BY <1>0 DEF CallInv
      <4> QED
        BY <1>0, <2>1, <4>1
    <3>2. Silent(outbound, s)
      BY <1>4, <1>6, <1>9, <2>1 DEF NewInv
    <3> QED
      BY <1>12, <1>13, <3>1, <3>2
  <2> QED
    BY <1>1, <1>14, <2>1 DEF NewInv
<1>18. WantedInv'
  <2>1. ASSUME NEW s \in Sid, Wanted(s)'
        PROVE  ~NoSubOf(Written', s) /\ Lenient(Written', s, limit'[s])
    <3>1. Wanted(s) /\ subs[s].listed
      BY <1>1, <2>1 DEF Wanted
    <3>2. Lenient(outbound, s, limit[s])
      BY <1>4, <1>6, <1>9, <3>1 DEF WantedInv
    <3> QED
      BY <1>1, <1>12, <1>13, <3>1, <3>2
  <2> QED
    BY <1>14, <2>1 DEF WantedInv, Honours
<1> QED
  BY <1>15, <1>16, <1>17, <1>18 DEF InterestInv

-----------------------------------------------------------------------------
(* Timers.                                                                 *)

(* Nothing but a new subscription starts a timer. *)
Calmer(new, old) == new.timer => old.timer

(* No operation on a subscription starts its timer. *)
LEMMA CalmerOps ==
  ASSUME NEW s \in Sid, NEW sub \in Subscription, NEW m \in Nat
  PROVE  /\ Calmer(closeSub(s, sub), sub) /\ Calmer(cancelSub(s, sub), sub)
         /\ Calmer(unsubscribeSub(s, sub, m), sub) /\ Calmer(stopIter(s, sub), sub)
         /\ Calmer(receivedSub(s, sub), sub) /\ Calmer(startDrain(sub), sub)
<1>1. \A t \in Subscription : closeSub(s, t) \in Subscription /\ Calmer(closeSub(s, t), t)
  BY DEF closeSub, Subscription, Calmer
<1>2. \A t \in Subscription : cancelSub(s, t) \in Subscription /\ Calmer(cancelSub(s, t), t)
  BY <1>1 DEF cancelSub, Subscription, Calmer
<1>3. \A t \in Subscription, n \in Nat :
        unsubSub(t, n) \in Subscription /\ Calmer(unsubSub(t, n), t)
  BY DEF unsubSub, Subscription, Calmer
<1>4. \A t \in Subscription, n \in Nat : Calmer(unsubscribeSub(s, t, n), t)
  <2>1. ASSUME NEW t \in Subscription, NEW n \in Nat
        PROVE  Calmer(unsubscribeSub(s, t, n), t)
    <3>1. unsubSub(t, n) \in Subscription /\ Calmer(unsubSub(t, n), t)
      BY <1>3
    <3>2. Calmer(cancelSub(s, unsubSub(t, n)), unsubSub(t, n))
      BY <1>2, <3>1
    <3> QED
      BY <3>1, <3>2 DEF Calmer, unsubscribeSub
  <2> QED
    BY <2>1
<1>5. Calmer(stopIter(s, sub), sub)
  <2>1. /\ [sub EXCEPT !.done = TRUE, !.closing = FALSE] \in Subscription
        /\ [sub EXCEPT !.done = TRUE, !.closing = FALSE].timer = sub.timer
    BY DEF Subscription
  <2>2. 0 \in Nat
    OBVIOUS
  <2>3. Calmer(stopIter(s, sub), [sub EXCEPT !.done = TRUE, !.closing = FALSE])
    BY <1>4, <2>1, <2>2 DEF stopIter
  <2> QED
    BY <2>1, <2>3 DEF Calmer
<1>6. Calmer(receivedSub(s, sub), sub) /\ Calmer(startDrain(sub), sub)
  BY DEF receivedSub, startDrain, Subscription, Calmer
<1> QED
  BY <1>1, <1>2, <1>4, <1>5, <1>6

(* Every step but subscribe() leaves timers alone or stops them. *)
LEMMA CalmStep ==
  ASSUME TypeOK, Next, ~ \E m \in Maxes : subscribe(m)
  PROVE  sidCounter' = sidCounter /\ \A r \in Sid : Calmer(subs'[r], subs[r])
<1>0. subs \in [Sid -> Subscription] /\ 0 \in Nat /\ Maxes \subseteq Nat
  BY ProtocolAssumption DEF TypeOK
<1>1. CASE /\ ~ \E s \in Sid, m \in Maxes : unsubscribe(s, m)
           /\ ~(drain \/ close \/ processMsg \/ processPong \/ drainClose \/ prepare \/ giveUp)
           /\ ~ \E s \in Sid : drainSub(s) \/ subTimeout(s) \/ iterDone(s)
  <2>1. subs' = subs /\ sidCounter' = sidCounter
    BY <1>1 DEF Next, flush, publish, drainFlush, disconnect, serverMsg, flushTask, processInfo,
       dialDone, connectOk, dialFail, socketLost, transportLeft, disconnected, serverRecv,
       quiet, client, app
  <2> QED
    BY <2>1 DEF Calmer
<1>2. ASSUME NEW s \in Sid, NEW m \in Maxes, unsubscribe(s, m)
      PROVE  sidCounter' = sidCounter /\ \A r \in Sid : Calmer(subs'[r], subs[r])
  <2>1. subs' = [subs EXCEPT ![s] = unsubscribeSub(s, subs[s], m)] /\ sidCounter' = sidCounter
    BY <1>2 DEF unsubscribe
  <2>2. Calmer(unsubscribeSub(s, subs[s], m), subs[s])
    BY <1>0, CalmerOps
  <2> QED
    BY <1>0, <2>1, <2>2 DEF Calmer
<1>3. CASE drain \/ \E s \in Sid : drainSub(s)
  <2>1. /\ sidCounter' = sidCounter
        /\ \A r \in Sid : subs'[r] = subs[r] \/ subs'[r] = startDrain(subs[r])
    BY <1>0, <1>3 DEF drain, drainSub
  <2>2. \A r \in Sid : Calmer(startDrain(subs[r]), subs[r])
    BY <1>0, CalmerOps
  <2> QED
    BY <2>1, <2>2 DEF Calmer
<1>4. CASE close \/ drainClose \/ giveUp
  <2>1. /\ sidCounter' = sidCounter
        /\ \A r \in Sid : subs'[r] = subs[r] \/ subs'[r] = closeSub(r, subs[r])
    BY <1>4 DEF close, drainClose, giveUp, doClose, app
  <2>2. \A r \in Sid : Calmer(closeSub(r, subs[r]), subs[r])
    BY <1>0, CalmerOps
  <2> QED
    BY <2>1, <2>2 DEF Calmer
<1>5. CASE processPong \/ prepare
  <2>1. /\ sidCounter' = sidCounter
        /\ \A r \in Sid : \/ subs'[r] = subs[r]
                          \/ subs'[r] = [cancelSub(r, subs[r]) EXCEPT !.drain = "settled"]
    BY <1>5 DEF processPong, prepare, settleDrains, app
  <2>2. ASSUME NEW r \in Sid
        PROVE  Calmer([cancelSub(r, subs[r]) EXCEPT !.drain = "settled"], subs[r])
    <3>1. cancelSub(r, subs[r]) \in Subscription /\ Calmer(cancelSub(r, subs[r]), subs[r])
      BY <1>0, SubscriptionOps, CalmerOps
    <3>2. [cancelSub(r, subs[r]) EXCEPT !.drain = "settled"].timer = cancelSub(r, subs[r]).timer
      BY <3>1 DEF Subscription
    <3> QED
      BY <3>1, <3>2 DEF Calmer
  <2> QED
    BY <2>1, <2>2 DEF Calmer
<1>6. CASE processMsg
  <2> DEFINE s == Head(s2c).sid
             got == receivedSub(s, subs[s])
  <2>1. /\ sidCounter' = sidCounter
        /\ \/ subs' = subs
           \/ subs' = [subs EXCEPT ![s] = unsubscribeSub(s, got, 0)]
           \/ subs' = [subs EXCEPT ![s] = got]
    BY <1>6 DEF processMsg
  <2>2. s \in Sid => Calmer(got, subs[s]) /\ got \in Subscription
    BY <1>0, CalmerOps, SubscriptionOps, ZenonT(40)
  <2> HIDE DEF got, s
  <2>3. s \in Sid => Calmer(unsubscribeSub(s, got, 0), got)
    BY <1>0, <2>2, CalmerOps
  <2> QED
    BY <1>0, <2>1, <2>2, <2>3 DEF Calmer
<1>7. ASSUME NEW s \in Sid, subTimeout(s) \/ iterDone(s)
      PROVE  sidCounter' = sidCounter /\ \A r \in Sid : Calmer(subs'[r], subs[r])
  <2> DEFINE fired == [subs[s] EXCEPT !.timer = FALSE]
             quit == [fired EXCEPT !.done = TRUE]
  <2>1. /\ sidCounter' = sidCounter
        /\ \/ subs' = [subs EXCEPT ![s] = stopIter(s, fired)]
           \/ subs' = [subs EXCEPT ![s] = quit]
           \/ subs' = [subs EXCEPT ![s] = stopIter(s, subs[s])]
    BY <1>7 DEF subTimeout, iterDone, quiet
  <2>2. fired \in Subscription /\ Calmer(fired, subs[s]) /\ Calmer(quit, subs[s])
    BY <1>0 DEF Subscription, Calmer
  <2> HIDE DEF fired, quit
  <2>3. Calmer(stopIter(s, fired), fired) /\ Calmer(stopIter(s, subs[s]), subs[s])
    BY <1>0, <2>2, CalmerOps
  <2> QED
    BY <1>0, <2>1, <2>2, <2>3, SMTT(30) DEF Calmer
<1> QED
  BY <1>1, <1>2, <1>3, <1>4, <1>5, <1>6, <1>7

(* So timers run for subscriptions that were made. *)
LEMMA TimerStep ==
  ASSUME TypeOK, TimerInv, Next
  PROVE  TimerInv'
<1>0. sidCounter \in Nat /\ Sid \subseteq Nat /\ subs \in [Sid -> Subscription]
  <2>1. sidCounter \in 0..MaxSubs
    BY DEF TypeOK
  <2> QED
    BY <2>1 DEF Sid, TypeOK
<1>1. ASSUME NEW m \in Maxes, subscribe(m) PROVE TimerInv'
  <2>1. /\ sidCounter' = sidCounter + 1
        /\ subs' = [subs EXCEPT ![sidCounter + 1] = NewSub(sidCounter + 1, m)]
    BY <1>1 DEF subscribe
  <2>2. ASSUME NEW r \in Sid, subs'[r].timer PROVE r <= sidCounter'
    <3>1. r = sidCounter + 1 \/ subs'[r] = subs[r]
      BY <1>0, <2>1
    <3>2. r \in Nat
      BY <1>0
    <3>3. subs[r].timer => r <= sidCounter
      BY DEF TimerInv
    <3> QED
      BY <1>0, <2>1, <2>2, <3>1, <3>2, <3>3
  <2> QED
    BY <2>2 DEF TimerInv
<1>2. ASSUME ~ \E m \in Maxes : subscribe(m) PROVE TimerInv'
  BY <1>2, CalmStep DEF TimerInv, Calmer
<1> QED
  BY <1>1, <1>2

-----------------------------------------------------------------------------
(* The interest of the server is the table of the client.                  *)

(* The invariant of InterestInSync. *)
SyncInv == SettleInv /\ LimitInv /\ TimerInv /\ InterestInv

(* Every step keeps it. *)
LEMMA SyncStep == SyncInv /\ [Next]_vars => SyncInv'
<1> SUFFICES ASSUME SyncInv, [Next]_vars PROVE SyncInv'
  OBVIOUS
<1>1. SettleInv' /\ LimitInv'
  BY SettleStep, LimitStep DEF SyncInv
<1>2. TypeOK /\ TypeOK' /\ SettleInv /\ LimitInv /\ TimerInv /\ InterestInv
  BY <1>1 DEF SyncInv, LimitInv
<1>3. CASE Next
  <2>1. TimerInv'
    BY <1>2, <1>3, TimerStep
  <2>2. ASSUME \/ \E m \in Maxes : subscribe(m)
               \/ \E s \in Sid, m \in Maxes : unsubscribe(s, m)
               \/ flush \/ publish \/ drain \/ drainFlush \/ flushTask \/ processMsg
               \/ \E s \in Sid : drainSub(s) \/ subTimeout(s) \/ iterDone(s)
        PROVE  InterestInv'
    BY <1>2, <2>2, InterestCalls
  <2>3. ASSUME drainClose \/ close \/ giveUp \/ dialFail \/ socketLost \/ transportLeft \/ disconnect
        PROVE  InterestInv'
    <3>1. transport' \in {"gone", "leaving"}
      BY <2>3 DEF drainClose, close, giveUp, doClose, dialFail, socketLost, transportLeft,
                  disconnected, disconnect
    <3> QED
      BY <3>1, InterestGone DEF Kept
  <2>4. ASSUME \/ processInfo \/ processPong \/ dialDone \/ serverRecv \/ prepare
               \/ connectOk \/ \E s \in Sid : serverMsg(s)
        PROVE  InterestInv'
    BY <1>1, <1>2, <2>4, InterestInfo, InterestPong, InterestDial, InterestRecv, InterestLinks,
       InterestSend
  <2>5. InterestInv'
    BY <1>3, <2>2, <2>3, <2>4 DEF Next
  <2> QED
    BY <1>1, <2>1, <2>5 DEF SyncInv
<1>4. CASE UNCHANGED vars
  <2>1. UNCHANGED <<connected, transport, outbound, c2s, s2c, srv, subs, sidCounter, limit>>
    BY <1>4 DEF vars, client, history
  <2>2. TimerInv'
    BY <1>2, <2>1 DEF TimerInv
  <2>3. Written' = Written /\ \A s : InFlight(s)' = InFlight(s)
    BY <2>1 DEF Written, InFlight
  <2>4. InterestInv'
    BY <1>2, <2>1, <2>3, InterestSame
  <2> QED
    BY <1>1, <2>2, <2>4 DEF SyncInv
<1> QED
  BY <1>3, <1>4

(* The initial states satisfy it. *)
LEMMA SyncInit == Init => SyncInv
<1> SUFFICES ASSUME Init PROVE SyncInv
  OBVIOUS
<1>1. SettleInv /\ LimitInv
  BY SettleInit, LimitInit
<1>2. ~Kept
  BY DEF Init, Kept
<1>3. InterestInv
  BY <1>2 DEF InterestInv, MutedInv, UnlistedInv, NewInv, WantedInv
<1>4. TimerInv
  BY DEF Init, NoSub, TimerInv
<1> QED
  BY <1>1, <1>3, <1>4 DEF SyncInv

(* Once everything written has reached the server, the interest the server *)
(* holds is the client's table, whatever was subscribed, unsubscribed or   *)
(* drained before, during or after a reconnect. For any number of          *)
(* subscriptions, limits, messages and reconnects.                         *)
THEOREM InterestSynced == Spec => []InterestInSync
<1>1. SyncInv => InterestInSync
  <2> SUFFICES ASSUME SyncInv, Synced, NEW s \in Sid
               PROVE  /\ subs[s].listed /\ subs[s].drain = "no"
                           => srv[s].on \/ (limit[s] # 0 /\ subs[s].received + InFlight(s) >= limit[s])
                      /\ srv[s].on /\ srv[s].max = 0 => subs[s].listed
    BY DEF InterestInSync
  <2>1. UnlistedInv /\ WantedInv /\ Kept /\ connected
    BY DEF SyncInv, InterestInv, Synced, Kept
  <2>2. Written = <<>>
    <3>1. <<>> \o <<>> = <<>>
      OBVIOUS
    <3> QED
      BY <3>1 DEF Synced, Written
  <2>3. NoSubOf(<<>>, s) /\ ~Stops(<<>>, s)
    <3>1. 1..Len(<<>>) = {}
      OBVIOUS
    <3> QED
      BY <3>1 DEF NoSubOf, Stops
  <2>4. subs[s].listed /\ subs[s].drain = "no" => srv[s].on \/ Reached(s)
    BY <2>1, <2>2, <2>3 DEF WantedInv, Wanted
  <2>5. ~subs[s].listed => (srv[s].on => srv[s].max # 0)
    BY <2>1, <2>2, <2>3 DEF UnlistedInv
  <2> QED
    BY <2>4, <2>5 DEF Reached, Due
<1>2. Spec => []SyncInv
  BY SyncInit, SyncStep, PTL DEF Spec
<1> QED
  BY <1>1, <1>2, PTL
=============================================================================
