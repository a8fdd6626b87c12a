---- MODULE Parser ----
(***************************************************************************)
(* What the client makes of the bytes of a connection: the transport of    *)
(* src/src/deno_transport.ts peeks at the server's INFO and then hands     *)
(* every read to the parser of src/nats-base-client/parser.ts, which keeps *)
(* its place in a frame between two reads. A read may end at any byte.     *)
(* A byte is a string of one character; the letters of an operation are    *)
(* upper case (the code takes both cases).                                 *)
(***************************************************************************)
EXTENDS Integers, Sequences, SequencesExt

CONSTANTS
    Streams,        \* the sequences of frames the server may send
    SplitInfo       \* whether the first read may end inside the first INFO

VARIABLES
    frames,         \* the frames the server sends on this connection
    nread,          \* how many of their bytes the client has read
    transport,      \* [mode, buf, packed]: DenoTransport before and after peekInfo
    parser,         \* the fields of Parser
    events          \* what the parser has pushed to its dispatcher

parserVars == <<frames, nread, transport, parser, events>>

SPACE == " "
CR    == "\r"
NL    == "\n"
Digits == <<"0", "1", "2", "3", "4", "5", "6", "7", "8", "9">>

(***************************************************************************)
(* The server's side: a frame and its bytes. Numbers are below 100.        *)
(***************************************************************************)
Word == [MSG  |-> <<"M", "S", "G">>, HMSG |-> <<"H", "M", "S", "G">>,
         INFO |-> <<"I", "N", "F", "O">>, ERR |-> <<"-", "E", "R", "R">>,
         OK   |-> <<"+", "O", "K">>, PING |-> <<"P", "I", "N", "G">>,
         PONG |-> <<"P", "O", "N", "G">>]

Numeral(n) == IF n < 10 THEN <<Digits[n + 1]>>
                        ELSE <<Digits[(n \div 10) + 1], Digits[(n % 10) + 1]>>

Field(token) == IF token = <<>> THEN <<>> ELSE <<SPACE>> \o token

Bytes(f) ==
    Word[f.op]
    \o (IF f.op \in {"MSG", "HMSG"}
        THEN Field(f.subject) \o Field(Numeral(f.sid)) \o Field(f.reply)
             \o (IF f.op = "HMSG" THEN Field(Numeral(f.hdr)) ELSE <<>>)
             \o Field(Numeral(Len(f.data))) \o <<CR, NL>> \o f.data
        ELSE Field(f.data))
    \o <<CR, NL>>

Wire == FlattenSeq([k \in DOMAIN frames |-> Bytes(frames[k])])

(***************************************************************************)
(* The arguments of MSG and HMSG.                                          *)
(***************************************************************************)
IsBlank(b) == b \in {SPACE, "\t", CR, NL}

\* The tokens of a line: the loop both processMsgArgs share.
Tokens(arg) ==
    LET take(acc, b) ==
            IF IsBlank(b)
            THEN IF acc.token = <<>> THEN acc
                 ELSE [args |-> Append(acc.args, acc.token), token |-> <<>>]
            ELSE [acc EXCEPT !.token = Append(@, b)]
        all == FoldLeft(take, [args |-> <<>>, token |-> <<>>], arg)
    IN  IF all.token = <<>> THEN all.args ELSE Append(all.args, all.token)

protoParseInt(a) ==
    LET digit(b) == CHOOSE n \in 0 .. 9 : Digits[n + 1] = b
    IN  IF a = <<>> \/ \E k \in DOMAIN a : a[k] \notin ToSet(Digits) THEN -1
        ELSE FoldLeft(LAMBDA n, b : n * 10 + digit(b), 0, a)

NoArgs == [subject |-> <<>>, sid |-> -1, reply |-> <<>>, hdr |-> -1, size |-> -1]

MsgArg(args, reply, hdr, size) ==
    [subject |-> args[1], sid |-> protoParseInt(args[2]), reply |-> reply,
     hdr |-> hdr, size |-> protoParseInt(args[size])]

processMsgArgs(arg) ==
    LET args == Tokens(arg)
    IN  CASE Len(args) = 3 -> MsgArg(args, <<>>, -1, 3)
          [] Len(args) = 4 -> MsgArg(args, args[3], -1, 4)
          [] OTHER -> NoArgs

processHeaderMsgArgs(arg) ==
    LET args == Tokens(arg)
    IN  CASE Len(args) = 4 -> MsgArg(args, <<>>, protoParseInt(args[3]), 4)
          [] Len(args) = 5 -> MsgArg(args, args[3], protoParseInt(args[4]), 5)
          [] OTHER -> NoArgs

Valid(ma) == ma.sid >= 0 /\ ma.size >= 0
ValidHeader(ma) == Valid(ma) /\ ma.hdr \in 0 .. ma.size

(***************************************************************************)
(* The parser. `op` holds the letters of the operation read so far, so     *)
(* that OP_START, OP_M, OP_MS, ... are one state; a buffer that the code   *)
(* leaves undefined is Undefined. Indices count from 1.                    *)
(***************************************************************************)
Undefined == "undefined"

newParser == [state |-> "OP", op |-> <<>>, ma |-> NoArgs, as |-> 1, drop |-> 0,
              argBuf |-> Undefined, msgBuf |-> Undefined]

\* What an iteration of the loop leaves: the parser, the next index and the
\* events pushed so far.
At(p, i, out) == [p |-> p, i |-> i, out |-> out]

fail(p, i, out) == At([p EXCEPT !.state = "FAILED"], i, out)

OpStart(p) == [p EXCEPT !.state = "OP", !.op = <<>>, !.drop = 0]

Event(op, ma, data) == [op |-> op, subject |-> ma.subject, sid |-> ma.sid,
                        reply |-> ma.reply, hdr |-> ma.hdr, data |-> data]

OpByte(p, b, i, out) ==
    CASE p.op \in {Word["OK"], Word["PING"], Word["PONG"]} ->
            IF b = NL
            THEN At(OpStart(p), i + 1,
                    Append(out, Event(CHOOSE w \in DOMAIN Word : Word[w] = p.op,
                                      NoArgs, <<>>)))
            ELSE At(p, i + 1, out)
      [] p.op \in {Word["MSG"], Word["HMSG"], Word["ERR"], Word["INFO"]} ->
            IF b \in {SPACE, "\t"} THEN At([p EXCEPT !.state = "SPC"], i + 1, out)
                                   ELSE fail(p, i, out)
      [] OTHER ->
            IF \E w \in DOMAIN Word : IsPrefix(Append(p.op, b), Word[w])
            THEN At([p EXCEPT !.op = Append(@, b),
                              !.ma = IF p.op = <<>> THEN NoArgs ELSE @], i + 1, out)
            ELSE fail(p, i, out)

SpcByte(p, b, i, out) ==
    IF b \in {SPACE, "\t"} THEN At(p, i + 1, out)
    ELSE At([p EXCEPT !.state = "ARG", !.as = i], i + 1, out)

\* The end of the argument: the bytes before the CR, from this read or from
\* the buffer that earlier reads filled.
Arg(p, buf, i) ==
    IF p.argBuf = Undefined THEN SubSeq(buf, p.as, i - p.drop - 1) ELSE p.argBuf

MsgArgEnd(p, ma, valid, i, out) ==
    IF valid
    THEN At([p EXCEPT !.ma = ma, !.drop = 0, !.as = i + 1, !.state = "PAYLOAD"],
            i + 1 + ma.size, out)
    ELSE fail(p, i, out)

MsgEnd(p, ma, i, out)  == MsgArgEnd(p, ma, Valid(ma), i, out)
HMsgEnd(p, ma, i, out) == MsgArgEnd(p, ma, ValidHeader(ma), i, out)

ArgByte(p, buf, i, out) ==
    CASE buf[i] = CR -> At([p EXCEPT !.drop = 1], i + 1, out)
      [] buf[i] = NL /\ p.op = Word["MSG"] ->
            MsgEnd(p, processMsgArgs(Arg(p, buf, i)), i, out)
      [] buf[i] = NL /\ p.op = Word["HMSG"] ->
            HMsgEnd(p, processHeaderMsgArgs(Arg(p, buf, i)), i, out)
      [] buf[i] = NL /\ p.op \in {Word["ERR"], Word["INFO"]} ->
            At(OpStart([p EXCEPT !.argBuf = Undefined, !.as = i + 1]), i + 1,
               Append(out, Event(IF p.op = Word["ERR"] THEN "ERR" ELSE "INFO",
                                 NoArgs, Arg(p, buf, i))))
      [] OTHER -> At([p EXCEPT !.argBuf = IF @ = Undefined THEN @
                                          ELSE Append(@, buf[i])], i + 1, out)

Dispatch(p, data, i, out) ==
    At([p EXCEPT !.argBuf = Undefined, !.msgBuf = Undefined, !.state = "MSG_END"],
       i + 1,
       Append(out, Event(IF p.op = Word["HMSG"] THEN "HMSG" ELSE "MSG", p.ma, data)))

PayloadByte(p, buf, i, out) ==
    CASE p.msgBuf # Undefined /\ Len(p.msgBuf) >= p.ma.size ->
            Dispatch(p, p.msgBuf, i, out)
      [] p.msgBuf # Undefined /\ Len(p.msgBuf) < p.ma.size ->
            LET toCopy == LET avail == Len(buf) - i + 1
                              lacks == p.ma.size - Len(p.msgBuf)
                          IN  IF avail < lacks THEN avail ELSE lacks
            IN  At([p EXCEPT !.msgBuf = @ \o SubSeq(buf, i, i + toCopy - 1)],
                   i + toCopy, out)
      [] p.msgBuf = Undefined /\ i - p.as >= p.ma.size ->
            Dispatch(p, SubSeq(buf, p.as, i - 1), i, out)
      [] OTHER -> At(p, i + 1, out)

MsgEndByte(p, b, i, out) ==
    IF b = NL THEN At(OpStart([p EXCEPT !.as = i + 1]), i + 1, out)
              ELSE At(p, i + 1, out)

cloneMsgArg(p) == p.ma.subject \o p.ma.reply

\* A mutant of Save: the CR that was read is kept with the argument.
Save_WithCR(p, buf) ==
    CASE p.state = "ARG" /\ p.argBuf = Undefined ->
            [p EXCEPT !.argBuf = SubSeq(buf, p.as, Len(buf))]
      [] p.state = "PAYLOAD" /\ p.msgBuf = Undefined ->
            [p EXCEPT !.argBuf = IF @ = Undefined THEN cloneMsgArg(p) ELSE @,
                      !.msgBuf = SubSeq(buf, p.as, Len(buf))]
      [] OTHER -> p

\* The end of a read: what is needed of it is copied.
Save(p, buf) ==
    CASE p.state = "ARG" /\ p.argBuf = Undefined ->
            [p EXCEPT !.argBuf = SubSeq(buf, p.as, Len(buf) - p.drop)]
      [] p.state = "PAYLOAD" /\ p.msgBuf = Undefined ->
            [p EXCEPT !.argBuf = IF @ = Undefined THEN cloneMsgArg(p) ELSE @,
                      !.msgBuf = SubSeq(buf, p.as, Len(buf))]
      [] OTHER -> p

\* The loop over a read. It jumps over the bytes of a payload that are there.
parse(buf, start) ==
    LET step(at, i) ==
            CASE at.p.state = "FAILED" \/ at.i # i -> at
              [] at.p.state = "OP"      -> OpByte(at.p, buf[i], i, at.out)
              [] at.p.state = "SPC"     -> SpcByte(at.p, buf[i], i, at.out)
              [] at.p.state = "ARG"     -> ArgByte(at.p, buf, i, at.out)
              [] at.p.state = "PAYLOAD" -> PayloadByte(at.p, buf, i, at.out)
              [] at.p.state = "MSG_END" -> MsgEndByte(at.p, buf[i], i, at.out)
    IN  FoldLeft(step, start, [i \in 1 .. Len(buf) |-> i])

(***************************************************************************)
(* The transport.                                                          *)
(***************************************************************************)
Parse(buf) ==
    \E end \in {parse(buf, At(parser, 1, events))} :
        parser' = Save(end.p, buf) /\ events' = end.out

Connected(fs) ==
    /\ frames = fs
    /\ nread = 0
    /\ transport = [mode |-> "peek", buf |-> <<>>, packed |-> TRUE]
    /\ parser = newParser
    /\ events = <<>>
ParserInit == \E fs \in Streams : Connected(fs)
ParserUnused == Connected(<<>>)

\* What inbound.peek() returns once a read of `new` filled it: peekInfo reads
\* into this.buf each time and inbound keeps the first read by reference, so
\* the second one is written over it; from then on inbound holds a copy.
Filled(new) ==
    LET old == transport.buf
    IN  IF transport.packed THEN old \o new
        ELSE [j \in DOMAIN old |-> IF j <= Len(new) THEN new[j] ELSE old[j]] \o new

HasLine(bytes) == \E k \in 1 .. Len(bytes) - 1 : bytes[k] = CR /\ bytes[k + 1] = NL

\* peekInfo(): reads until a line is there. The first yield of the iterator
\* follows at once: connect() has ended and the reader is started.
peekInfo(n) ==
    LET inbound == Filled(SubSeq(Wire, nread + 1, nread + n))
    IN  /\ transport.mode = "peek"
        /\ SplitInfo \/ n >= Len(Bytes(frames[1]))
        /\ nread' = nread + n
        /\ IF HasLine(inbound)
           THEN IF IsPrefix(Bytes(frames[1]), inbound)
                THEN /\ transport' = [mode |-> "iterate", buf |-> inbound, packed |-> TRUE]
                     /\ Parse(inbound)
                ELSE /\ transport' = [mode |-> "rejected", buf |-> inbound, packed |-> TRUE]
                     /\ UNCHANGED <<parser, events>>
           ELSE /\ transport' = [mode |-> "peek", buf |-> inbound,
                                 packed |-> transport.buf # <<>>]
                /\ UNCHANGED <<parser, events>>
        /\ UNCHANGED frames

\* An iteration of the asyncIterator. Every read has a new buffer, which only
\* the parser sees: transport.buf is left empty.
iterate(n) ==
    /\ transport.mode = "iterate"
    /\ nread' = nread + n
    /\ transport' = [transport EXCEPT !.buf = <<>>]
    /\ Parse(SubSeq(Wire, nread + 1, nread + n))
    /\ UNCHANGED frames

ParserNext ==
    \E n \in 1 .. Len(Wire) - nread : peekInfo(n) \/ iterate(n)

----
\* The frames all of whose bytes, the last NL excepted, have been read.
Complete ==
    {k \in 0 .. Len(frames) :
        LET sent == FlattenSeq([j \in 1 .. k |-> Bytes(frames[j])])
        IN  IF k > 0 /\ frames[k].op \in {"MSG", "HMSG"}
            THEN nread >= Len(sent) - 1 ELSE nread >= Len(sent)}

Expected(f) == [op |-> f.op, subject |-> f.subject, sid |-> f.sid, reply |-> f.reply,
                hdr |-> f.hdr, data |-> f.data]

\* However the bytes are cut into reads (a frame cut inside its operation,
\* its arguments, between CR and NL, or inside its payload), parse() pushes
\* the frames the server sent, each as soon as it is complete, in order, and
\* with its subject, reply, sizes and payload intact.
FramesDispatched ==
    transport.mode # "peek" =>
        events = [k \in 1 .. Len(events) |-> Expected(frames[k])]
        /\ Len(events) = CHOOSE k \in Complete : \A j \in Complete : j <= k
====
