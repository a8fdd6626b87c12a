------------------------------- MODULE MCClient -------------------------------
(* Nine parts of a client side by side, of which one is in use: the parser *)
(* on small streams of frames, the heartbeats, a service, a subscription   *)
(* of JetStream, the requests of the JetStream API, a fetch(), the headers *)
(* of a message, the buffers, and the identifiers.                         *)
EXTENDS JsApi, PushSubscription, Buffers, Integers

CONSTANTS
  Streams, SplitInfo,                                 \* Parser
  MaxOut, LagCap, HbUses,                             \* Heartbeats
  Monitoring, Handled, Iterated, Uses,                \* Services
  FetchUses,                                          \* Fetch
  Names, Texts, Statuses, MaxEdits,                   \* Headers
  base, seqLen, minInc, maxInc, MaxDrawn              \* Nuid

VARIABLES
  frames, nread, transport, parser, events,
  hbUse, link, handler, silent, heartbeat, queue, count,
  use, conn, service, sub, pongs, inbound, interest, results,
  ftUse, ft, qi, pullReq, ftAvail, line, ftFaults,
  hdrs, edits, matches,
  nuid, first, drawn, draws

P == INSTANCE Parser
H == INSTANCE Heartbeats
S == INSTANCE Services
F == INSTANCE Fetch
G == INSTANCE Headers
N == INSTANCE Nuid

parserVars  == <<frames, nread, transport, parser, events>>
hbVars      == <<hbUse, link, handler, silent, heartbeat, queue, count>>
serviceVars == <<use, conn, service, sub, pongs, inbound, interest, results>>
fetchVars   == <<ftUse, ft, qi, pullReq, ftAvail, line, ftFaults>>
headerVars  == <<hdrs, edits, matches>>
nuidVars    == <<nuid, first, drawn, draws>>
vars        == <<parserVars, hbVars, serviceVars, psVars, apiVars, fetchVars, headerVars, bufVars, nuidVars>>

(* With no other part in use the identifiers are drawn. *)
NoneInUse ==
  /\ P!ParserUnused /\ H!HbUnused /\ S!ServiceUnused /\ PsUnused
  /\ ApiUnused /\ F!FetchUnused /\ G!HeadersUnused /\ BuffersUnused

MCInit ==
  /\ N!NuidInit
  /\ \/ NoneInUse
     \/ /\ P!ParserInit /\ H!HbUnused /\ S!ServiceUnused /\ PsUnused
        /\ ApiUnused /\ F!FetchUnused /\ G!HeadersUnused /\ BuffersUnused
     \/ /\ P!ParserUnused /\ H!HbInit /\ S!ServiceUnused /\ PsUnused
        /\ ApiUnused /\ F!FetchUnused /\ G!HeadersUnused /\ BuffersUnused
     \/ /\ P!ParserUnused /\ H!HbUnused /\ S!ServiceInit /\ PsUnused
        /\ ApiUnused /\ F!FetchUnused /\ G!HeadersUnused /\ BuffersUnused
     \/ /\ P!ParserUnused /\ H!HbUnused /\ S!ServiceUnused /\ PsInit
        /\ ApiUnused /\ F!FetchUnused /\ G!HeadersUnused /\ BuffersUnused
     \/ /\ P!ParserUnused /\ H!HbUnused /\ S!ServiceUnused /\ PsUnused
        /\ ApiInit /\ F!FetchUnused /\ G!HeadersUnused /\ BuffersUnused
     \/ /\ P!ParserUnused /\ H!HbUnused /\ S!ServiceUnused /\ PsUnused
        /\ ApiUnused /\ F!FetchInit /\ G!HeadersUnused /\ BuffersUnused
     \/ /\ P!ParserUnused /\ H!HbUnused /\ S!ServiceUnused /\ PsUnused
        /\ ApiUnused /\ F!FetchUnused /\ G!HeadersInit /\ BuffersUnused
     \/ /\ P!ParserUnused /\ H!HbUnused /\ S!ServiceUnused /\ PsUnused
        /\ ApiUnused /\ F!FetchUnused /\ G!HeadersUnused /\ BuffersInit

MCNext ==
  \/ /\ P!ParserNext
     /\ UNCHANGED <<hbVars, serviceVars, psVars, apiVars, fetchVars, headerVars, bufVars, nuidVars>>
  \/ /\ H!HbNext
     /\ UNCHANGED <<parserVars, serviceVars, psVars, apiVars, fetchVars, headerVars, bufVars, nuidVars>>
  \/ /\ S!ServiceNext
     /\ UNCHANGED <<parserVars, hbVars, psVars, apiVars, fetchVars, headerVars, bufVars, nuidVars>>
  \/ /\ PsNext
     /\ UNCHANGED <<parserVars, hbVars, serviceVars, apiVars, fetchVars, headerVars, bufVars, nuidVars>>
  \/ /\ ApiNext
     /\ UNCHANGED <<parserVars, hbVars, serviceVars, psVars, fetchVars, headerVars, bufVars, nuidVars>>
  \/ /\ F!FetchNext
     /\ UNCHANGED <<parserVars, hbVars, serviceVars, psVars, apiVars, headerVars, bufVars, nuidVars>>
  \/ /\ G!HeadersNext
     /\ UNCHANGED <<parserVars, hbVars, serviceVars, psVars, apiVars, fetchVars, bufVars, nuidVars>>
  \/ /\ BuffersNext
     /\ UNCHANGED <<parserVars, hbVars, serviceVars, psVars, apiVars, fetchVars, headerVars, nuidVars>>
  \/ /\ NoneInUse /\ N!NuidNext
     /\ UNCHANGED <<parserVars, hbVars, serviceVars, psVars, apiVars, fetchVars, headerVars, bufVars>>

MCSpec ==
  MCInit /\ [][MCNext]_vars /\ H!HbFairness /\ S!ServiceFairness /\ PsFairness
  /\ F!FetchFairness
----------------------------------------------------------------------------
(* Frames: each operation; with and without a reply; without a payload and *)
(* with one that looks like the end of a frame and the start of another.   *)
Ctl(op, payload) == [op |-> op, subject |-> <<>>, sid |-> -1, reply |-> <<>>, hdr |-> -1, data |-> payload]
Info == Ctl("INFO", <<"{", "}">>)
Msg(op, subject, sid, reply, hdr, payload) ==
  [op |-> op, subject |-> subject, sid |-> sid, reply |-> reply, hdr |-> hdr, data |-> payload]
Frames ==
  {Info, Ctl("PING", <<>>), Ctl("PONG", <<>>), Ctl("OK", <<>>), Ctl("ERR", <<"x", " ", "y">>),
   Msg("MSG", <<"a">>, 1, <<>>, -1, <<>>),
   Msg("MSG", <<"a", "b">>, 12, <<"r">>, -1, <<"\r", "\n", "P">>),
   Msg("HMSG", <<"a">>, 1, <<"r">>, 2, <<"h", "h", "M", "\n">>),
   Msg("HMSG", <<"a">>, 1, <<>>, 1, <<"h">>)}
SmallStreams == {<<Info, f, g>> : f \in Frames, g \in {Ctl("PING", <<>>), Msg("HMSG", <<"a">>, 1, <<>>, 1, <<"h">>)}}

OneEndpoint == <<"PING">>
OneHandler  == <<"q">>
OneIterator == <<"it">>
ServiceUses == {[serve |-> TRUE, requests |-> 2, faults |-> 0], [serve |-> TRUE, requests |-> 1, faults |-> 2]}

ThreeConnections == {[connects |-> 3, flushes |-> 1]}

O(iterator, mack, pulls, isBind, found, policy, calls, faults, limit) ==
  [iterator |-> iterator, mack |-> mack, pull |-> pulls, isBind |-> isBind, found |-> found,
   policy |-> policy, calls |-> calls, faults |-> faults, limit |-> limit]
Subscriptions ==
  {O(TRUE, FALSE, FALSE, FALSE, "none", "explicit", {}, {"lose", "again", "leave"}, 2),
   O(FALSE, FALSE, FALSE, FALSE, "ephemeral", "explicit", {}, {"lose", "status", "missed"}, 2),
   O(TRUE, FALSE, FALSE, FALSE, "same", "all", {}, {"fc", "again"}, 2),
   O(FALSE, FALSE, FALSE, TRUE, "same", "all", {}, {"fc", "api"}, 2),
   O(TRUE, FALSE, FALSE, TRUE, "none", "none", {}, {"api"}, 1),
   O(TRUE, FALSE, FALSE, FALSE, "unfit", "explicit", {}, {"api"}, 1),
   O(TRUE, FALSE, TRUE, FALSE, "none", "explicit", {}, {"status", "lose", "missed"}, 2),
   O(TRUE, TRUE, FALSE, FALSE, "ephemeral", "explicit", {"ack", "nak", "term", "working", "next", "ackAck"}, {"lose", "timeout", "again"}, 3)}

D(listing, unique, publishes, retries, manages, changed) ==
  [listing |-> listing, unique |-> unique, publishes |-> publishes, retries |-> retries,
   manages |-> manages, changes |-> changed]
ApiCalls ==
  {D(listing, "no", 0, 0, 0, 2) : listing \in {"list", "kvs", "info"}}
  \cup {D("none", unique, 2, 2, 0, 2) : unique \in {"no", "msgID", "expect"}}
  \cup {D("none", "no", 0, 0, 5, 0)}

L(batch, expires, hb, avail, faults, limit) ==
  [batch |-> batch, expires |-> expires, hb |-> hb, avail |-> avail, faults |-> faults, limit |-> limit]
Fetches ==
  {L(2, TRUE, TRUE, 1, {"publish", "idle", "lose", "late"}, 2), L(2, TRUE, FALSE, 2, {"leave", "refuse", "close", "lose"}, 2),
   L(3, FALSE, FALSE, 2, {"refuse", "leave", "close"}, 1), L(2, FALSE, TRUE, 1, {"lose", "idle", "late"}, 2),
   L(2, FALSE, FALSE, 2, {"lose"}, 1)}

NameTexts  == {<<"a">>, <<"A">>, <<"b", "-", "a">>, <<"a", " ">>}
ValueTexts == {<<>>, <<" ", "1">>, <<"a", ":", "b">>, <<"a", "\n">>}
TwoStatuses == {[code |-> <<>>, description |-> <<>>], [code |-> <<"5", "0">>, description |-> <<"1", " ", "a">>]}

ASSUME
  /\ SplitInfo \in BOOLEAN /\ \A fs \in Streams : fs # <<>> /\ fs[1].op = "INFO"
  /\ {MaxOut, LagCap} \subseteq Nat \ {0}
  /\ \A u \in HbUses : {u.connects, u.flushes} \subseteq Nat
  /\ \A u \in Uses : u.serve \in BOOLEAN /\ {u.requests, u.faults} \subseteq Nat
  /\ Kvs \subseteq Entries /\ \A u \in ApiUses : Demand(u)
  /\ \A u \in FetchUses : {u.expires, u.hb} \subseteq BOOLEAN /\ {u.batch, u.avail, u.limit} \subseteq Nat
  /\ MaxEdits \in Nat /\ \A st \in Statuses : st.code = <<>> <=> st.description = <<>>
  /\ {base, seqLen, minInc, maxInc} \subseteq Nat \ {0} /\ minInc < maxInc /\ MaxDrawn \in Nat
----------------------------------------------------------------------------
(* However the bytes are cut into reads (a frame cut inside its operation, *)
(* its arguments, between CR and NL, or inside its payload), parse()       *)
(* pushes the frames the server sent, each as soon as it is complete, in   *)
(* order, with its subject, reply, sizes and payload (parser.ts parse()).  *)
FramesDispatched == P!FramesDispatched

(* The alarm is neither false nor missing: one timer runs at most, across  *)
(* lost connections; close() ends it, and the one that a dial finished     *)
(* behind close() starts ends with its connection; a connection is left    *)
(* only when the server owes the answers to maxPingOut heartbeats (late    *)
(* PONGs, those of flush() and heartbeats of an earlier connection do not  *)
(* raise it), and a server that falls silent is found out (heartbeats.ts   *)
(* start(), cancel(), _schedule(); protocol.ts _close(), dial()).          *)
StaleLeft == H!NoTimerLeaks /\ H!LeftOnlyWhenStale /\ H!StaleDetected

(* A service that stops gracefully leaves no request behind: as long as    *)
(* the connection stays up and no subscription is denied, every request    *)
(* the server hands to an endpoint reaches its callback, also those on     *)
(* their way when close() starts to drain; and `stopped` resolves once     *)
(* every subscription that was open has ended, unless the connection is    *)
(* closed while they drain (service.ts close(), stop()).                   *)
StopIsGraceful == S!GracefulStop /\ S!ServiceStops

(* The loop over a fetch() ends, whichever of the batch, a status, the     *)
(* timer and the monitor comes first and whatever is lost; without a timer *)
(* and without heartbeats a lost pull leaves it waiting (jsclient.ts       *)
(* fetch()).                                                               *)
FetchReturns == F!FetchReturns

(* Headers arrive as they were sent: reading what was written gives the    *)
(* same status, names and values in their order, and a record of them the  *)
(* same values; and headers edited with one way to match have one field    *)
(* for each name that matches (headers.ts encode(), decode(), append(),    *)
(* set()).                                                                 *)
HeadersSurvive == G!HeadersSurvive

(* An identifier is not given out twice, up to and beyond the overflow of  *)
(* its sequence, except that a sequence which began with 0 and which hits  *)
(* base ^ seqLen exactly is cut to 0 again (nuid.ts next(), fillSeq()).    *)
NuidsDistinct == N!NuidsDistinct
=============================================================================
