------------------------------ MODULE Reconnect ------------------------------
(***************************************************************************)
(* Which server the client dials and when it stops: the dial loop of       *)
(* ProtocolHandler (dialLoop, dodialLoop, _doDial, dial), its handling of  *)
(* authentication errors and of close(), and the server pool               *)
(* (nats-base-client/servers.ts) it takes servers from.                    *)
(*                                                                         *)
(* Servers are identified by their listen address; the addresses of a pool *)
(* are distinct. What travels on an established connection is the subject  *)
(* of module Protocol.                                                     *)
(***************************************************************************)
EXTENDS Integers, Sequences, FiniteSets, SequencesExt

CONSTANTS
  Listens,               \* a sequence of all the addresses there are
  Configured,            \* options.servers, in pool order (after shuffle)
  Options,               \* the options a client may be made with
  Alts,                  \* bound: addresses a server name resolves to
  CountCap               \* bound: failures are counted up to here

Listen == Range(Listens)
Distinct(q) == \A i, j \in 1..Len(q) : q[i] = q[j] => i = j

(* Codes of errors the server sends that are not permission errors. *)
AuthCode == {"AuthorizationViolation", "AuthenticationExpired"}
ErrCode == AuthCode \cup {"ProtocolError"}

ASSUME ReconnectAssumption ==
  /\ Listens \in Seq(Range(Listens)) /\ Configured \in Seq(Listen)
  /\ Configured # <<>> /\ Distinct(Listens) /\ Distinct(Configured)
  /\ Alts \in Nat \ {0} /\ CountCap \in Nat \ {0}
  /\ \A o \in Options :
       /\ DOMAIN o = {"maxReconnectAttempts", "waitOnFirstConnect",
                      "ignoreAuthErrorAbort", "reconnect", "ignoreClusterUpdates"}
       /\ o.maxReconnectAttempts \in -1..CountCap  \* 0: undefined, -1: no limit
       /\ o.waitOnFirstConnect \in BOOLEAN /\ o.ignoreAuthErrorAbort \in BOOLEAN
       /\ o.reconnect \in BOOLEAN /\ o.ignoreClusterUpdates \in BOOLEAN

VARIABLES
  options,        \* options
  servers,        \* Servers.servers
  current,        \* Servers.currentServer, ProtocolHandler.server
  firstSelect,    \* Servers.firstSelect
  gossiped,       \* the addresses whose last ServerImpl came from an INFO
  reconnects,     \* ServerImpl.reconnects
  recent,         \* the addresses dialled less than a reconnect wait ago
  loop,           \* where the dial loop is, see LoopState
  altsLeft,       \* addresses of the current server left to dial
  doomed,         \* close() has rejected the PONG the current dial awaits
  online,         \* a connection is established and its socket is open
  connectedOnce,  \* connectedOnce
  closed,         \* _closed
  abortReconnect, \* abortReconnect
  lastError,      \* the code of lastError
  tries,          \* history: failed dials since the last success on a server,
                  \* CountCap for a failure before the first connection
  inARow          \* history: authentication failures with the same code
                  \* since the last one of another kind or the last reconnect

pool == <<servers, current, firstSelect, gossiped, reconnects>>
status == <<online, connectedOnce, closed>>
auth == <<abortReconnect, lastError, inARow>>
vars == <<options, pool, recent, loop, altsLeft, doomed, status, auth, tries>>

(* select: top of the loop; delay: waiting before another try; resolve:    *)
(* looking up the name of a server; dial: dialling one of its addresses;   *)
(* idle: no loop runs; ended: the loop has thrown.                         *)
LoopState == {"select", "delay", "resolve", "dial", "idle", "ended"}

(* The type invariant: the pool holds only addresses, no gaps. *)
TypeOK ==
  /\ options \in Options
  /\ servers \in Seq(Listen) /\ current \in Listen
  /\ firstSelect \in BOOLEAN /\ gossiped \subseteq Listen
  /\ reconnects \in [Listen -> Nat] /\ tries \in [Listen -> Nat]
  /\ recent \subseteq Listen
  /\ loop \in LoopState /\ altsLeft \in 0..Alts /\ doomed \in BOOLEAN
  /\ online \in BOOLEAN /\ connectedOnce \in BOOLEAN /\ closed \in BOOLEAN
  /\ abortReconnect \in BOOLEAN
  /\ lastError \in ErrCode \cup {"none"}
  /\ inARow \in 0..2

Init ==
  /\ options \in Options
  /\ servers = Configured /\ current = Configured[1] /\ firstSelect = TRUE
  /\ gossiped = {} /\ reconnects = [l \in Listen |-> 0]
  /\ recent = {} /\ loop = "select" /\ altsLeft = 0 /\ doomed = FALSE
  /\ online = FALSE /\ connectedOnce = FALSE /\ closed = FALSE
  /\ abortReconnect = FALSE /\ lastError = "none" /\ inARow = 0
  /\ tries = [l \in Listen |-> 0]

Count(n) == IF n < CountCap THEN n + 1 ELSE n

-----------------------------------------------------------------------------
(* The server pool.                                                        *)
(* The elements of q that are in S, in their order. *)
Filter(q, S) ==
  LET f[n \in 0..Len(q)] ==
        IF n = 0 THEN <<>>
        ELSE IF q[n] \in S THEN Append(f[n - 1], q[n]) ELSE f[n - 1]
  IN  f[Len(q)]

IndexOf(q, l) ==
  IF l \in Range(q) THEN CHOOSE i \in 1..Len(q) : q[i] = l ELSE 0

(* removeServer(): servers.splice(servers.indexOf(server), 1). When the    *)
(* server is absent the index is -1 and splice removes the last one.       *)
removeServer(q, l) ==
  IF q = <<>> THEN q
  ELSE RemoveAt(q, IF l \in Range(q) THEN IndexOf(q, l) ELSE Len(q))

(* selectServer(): the first call does not rotate. *)
Pool == IF closed THEN <<>> ELSE servers
NextServer == IF firstSelect THEN current ELSE Head(Pool)
HasServer == firstSelect \/ Pool # <<>>
(* Faulty variant: the server goes back to the front. *)
Rotated_Front == Pool
Rotated == IF firstSelect \/ Pool = <<>> THEN Pool ELSE Append(Tail(Pool), Head(Pool))

selectServer ==
  /\ servers' = Rotated
  /\ firstSelect' = FALSE
  /\ current' = IF HasServer THEN NextServer ELSE current
  /\ UNCHANGED <<gossiped, reconnects>>

-----------------------------------------------------------------------------
(* The dial loop.                                                          *)

(* Top of the loop: a server is selected and, unless it was dialled a      *)
(* moment ago, its name is looked up.                                      *)
dialServer ==
  /\ loop = "select" /\ HasServer /\ ~abortReconnect
  /\ NextServer \notin recent
  /\ selectServer
  /\ recent' = recent \cup {NextServer}
  /\ loop' = "resolve"
  /\ UNCHANGED <<altsLeft, doomed, status, auth, tries>>

delayDial ==
  /\ loop = "select" /\ HasServer /\ ~abortReconnect
  /\ NextServer \in recent
  /\ selectServer
  /\ loop' = "delay"
  /\ UNCHANGED <<recent, altsLeft, doomed, status, auth, tries>>

delayOver ==
  /\ loop = "delay"
  /\ loop' = "select"
  /\ recent' = recent \ {current}
  /\ UNCHANGED <<pool, altsLeft, doomed, status, auth, tries>>

(* The reconnect wait of a server passes on its own. *)
waitOver(l) ==
  /\ l \in recent
  /\ recent' = recent \ {l}
  /\ UNCHANGED <<pool, loop, altsLeft, doomed, status, auth, tries>>

(* The loop throws. connect() rejects when it never connected, otherwise   *)
(* disconnected() closes the connection.                                   *)
stopLoop ==
  /\ loop = "select" /\ (~HasServer \/ abortReconnect)
  /\ selectServer
  /\ loop' = "ended"
  /\ closed' = (closed \/ connectedOnce)
  /\ UNCHANGED <<recent, altsLeft, doomed, online, connectedOnce, auth, tries>>

(* Server.resolve() returns; dial() of the first address starts, with a    *)
(* PONG of its own for close() to reject.                                  *)
resolved(n) ==
  /\ loop = "resolve"
  /\ loop' = "dial" /\ altsLeft' = n /\ doomed' = FALSE
  /\ UNCHANGED <<pool, recent, status, auth, tries>>

(* What an -ERR does to the handler: handleError and handleAuthError. *)
receiveError(e) ==
  /\ abortReconnect' = (abortReconnect \/
       (e \in AuthCode /\ lastError = e /\ ~options.ignoreAuthErrorAbort))
  /\ lastError' = e
  /\ inARow' = IF e \notin AuthCode THEN 0
               ELSE IF e = lastError /\ inARow > 0 THEN 2 ELSE 1

(* Faulty variants: the attempts of a server are not counted; a failed     *)
(* server is dropped whatever the limit.                                   *)
afterFailure_Uncounted ==
  /\ UNCHANGED <<servers, reconnects>>
afterFailure_Drops ==
  /\ servers' = removeServer(servers, current)
  /\ UNCHANGED reconnects

(* The catch of dodialLoop: pool and counters after _doDial has failed. *)
afterFailure ==
  LET r == Count(reconnects[current])
      first == IF connectedOnce THEN servers ELSE removeServer(servers, current)
  IN
  IF ~connectedOnce /\ options.waitOnFirstConnect
  THEN UNCHANGED <<servers, reconnects>>
  ELSE /\ reconnects' = [reconnects EXCEPT ![current] = r]
       /\ servers' = IF options.maxReconnectAttempts # -1 /\ r >= options.maxReconnectAttempts
                     THEN removeServer(first, current) ELSE first

(* dial() of one address fails, with or without an -ERR of the server. The *)
(* next address, if any, is dialled at once.                               *)
dialFailed(e) ==
  /\ loop = "dial"
  /\ IF e = "none" THEN UNCHANGED auth ELSE ~doomed /\ receiveError(e)
  /\ altsLeft' = altsLeft - 1
  /\ IF altsLeft > 1
     THEN /\ doomed' = FALSE
          /\ UNCHANGED <<servers, reconnects, loop, tries>>
     ELSE /\ loop' = "select"
          /\ afterFailure
          /\ tries' = [tries EXCEPT ![current] =
                         IF connectedOnce THEN Count(@) ELSE CountCap]
          /\ UNCHANGED doomed
  /\ UNCHANGED <<current, firstSelect, gossiped, recent, status>>

(* dial() succeeds; a loop started by disconnected() then forgets an       *)
(* expired authentication.                                                 *)
(* Faulty variant: the expired authentication is remembered. *)
clearExpired_Keep == lastError
clearExpired == IF connectedOnce /\ lastError = "AuthenticationExpired"
                THEN "none" ELSE lastError

dialed ==
  /\ loop = "dial" /\ ~doomed
  /\ loop' = "idle"
  /\ online' = TRUE /\ connectedOnce' = TRUE
  /\ reconnects' = [reconnects EXCEPT ![current] = 0]
  /\ tries' = [tries EXCEPT ![current] = 0]
  /\ lastError' = clearExpired
  /\ inARow' = IF connectedOnce THEN 0 ELSE inARow
  /\ UNCHANGED <<servers, current, firstSelect, gossiped, recent, altsLeft,
                 doomed, closed, abortReconnect>>

-----------------------------------------------------------------------------
(* An established connection.                                              *)

(* disconnected(): start the loop, or close when reconnect is off. *)
disconnected ==
  /\ online' = FALSE
  /\ loop' = IF ~closed /\ options.reconnect THEN "select" ELSE loop
  /\ closed' = (closed \/ ~options.reconnect)
  /\ UNCHANGED <<pool, recent, altsLeft, doomed, connectedOnce, tries>>

socketLost ==
  /\ online /\ loop = "idle"
  /\ disconnected
  /\ UNCHANGED auth

(* An authentication error makes the client disconnect. *)
authError(e) ==
  /\ online /\ loop = "idle" /\ ~closed
  /\ receiveError(e)
  /\ disconnected

(* Other errors are remembered; the server closes the connection itself. *)
protocolError ==
  /\ online /\ loop = "idle" /\ ~closed
  /\ receiveError("ProtocolError")
  /\ UNCHANGED <<pool, recent, loop, altsLeft, doomed, status, tries>>

(* processInfo() -> Servers.update(): gossiped servers the cluster no      *)
(* longer reports are dropped, unknown ones are added.                     *)
(* Faulty variant: the current server may be dropped. *)
Dropped_Current(urls) == {l \in Range(servers) : l \in gossiped /\ l \notin urls}
Dropped(urls) ==
  {l \in Range(servers) : l \in gossiped /\ l # current /\ l \notin urls}

Added(urls) == urls \ Range(servers)

update(urls) ==
  LET added == Added(urls) IN
  /\ ~closed /\ ~options.ignoreClusterUpdates
  /\ online \/ (loop = "dial" /\ ~doomed)
  /\ servers' = Filter(servers, Listen \ Dropped(urls)) \o Filter(Listens, added)
  /\ gossiped' = gossiped \cup added
  /\ reconnects' = [l \in Listen |-> IF l \in added THEN 0 ELSE reconnects[l]]
  /\ recent' = recent \ added
  /\ UNCHANGED <<current, firstSelect, loop, altsLeft, doomed, status, auth, tries>>

(* close() of the application: the dial under way, if any, is rejected. *)
close ==
  /\ connectedOnce /\ ~closed
  /\ closed' = TRUE
  /\ online' = FALSE
  /\ doomed' = (loop = "dial")
  /\ UNCHANGED <<pool, recent, loop, altsLeft, connectedOnce, auth, tries>>

-----------------------------------------------------------------------------
Step ==
  /\ \/ dialServer \/ delayDial \/ delayOver \/ stopLoop
     \/ \E n \in 1..Alts : resolved(n)
  /\ UNCHANGED options

Attempt ==
  /\ dialed \/ \E e \in ErrCode \cup {"none"} : dialFailed(e)
  /\ UNCHANGED options

Event ==
  /\ \/ \E l \in Listen : waitOver(l)
     \/ \E e \in AuthCode : authError(e)
     \/ \E urls \in SUBSET Listen : update(urls)
     \/ socketLost \/ protocolError \/ close
  /\ UNCHANGED options

Next == Step \/ Attempt \/ Event

Spec == Init /\ [][Next]_vars

(* The loop is driven by timers and by promises that settle: a dial has a  *)
(* timeout, a look-up returns. Nothing makes a dial succeed.               *)
Fairness == WF_vars(Step) /\ WF_vars(Attempt)

(* For compositions: no dial loop has been started. *)
Unused ==
  /\ options = CHOOSE o \in Options : TRUE
  /\ servers = Configured /\ current = Configured[1] /\ firstSelect = TRUE
  /\ gossiped = {} /\ reconnects = [l \in Listen |-> 0] /\ recent = {}
  /\ loop = "ended" /\ altsLeft = 0 /\ doomed = FALSE
  /\ online = FALSE /\ connectedOnce = FALSE /\ closed = FALSE
  /\ abortReconnect = FALSE /\ lastError = "none" /\ inARow = 0
  /\ tries = [l \in Listen |-> 0]

-----------------------------------------------------------------------------
(* Safety.                                                                 *)

(* The pool keeps its shape under rotation, removal and gossip: no address *)
(* is in it twice, and the server being dialled or connected to is in it,  *)
(* so that removeCurrentServer() finds it.                                 *)
PoolWellFormed ==
  /\ TypeOK
  /\ Distinct(servers)
  /\ (~closed /\ (loop \in {"delay", "resolve", "dial"} \/ online))
       => current \in Range(servers)

(* The failure of a dial removes no other server from the pool, so that a  *)
(* server is never given up on without having been dialled. This holds     *)
(* with two attempts or more, and with waitOnFirstConnect; with a single   *)
(* attempt a failure before the first connection removes the current       *)
(* server twice (protocol.ts:672 and 677), and the second time, when it is *)
(* absent, splice() takes the last server of the pool, which may not have  *)
(* been dialled.                                                           *)
OthersKept ==
  [][(loop = "dial" /\ loop' = "select")
       => Range(servers) \ Range(servers') \subseteq {current}]_vars

(* The loop gives up for lack of servers only when every server it was     *)
(* configured with has used up its attempts: maxReconnectAttempts since it *)
(* was last connected to, or the single one it has before the first        *)
(* connection. (A server that left the pool and came back by gossip may be *)
(* withdrawn by gossip. The single attempt before the first connection     *)
(* that OthersKept is about is the exception here as well.)                *)
GivesUpOnlyWhenExhausted ==
  [][(loop = "select" /\ loop' = "ended" /\ ~closed /\ ~abortReconnect)
       => \A l \in Range(Configured) \ gossiped :
            tries[l] > 0 /\ tries[l] >= options.maxReconnectAttempts]_vars

(* An expired authentication aborts the reconnect policy only when it      *)
(* fails twice without a reconnect in between, so that an authenticator   *)
(* that renews its credentials survives each expiry.                       *)
ExpiryAbortsOnlyInARow ==
  [][(abortReconnect' /\ ~abortReconnect /\ lastError' = "AuthenticationExpired")
       => inARow' = 2]_vars

(* close() closes the connection for good: none is established behind it.  *)
(* The code does not keep to this: a loop that is looking up a name, or    *)
(* has another address to dial, does not see _closed before it connects    *)
(* (protocol.ts _close(), _doDial(), dodialLoop()).                        *)
ClosedForGood == closed => ~online

-----------------------------------------------------------------------------
(* Liveness.                                                               *)

(* With a limit on attempts the dial loop ends, connected or not, though   *)
(* every dial may fail. waitOnFirstConnect sets the limit aside at first,  *)
(* and gossip, which brings a removed server back with a new count, does   *)
(* so for ever. close() ends it whatever the limit.                        *)
LoopEnds ==
  /\ (loop = "select" /\ options.maxReconnectAttempts # -1
        /\ options.ignoreClusterUpdates /\ (connectedOnce \/ ~options.waitOnFirstConnect))
       ~> (loop \in {"idle", "ended"})
  /\ closed ~> (loop \in {"idle", "ended"})

(* No server starves: a dial loop that fails for ever comes back to every  *)
(* server that stays in the pool.                                          *)
NoServerStarves ==
  \A l \in Listen :
    <>[](loop \notin {"idle", "ended"} /\ l \in Range(servers))
      => []<>(loop = "dial" /\ current = l)
=============================================================================
