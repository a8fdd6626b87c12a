---- MODULE Heartbeats ----
(***************************************************************************)
(* The PING timer of src/nats-base-client/heartbeats.ts on a connection    *)
(* that is dialled, lost, half open (the server no longer answers) and     *)
(* dialled again, and that may be closed at any moment of it. A heartbeat  *)
(* waits for its PONG in the queue `pongs` it shares with flush(). A       *)
(* promise continuation runs before the next event, so it is part of the   *)
(* action that settles the promise.                                        *)
(***************************************************************************)
EXTENDS Naturals, Sequences

CONSTANTS
    MaxOut,         \* maxPingOut
    LagCap,         \* PINGs a server that answers may be behind with
    HbUses          \* bounds: records [connects, flushes]

VARIABLES
    hbUse,          \* the element of HbUses
    link,           \* "down": no loop runs, or it is about to select a server;
                    \* "resolving": it is behind that, between two addresses or
                    \* before the first; "dialing"; "up"; "leaving"
    handler,        \* [connectedOnce, closed, doomed, reopened]: connectedOnce and
                    \* _closed; close() has rejected the PONG the dial awaits; a
                    \* connection was established behind close() (history)
    silent,         \* the server no longer answers on this connection
    heartbeat,      \* [timer, live, pendings]: this.timer, the timers that will
                    \* fire, and the length of this.pendings
    queue,          \* pongs: "hb", "reset" (a heartbeat that _reset resolved), "flush"
    count           \* [connects, flushes]: what is used of the bounds

hbVars == <<hbUse, link, handler, silent, heartbeat, queue, count>>

(***************************************************************************)
(* The operations of Heartbeat, on the pair of its fields and the queue.   *)
(***************************************************************************)
_reset(h, q) == [h |-> [h EXCEPT !.pendings = 0],
                 q |-> [k \in DOMAIN q |-> IF q[k] = "hb" THEN "reset" ELSE q[k]]]

\* clearTimeout() of this.timer, if it has not fired, and _reset().
cancel(h, q) ==
    _reset([h EXCEPT !.timer = "none",
                     !.live = IF h.timer = "armed" THEN @ - 1 ELSE @], q)

_schedule(h) == [h EXCEPT !.timer = "armed", !.live = @ + 1]

start(h, q) == LET c == cancel(h, q) IN [h |-> _schedule(c.h), q |-> c.q]

Becomes(c) == heartbeat' = c.h /\ queue' = c.q

----
HbState(u) ==
    /\ hbUse = u
    /\ link = "down"
    /\ handler = [connectedOnce |-> FALSE, closed |-> FALSE, doomed |-> FALSE, reopened |-> FALSE]
    /\ silent = FALSE
    /\ heartbeat = [timer |-> "none", live |-> 0, pendings |-> 0]
    /\ queue = <<>>
    /\ count = [connects |-> 0, flushes |-> 0]
HbInit == \E u \in HbUses : HbState(u)
HbUnused == HbState([connects |-> 0, flushes |-> 0])

\* The top of the dial loop, which ends there when the handler was closed.
dodialLoop ==
    /\ link = "down" /\ ~handler.closed /\ count.connects < hbUse.connects
    /\ link' = "resolving"
    /\ UNCHANGED <<hbUse, handler, silent, heartbeat, queue, count>>

\* prepare(): the PONGs of the last connection are rejected; a heartbeat among
\* them cancels the timer. Whether the handler was closed is not looked at.
dial ==
    /\ link = "resolving" /\ count.connects < hbUse.connects
    /\ link' = "dialing"
    /\ handler' = [handler EXCEPT !.doomed = FALSE]
    /\ silent' = FALSE
    /\ count' = [count EXCEPT !.connects = @ + 1]
    /\ heartbeat' = IF \E k \in DOMAIN queue : queue[k] = "hb"
                    THEN cancel(heartbeat, queue).h ELSE heartbeat
    /\ queue' = <<>>
    /\ UNCHANGED hbUse

\* The next address of the server, if it has one, or the top of the loop.
dialFails ==
    /\ link = "dialing"
    /\ link' \in {"resolving", "down"}
    /\ UNCHANGED <<hbUse, handler, silent, heartbeat, queue, count>>

\* The PONG of the handshake: connected, and the heartbeats start, also when
\* the handler was closed before this address was dialled.
connected ==
    /\ link = "dialing" /\ ~handler.doomed
    /\ link' = "up"
    /\ handler' = [handler EXCEPT !.connectedOnce = TRUE, !.reopened = @ \/ handler.closed]
    /\ Becomes(start(heartbeat, queue))
    /\ UNCHANGED <<hbUse, silent, count>>

\* A mutant of Alarm: one PING early.
Alarm_Early == heartbeat.pendings + 1 = MaxOut

Alarm == heartbeat.pendings = MaxOut

\* The timer fires: either too many PINGs are out and the connection is left,
\* or one more is sent (or buffered, while there is no connection).
Tick ==
    /\ heartbeat.live > 0
    /\ link \in {"up", "leaving"} /\ ~silent => Len(queue) < LagCap
    /\ LET fired == [heartbeat EXCEPT !.live = @ - 1, !.timer = "fired"]
       IN  IF Alarm
           THEN /\ Becomes(cancel(fired, queue))
                /\ link' = IF link = "up" THEN "leaving" ELSE link
           ELSE /\ heartbeat' = _schedule([fired EXCEPT !.pendings = @ + 1])
                /\ queue' = Append(queue, "hb")
                /\ UNCHANGED link
    /\ UNCHANGED <<hbUse, handler, silent, count>>

\* flush() of the application shares the queue, connected or not.
flush ==
    /\ handler.connectedOnce /\ ~handler.closed /\ count.flushes < hbUse.flushes
    /\ queue' = Append(queue, "flush")
    /\ count' = [count EXCEPT !.flushes = @ + 1]
    /\ UNCHANGED <<hbUse, link, handler, silent, heartbeat>>

\* processPong(): the first of the queue is resolved. A heartbeat that is
\* resolved here resets the others with it.
processPong ==
    /\ link \in {"up", "leaving"} /\ ~silent /\ queue # <<>>
    /\ Becomes(IF Head(queue) = "hb" THEN _reset(heartbeat, Tail(queue))
                                     ELSE [h |-> heartbeat, q |-> Tail(queue)])
    /\ UNCHANGED <<hbUse, link, handler, silent, count>>

\* The server, or the network to it, falls silent without closing.
FallSilent ==
    /\ link = "up" /\ ~silent
    /\ silent' = TRUE
    /\ UNCHANGED <<hbUse, link, handler, heartbeat, queue, count>>

\* The transport notices that the connection has ended, or has left it: the
\* write it waits for has succeeded or failed.
disconnected ==
    /\ link \in {"up", "leaving"}
    /\ link' = "down"
    /\ UNCHANGED <<hbUse, handler, silent, heartbeat, queue, count>>

\* _close(): the timer is cancelled, the dial under way rejected, and the
\* transport left. A loop that is behind its top goes on.
_close ==
    /\ handler.connectedOnce /\ ~handler.closed
    /\ handler' = [handler EXCEPT !.closed = TRUE, !.doomed = link = "dialing"]
    /\ link' = IF link = "up" THEN "leaving" ELSE link
    /\ Becomes(cancel(heartbeat, queue))
    /\ UNCHANGED <<hbUse, silent, count>>

HbNext == dodialLoop \/ dial \/ dialFails \/ connected \/ Tick \/ flush \/ processPong
          \/ FallSilent \/ disconnected \/ _close

\* Timers fire.
HbFairness == WF_hbVars(Tick)

----
\* Comment of start(): "ensure we don't leak timers". One timer runs at most,
\* and it is the one cancel() knows. close() ends it; only a dial that was under
\* way and succeeds behind close() starts it again. The timer that then runs for
\* a closed handler stops by itself once that connection is lost, although
\* nobody cancels it.
NoTimerLeaks ==
    /\ [](/\ heartbeat.live <= 1
          /\ heartbeat.live = 1 => heartbeat.timer = "armed"
          /\ handler.closed /\ ~handler.reopened => heartbeat.live = 0)
    /\ (handler.closed /\ link = "down") ~> heartbeat.live = 0

\* A connection is left, unless by close(), only when the server owes the
\* answers to maxPingOut heartbeats: late PONGs, those of flush() and heartbeats
\* of an earlier connection do not raise the alarm.
LeftOnlyWhenStale ==
    [][link = "up" /\ link' = "leaving" /\ UNCHANGED handler =>
        Len(SelectSeq(queue, LAMBDA p : p # "flush")) >= MaxOut]_hbVars

\* A server that falls silent is found out: the connection does not stay up.
StaleDetected == (link = "up" /\ silent) ~> (link # "up")
====
