---- MODULE Fetch ----
(***************************************************************************)
(* fetch() of src/jetstream/jsclient.ts: one pull of a batch, whose        *)
(* messages are read with a QueuedIterator. It may end by its batch, by a  *)
(* status of the server, by its timer, which drains the subscription, or   *)
(* by missed heartbeats. The iterator works on the entries it found        *)
(* (`inbatch`) while others arrive behind them. The limit in bytes, which  *)
(* ends a fetch() as the batch does, is left out.                          *)
(***************************************************************************)
EXTENDS Integers, Sequences

CONSTANTS FetchUses     \* bounds: records [batch, expires, hb, avail, faults, limit]

VARIABLES
    ftUse,      \* the element of FetchUses
    ft,         \* [sub, received, timer, monitor]: the subscription, its count, and
                \* whether the timer and the monitor run
    qi,         \* [yields, inbatch, current, done, err, filtered, given, ended]: the
                \* iterator; `given` is what fetch() counts as received
    pullReq,    \* at the server: the messages the pull still waits for, -1 before it
                \* arrived, 0 when it is over
    ftAvail,    \* at the server: messages of the consumer
    line,       \* frames to the client
    ftFaults

fetchVars == <<ftUse, ft, qi, pullReq, ftAvail, line, ftFaults>>
server == <<pullReq, ftAvail>>

Frame(k, n) == [kind |-> k, pending |-> n]
None == Frame("none", 0)

FetchState(u) ==
    /\ ftUse = u
    /\ ft = [sub |-> "none", received |-> 0, timer |-> FALSE, monitor |-> FALSE]
    /\ qi = [yields |-> <<>>, inbatch |-> 0, current |-> None, done |-> FALSE, err |-> FALSE,
             filtered |-> 0, given |-> 0, ended |-> FALSE]
    /\ pullReq = -1 /\ ftAvail = u.avail /\ line = <<>> /\ ftFaults = 0
FetchInit == \E u \in FetchUses : FetchState(u)
FetchUnused == FetchState([batch |-> 0, expires |-> FALSE, hb |-> FALSE, avail |-> 0, faults |-> {}, limit |-> 0])

Fault(f) == f \in ftUse.faults /\ ftFaults < ftUse.limit /\ ftFaults' = ftFaults + 1

----
\* The subscription on an inbox, the timer, the monitor and the request; without
\* expires it is a no_wait.
fetch ==
    /\ ft.sub = "none" /\ ftUse.batch > 0
    /\ ft' = [ft EXCEPT !.sub = "open", !.timer = ftUse.expires, !.monitor = ftUse.hb]
    /\ UNCHANGED <<ftUse, qi, server, line, ftFaults>>

stop(q, err) == IF q.done THEN q ELSE [q EXCEPT !.done = TRUE, !.err = err]
push(q, e)   == IF q.done THEN q ELSE [q EXCEPT !.yields = Append(@, e)]

\* Mutant of closed: the end of the subscription is not passed on.
closed_Quiet(f, q) == [f |-> [f EXCEPT !.sub = "closed", !.timer = FALSE, !.monitor = FALSE], q |-> q]

\* The subscription closes: what waits for sub.closed ends the iterator.
closed(f, q) ==
    [f |-> [f EXCEPT !.sub = "closed", !.timer = FALSE, !.monitor = FALSE], q |-> stop(q, FALSE)]

Becomes(c) == ft' = c.f /\ qi' = c.q

\* processMsg(): the callback, and the max of the subscription, which counts
\* statuses and heartbeats too.
Received(f, q) ==
    LET g == [f EXCEPT !.received = @ + 1]
    IN  Becomes(IF g.sub = "open" /\ g.received >= ftUse.batch THEN closed(g, q) ELSE [f |-> g, q |-> q])

Receive ==
    /\ line # <<>> /\ Head(line).kind # "pong"
    /\ LET m == Head(line)
       IN  CASE ft.sub \notin {"open", "draining"} -> UNCHANGED <<ft, qi>>
             [] ft.sub \in {"open", "draining"} /\ m.kind \in {"msg", "hb"} ->
                   Received(ft, push(qi, m))
             [] ft.sub \in {"open", "draining"} /\ m.kind \in {"status", "terminal"} ->
                   Received([ft EXCEPT !.timer = FALSE], stop(qi, m.kind = "terminal"))
    /\ line' = Tail(line)
    /\ UNCHANGED <<ftUse, server, ftFaults>>

\* The timer drains the subscription.
TimerFires ==
    /\ ft.timer
    /\ IF ft.sub = "open"
       THEN /\ ft' = [ft EXCEPT !.timer = FALSE, !.monitor = FALSE, !.sub = "draining"]
            /\ line' = Append(line, Frame("pong", 0)) /\ pullReq' = 0
       ELSE /\ ft' = [ft EXCEPT !.timer = FALSE, !.monitor = FALSE]
            /\ UNCHANGED <<line, pullReq>>
    /\ UNCHANGED <<ftUse, qi, ftAvail, ftFaults>>

Pong ==
    /\ line # <<>> /\ Head(line).kind = "pong"
    /\ IF ft.sub = "closed" THEN UNCHANGED <<ft, qi>> ELSE Becomes(closed(ft, qi))
    /\ line' = Tail(line)
    /\ UNCHANGED <<ftUse, server, ftFaults>>

\* Heartbeats stay away: a function that fails the iterator is queued, and the
\* monitor is cancelled.
HeartbeatsMissed ==
    /\ ft.monitor /\ line = <<>>
    /\ IF pullReq = 0 THEN UNCHANGED ftFaults ELSE Fault("late")
    /\ ft' = [ft EXCEPT !.monitor = FALSE]
    /\ qi' = push(qi, Frame("fn", 0))
    /\ UNCHANGED <<ftUse, server, line>>
----
(***************************************************************************)
(* iterate().                                                              *)
(***************************************************************************)
Reading == ft.sub # "none" /\ ~qi.ended /\ qi.current = None
Left(q) == [q EXCEPT !.ended = TRUE, !.done = TRUE]

\* The top of the loop: an error is thrown; what is there becomes the batch.
Batch ==
    /\ Reading /\ qi.inbatch = 0 /\ (qi.yields # <<>> \/ qi.done)
    /\ qi' = IF qi.err \/ qi.yields = <<>> THEN Left(qi) ELSE [qi EXCEPT !.inbatch = Len(qi.yields)]
    /\ UNCHANGED <<ftUse, ft, server, line, ftFaults>>

\* The end of an entry: an iterator that was stopped leaves with the last of
\* its batch.
Next1(q) == IF q.inbatch = 0 /\ q.done THEN Left(q) ELSE q

Take ==
    /\ Reading /\ qi.inbatch > 0
    /\ LET e == Head(qi.yields)
           q == [qi EXCEPT !.yields = Tail(@), !.inbatch = @ - 1]
       IN  qi' = CASE e.kind = "msg" -> [q EXCEPT !.current = e]
                   [] e.kind = "hb" -> Next1([q EXCEPT !.filtered = @ - 1])
                   [] e.kind = "fn" -> Left([q EXCEPT !.err = TRUE])
    /\ UNCHANGED <<ftUse, ft, server, line, ftFaults>>

\* dispatchedFn: with a timer the last message of the consumer stops nothing.
getPending == Len(qi.yields) + 1 - qi.filtered
dispatchedFn(q) ==
    LET pending == qi.current.pending
    IN  IF ft.timer /\ pending = 0 THEN q
        ELSE IF (getPending = 1 /\ pending = 0) \/ q.given = ftUse.batch THEN stop(q, FALSE)
        ELSE q

Dispatched ==
    /\ qi.current # None
    /\ qi' = Next1(dispatchedFn([qi EXCEPT !.current = None, !.given = @ + 1]))
    /\ UNCHANGED <<ftUse, ft, server, line, ftFaults>>

\* The user leaves the loop; the subscription is left to its timer or max.
Break ==
    /\ qi.current # None /\ Fault("leave")
    /\ qi' = [Left(qi) EXCEPT !.current = None]
    /\ UNCHANGED <<ftUse, ft, server, line>>
----
(***************************************************************************)
(* External: the consumer and the connection.                              *)
(***************************************************************************)
serving == <<ftUse, ft, qi, ftFaults>>
Sends(f) == line' = Append(line, f)

ServerTakes ==
    /\ pullReq = -1 /\ ft.sub = "open"
    /\ pullReq' = ftUse.batch
    /\ UNCHANGED <<serving, ftAvail, line>>

Deliver ==
    /\ pullReq > 0 /\ ftAvail > 0
    /\ Sends(Frame("msg", ftAvail - 1))
    /\ ftAvail' = ftAvail - 1 /\ pullReq' = pullReq - 1
    /\ UNCHANGED serving

\* A pull that does not wait, or has expired, ends with a status.
Expire ==
    /\ pullReq > 0 /\ ftAvail = 0
    /\ Sends(Frame("status", 0)) /\ pullReq' = 0
    /\ UNCHANGED <<serving, ftAvail>>

\* A terminal status: the consumer was deleted, or the request exceeds its limits.
Refuse ==
    /\ pullReq > 0 /\ Fault("refuse")
    /\ Sends(Frame("terminal", 0)) /\ pullReq' = 0
    /\ UNCHANGED <<ftUse, ft, qi, ftAvail>>

Publish ==
    /\ pullReq > 0 /\ ftUse.expires /\ Fault("publish")
    /\ ftAvail' = ftAvail + 1
    /\ UNCHANGED <<ftUse, ft, qi, pullReq, line>>

Heartbeat ==
    /\ pullReq > 0 /\ ftUse.hb /\ Fault("idle")
    /\ Sends(Frame("hb", 0))
    /\ UNCHANGED <<ftUse, ft, qi, server>>

\* The connection is lost with what is on it, and made again; a drain ends.
Lose ==
    /\ ft.sub \in {"open", "draining"} /\ Fault("lose")
    /\ line' = <<>> /\ pullReq' = 0
    /\ IF ft.sub = "draining" THEN Becomes(closed(ft, qi)) ELSE UNCHANGED <<ft, qi>>
    /\ UNCHANGED <<ftUse, ftAvail>>

\* close() of the connection, or a permission error of the subscription.
SubCloses ==
    /\ ft.sub \in {"open", "draining"} /\ Fault("close")
    /\ Becomes(closed(ft, qi)) /\ line' = <<>> /\ pullReq' = 0
    /\ UNCHANGED <<ftUse, ftAvail>>

FetchNext ==
    \/ fetch \/ Receive \/ TimerFires \/ Pong \/ HeartbeatsMissed
    \/ Batch \/ Take \/ Dispatched \/ Break
    \/ ServerTakes \/ Deliver \/ Expire \/ Refuse \/ Publish \/ Heartbeat \/ Lose \/ SubCloses

\* Timers fire, the event loop and the server go on, and the user reads.
FetchFairness ==
    /\ WF_fetchVars(Receive) /\ WF_fetchVars(TimerFires) /\ WF_fetchVars(Pong)
    /\ WF_fetchVars(Batch) /\ WF_fetchVars(Take) /\ WF_fetchVars(Dispatched)
    /\ WF_fetchVars(ServerTakes) /\ WF_fetchVars(Deliver) /\ WF_fetchVars(Expire)
    /\ WF_fetchVars(HeartbeatsMissed /\ pullReq = 0)
----
\* The loop over a fetch() ends, whichever of the batch, a status, the timer and
\* the monitor comes first and whatever is lost; without a timer and without
\* heartbeats a lost pull leaves it waiting (jsclient.ts fetch()).
FetchReturns ==
    ft.sub # "none" ~> qi.ended \/ ("lose" \in ftUse.faults /\ ~ftUse.expires /\ ~ftUse.hb)
====
