---- MODULE Services ----
(***************************************************************************)
(* A service of src/nats-base-client/service.ts: its monitoring and user   *)
(* endpoints, each a subscription, and how it stops: by stop(), by an      *)
(* error of a subscription, by the reader of an endpoint, or with the      *)
(* connection. Subscriptions and PONGs are those of module Protocol, kept  *)
(* here to what a service sees of them. The service's statistics and the   *)
(* contents of its answers are left out.                                   *)
(***************************************************************************)
EXTENDS Naturals, Sequences, SequencesExt

CONSTANTS
    Monitoring,     \* the endpoints start() adds: PING, STATS, INFO, each for
                    \* all services, for this kind and for this one
    Handled,        \* user endpoints with a handler, a sequence of names
    Iterated,       \* user endpoints read with an iterator, another one
    Uses            \* how the service is used: records [serve, requests, faults]
                    \* with bounds on requests and on lost connections

VARIABLES
    use,            \* the element of Uses
    conn,           \* [closed, draining, faults]: the connection
    service,        \* [added, stopped, why, awaits, done]: the service
    sub,            \* the state of every endpoint's subscription
    pongs,          \* the drains whose PING is on its way to the server
    inbound,        \* requests and PONGs on their way to the client
    interest,       \* the subscriptions the server has
    results         \* [sent, answered, failed, queued, lost]: the requests

serviceVars == <<use, conn, service, sub, pongs, inbound, interest, results>>

\* The fields `internal` and `handlers` of the service.
internal == Monitoring
handlers == Handled \o Iterated

Internal  == ToSet(internal)
Endpoints == ToSet(handlers)
Subs      == Internal \union Endpoints

\* SubscriptionImpl.drain() of every subscription: the UNSUB and the PING are
\* written once for each, and the promise waits for the PONG.
drainAll(subs, queue) ==
    [sub   |-> [s \in Subs |-> IF subs[s] = "open" THEN "draining" ELSE subs[s]],
     pongs |-> queue \o SelectSeq(handlers \o internal, LAMBDA s : subs[s] = "open")]

(***************************************************************************)
(* close(err): the first call decides. It awaits the drains of all         *)
(* subscriptions (one that is closed rejects at once); on a closed         *)
(* connection there is nothing to await.                                   *)
(***************************************************************************)
close(srv, subs, err, closed) ==
    IF srv.stopped THEN srv
    ELSE LET waits == IF closed THEN {}
                      ELSE {s \in Subs : subs[s] \in {"open", "draining"}}
         IN  [srv EXCEPT !.stopped = TRUE, !.why = err, !.awaits = waits,
                         !.done = waits = {}]

\* A drain settles: allSettled() resolves with the last one.
settled(srv, ss) ==
    LET left == srv.awaits \ ss
    IN  [srv EXCEPT !.awaits = left, !.done = @ \/ (srv.stopped /\ left = {})]

\* A mutant of Stops: the subscriptions are left instead of drained.
Stops_Unsubscribed(srv, subs, queue, err) ==
    /\ service' = [srv EXCEPT !.stopped = TRUE, !.why = err, !.done = TRUE]
    /\ sub' = [s \in Subs |-> IF subs[s] = "none" THEN "none" ELSE "closed"]
    /\ pongs' = <<>>

\* close() together with the drains it starts, on an open connection.
Stops(srv, subs, queue, err) ==
    /\ service' = close(srv, subs, err, FALSE)
    /\ LET d == IF srv.stopped THEN [sub |-> subs, pongs |-> queue]
                               ELSE drainAll(subs, queue)
       IN  sub' = d.sub /\ pongs' = d.pongs

----
ServiceState(u) ==
    /\ use = u
    /\ conn = [closed |-> FALSE, draining |-> FALSE, faults |-> 0]
    /\ service = [added |-> FALSE, stopped |-> FALSE, why |-> "null",
                  awaits |-> {}, done |-> FALSE]
    /\ sub = [s \in Subs |-> "none"]
    /\ pongs = <<>>
    /\ inbound = <<>>
    /\ interest = {}
    /\ results = [sent |-> 0, answered |-> 0, failed |-> 0, queued |-> 0, lost |-> 0]
ServiceInit == \E u \in Uses : ServiceState(u)
ServiceUnused == ServiceState([serve |-> FALSE, requests |-> 0, faults |-> 0])

\* services.add(): the constructor and start(), which subscribes to the
\* subjects of the monitoring verbs.
add ==
    /\ use.serve /\ ~service.added /\ ~conn.closed
    /\ service' = [service EXCEPT !.added = TRUE]
    /\ sub' = [s \in Subs |-> IF s \in Internal THEN "open" ELSE sub[s]]
    /\ interest' = Internal
    /\ UNCHANGED <<use, conn, pongs, inbound, results>>

\* addEndpoint(): subscribes at once, also in a service that has stopped.
addEndpoint(e) ==
    /\ service.added /\ ~conn.closed /\ ~conn.draining /\ sub[e] = "none"
    /\ sub' = [sub EXCEPT ![e] = "open"]
    /\ interest' = interest \union {e}
    /\ UNCHANGED <<use, conn, service, pongs, inbound, results>>

\* A request to a subject the server has interest for.
Request(s) ==
    /\ s \in interest /\ results.sent < use.requests /\ ~conn.closed
    /\ inbound' = Append(inbound, [kind |-> "request", of |-> s])
    /\ results' = [results EXCEPT !.sent = @ + 1]
    /\ UNCHANGED <<use, conn, service, sub, pongs, interest>>

\* The server handles the UNSUB and the PING of a drain.
ServerUnsub ==
    /\ pongs # <<>> /\ ~conn.closed
    /\ pongs' = Tail(pongs)
    /\ interest' = interest \ {Head(pongs)}
    /\ inbound' = Append(inbound, [kind |-> "pong", of |-> Head(pongs)])
    /\ UNCHANGED <<use, conn, service, sub, results>>

(***************************************************************************)
(* The callback of setupHandler: the monitoring verbs answer, a handler    *)
(* returns or throws (and the error is the answer), an iterator's handler  *)
(* queues the request for its reader.                                      *)
(***************************************************************************)
Outcomes(s) == IF s \in ToSet(Iterated) THEN {"queued"}
               ELSE IF s \in ToSet(Handled) THEN {"answered", "failed"} ELSE {"answered"}

Callback ==
    /\ inbound # <<>> /\ Head(inbound).kind = "request" /\ ~conn.closed
    /\ LET s == Head(inbound).of
       IN  IF sub[s] \in {"open", "draining"}
           THEN \E o \in Outcomes(s) : results' = [results EXCEPT ![o] = @ + 1]
           ELSE results' = [results EXCEPT !.lost = @ + 1]
    /\ inbound' = Tail(inbound)
    /\ UNCHANGED <<use, conn, service, sub, pongs, interest>>

\* The reader of an endpoint takes a request and answers it.
Respond ==
    /\ results.queued > 0
    /\ results' = [results EXCEPT !.queued = @ - 1, !.answered = @ + 1]
    /\ UNCHANGED <<use, conn, service, sub, pongs, inbound, interest>>

\* A subscription has ended: "required subscription ... stopped", unless the
\* service has stopped already.
Required(srv, subs, queue) == Stops(srv, subs, queue, "required")

\* The PONG of a drain: the subscription is cancelled and the promise settles.
Pong ==
    /\ inbound # <<>> /\ Head(inbound).kind = "pong" /\ ~conn.closed
    /\ LET s == Head(inbound).of
       IN  Required(settled(service, {s}), [sub EXCEPT ![s] = "closed"], pongs)
    /\ inbound' = Tail(inbound)
    /\ UNCHANGED <<use, conn, interest, results>>

\* stop(), with or without an error.
stop(err) ==
    /\ service.added /\ ~service.stopped /\ ~conn.closed
    /\ Stops(service, sub, pongs, err)
    /\ UNCHANGED <<use, conn, inbound, interest, results>>

\* The reader of an endpoint leaves its loop: iterClosed closes the service.
IterClosed ==
    /\ \E e \in ToSet(Iterated) : sub[e] # "none"
    /\ ~service.stopped /\ ~conn.closed
    /\ Stops(service, sub, pongs, "null")
    /\ UNCHANGED <<use, conn, inbound, interest, results>>

\* The server refuses the subscription: its callback gets the error and closes
\* the service, which drains them all, and then this one is closed.
Denied(e) ==
    /\ sub[e] \in {"open", "draining"} /\ e \in interest /\ ~conn.closed
    /\ conn.faults < use.faults
    /\ conn' = [conn EXCEPT !.faults = @ + 1]
    /\ LET d == IF service.stopped THEN [sub |-> sub, pongs |-> pongs]
                                   ELSE drainAll(sub, pongs)
       IN  /\ sub' = [d.sub EXCEPT ![e] = "closed"]
           /\ pongs' = d.pongs
    /\ service' = close(service, sub, "denied", FALSE)
    /\ interest' = interest \ {e}
    /\ UNCHANGED <<use, inbound, results>>

(***************************************************************************)
(* The connection.                                                         *)
(***************************************************************************)
\* A lost connection rejects the PONGs, which ends every drain; the others are
\* subscribed again.
Reconnect ==
    /\ ~conn.closed /\ service.added /\ conn.faults < use.faults
    /\ conn' = [conn EXCEPT !.faults = @ + 1]
    /\ LET ended == {s \in Subs : sub[s] = "draining"}
       IN  IF ended = {} THEN /\ service' = settled(service, Subs)
                              /\ UNCHANGED sub /\ pongs' = <<>>
           ELSE Required(settled(service, Subs),
                         [s \in Subs |-> IF s \in ended THEN "closed" ELSE sub[s]],
                         <<>>)
    /\ inbound' = <<>>
    /\ interest' = {s \in Subs : sub[s] = "open"}
    /\ UNCHANGED <<use, results>>

\* nc.drain() drains every subscription; the service learns of it from the
\* first one that ends.
ncDrain ==
    /\ ~conn.closed /\ ~conn.draining /\ service.added
    /\ conn' = [conn EXCEPT !.draining = TRUE]
    /\ LET d == drainAll(sub, pongs) IN sub' = d.sub /\ pongs' = d.pongs
    /\ UNCHANGED <<use, service, inbound, interest, results>>

\* nc.close(): the subscriptions close, and with them the service. The PONGs
\* are not rejected: a stop() that is draining gets no answer.
ncClose ==
    /\ ~conn.closed /\ service.added
    /\ conn' = [conn EXCEPT !.closed = TRUE]
    /\ sub' = [s \in Subs |-> IF sub[s] = "none" THEN "none" ELSE "closed"]
    /\ service' = close(service, sub, "required", TRUE)
    /\ inbound' = <<>> /\ interest' = {} /\ pongs' = <<>>
    /\ UNCHANGED <<use, results>>

ServiceNext ==
    \/ add
    \/ \E e \in Endpoints : addEndpoint(e)
    \/ \E s \in Subs : Request(s) \/ Denied(s)
    \/ ServerUnsub \/ Callback \/ Respond \/ Pong
    \/ \E err \in {"null", "error"} : stop(err)
    \/ IterClosed \/ Reconnect \/ ncDrain \/ ncClose

\* The server and the event loop go on.
ServiceFairness == WF_serviceVars(ServerUnsub) /\ WF_serviceVars(Callback)
                   /\ WF_serviceVars(Pong)

----
\* A service that stops gracefully leaves no request behind: as long as the
\* connection stays up and no subscription is denied, every request the server
\* hands to an endpoint reaches its callback, also those that are on their way
\* when close() starts to drain.
GracefulStop == [][results'.lost > results.lost => conn'.faults > 0]_serviceVars

\* stop() promises an end, and so does every other way to stop: `stopped`
\* resolves once every subscription that was open has ended, unless the
\* connection is closed while they drain.
ServiceStops ==
    service.stopped ~> (conn.closed \/ (service.done /\ service.awaits = {}))
====
