---- MODULE JsApi ----
(***************************************************************************)
(* The requests of a JetStream client and manager that take more than one  *)
(* round trip: publish() with its retries (src/jetstream/jsclient.ts), the *)
(* paged answers of Lister (jslister.ts) and of streams.info()             *)
(* (jsmstream_api.ts), and the updates of a consumer, which read its       *)
(* configuration and write it back (jsmconsumer_api.ts), each with one try *)
(* of _request() (jsbaseclient_api.ts). The server is external; other      *)
(* clients change what it has between the requests.                        *)
(***************************************************************************)
EXTENDS Naturals, FiniteSets

CONSTANTS
    Entries,        \* names of streams, consumers or subjects: numbers, in their order
    Kvs,            \* those that are streams of buckets
    PageLimit,      \* the number of entries the server puts on a page
    Managers,       \* clients that manage a consumer
    ApiUses         \* bounds: what is used, see Demand

ASSUME ListAssumption == IsFiniteSet(Entries) /\ Entries \subseteq Nat /\ PageLimit \in Nat \ {0}

VARIABLES
    apiUse,         \* the element of ApiUses
    pub,            \* [calls, id, try, state]: the publish() of a user who calls it
                    \* again when it fails
    requests,       \* publications on their way: the ids of the requests
    answers,        \* answers on their way: [id, code]
    stored,         \* the publications the stream has stored
    leader,         \* there is someone to answer on the subject of the stream
    entries,        \* what the server has to list
    pager,          \* [state, offset, total, have, page, got, initial, removed, cut]
    durable,        \* [exists, made, a, b]: a consumer with two fields of its config
    managers,       \* what each manager is doing
    asked,          \* their requests on the way
    changes         \* what is used of the bounds

apiVars == <<apiUse, pub, requests, answers, stored, leader, entries, pager, durable, managers, asked, changes>>

\* `listing` is "list", "kvs" or "info"; `unique` makes the publications
\* idempotent; `manages` bounds the calls of managers and their failures.
Demand(u) ==
    /\ u.listing \in {"none", "list", "kvs", "info"} /\ u.unique \in {"no", "msgID", "expect"}
    /\ {u.publishes, u.retries, u.manages, u.changes} \subseteq Nat

Started == [state |-> "ask", offset |-> 0, total |-> 0, have |-> 0, page |-> 0, got |-> {}, initial |-> {},
            removed |-> FALSE, cut |-> FALSE]

\* A manager between its calls.
Idle(m) == [op |-> "none", action |-> "none", a |-> 0, b |-> 0, id |-> m.id]

ApiState(u, has) ==
    /\ apiUse = u
    /\ pub = [calls |-> 0, id |-> 0, try |-> 0, state |-> "idle"]
    /\ requests = {} /\ answers = {} /\ stored = 0 /\ leader = TRUE
    /\ entries = has /\ pager = [Started EXCEPT !.initial = has]
    /\ durable = [exists |-> FALSE, made |-> "none", a |-> 0, b |-> 0]
    /\ managers = [m \in Managers |-> Idle([id |-> 0])] /\ asked = {}
    /\ changes = 0
ApiInit == \E u \in ApiUses : \E has \in (IF u.listing = "none" THEN {{}} ELSE SUBSET Entries) : ApiState(u, has)
ApiUnused ==
    ApiState([listing |-> "none", unique |-> "no", publishes |-> 0, retries |-> 0, manages |-> 0, changes |-> 0], {})

Changes == changes < apiUse.changes /\ changes' = changes + 1
----
(***************************************************************************)
(* publish().                                                              *)
(***************************************************************************)
publishing == <<entries, pager, durable, managers, asked, apiUse>>

Sends(p) ==
    /\ pub' = [p EXCEPT !.id = @ + 1, !.state = "wait"]
    /\ requests' = requests \union {pub.id + 1}

publish ==
    /\ pub.state \in {"idle", "rejected"} /\ pub.calls < apiUse.publishes
    /\ Sends([pub EXCEPT !.calls = @ + 1, !.try = 0])
    /\ UNCHANGED <<publishing, answers, stored, leader, changes>>

\* External: the stream stores the message, unless it knows its id or is not at
\* the sequence that is expected; nobody answers while there is no leader.
Store(i) ==
    /\ i \in requests /\ requests' = requests \ {i}
    /\ LET known == apiUse.unique # "no" /\ stored > 0
           code == IF ~leader THEN "503" ELSE IF known /\ apiUse.unique = "expect" THEN "error" ELSE "ok"
       IN  /\ answers' = answers \union {[id |-> i, code |-> code]}
           /\ stored' = IF leader /\ ~known THEN stored + 1 ELSE stored
    /\ UNCHANGED <<publishing, pub, leader, changes>>

LeaderChanges ==
    /\ apiUse.publishes > 0 /\ Changes /\ leader' = ~leader
    /\ UNCHANGED <<publishing, pub, requests, answers, stored>>

\* Mutant of Retried: a timeout is tried again, as _request() does.
Retried_Always(code) == code \in {"503", "timeout"} /\ pub.try + 1 < apiUse.retries

\* An error is tried again when it says that nobody took the request.
Retried(code) == code = "503" /\ pub.try + 1 < apiUse.retries

Fails(code) == pub' = [pub EXCEPT !.state = IF Retried(code) THEN "delay" ELSE "rejected"]

\* The answer of this request; later ones find no request.
Answered(m) ==
    /\ m \in answers /\ answers' = answers \ {m}
    /\ IF pub.state # "wait" \/ pub.id # m.id THEN UNCHANGED pub
       ELSE IF m.code = "ok" THEN pub' = [pub EXCEPT !.state = "resolved"] ELSE Fails(m.code)
    /\ UNCHANGED <<publishing, requests, stored, leader, changes>>

TimesOut ==
    /\ pub.state = "wait" /\ Fails("timeout")
    /\ UNCHANGED <<publishing, requests, answers, stored, leader, changes>>

Delayed ==
    /\ pub.state = "delay" /\ Sends([pub EXCEPT !.try = @ + 1])
    /\ UNCHANGED <<publishing, answers, stored, leader, changes>>
----
(***************************************************************************)
(* Lister.next() and streams.info(): one page after the other.             *)
(***************************************************************************)
paging == <<apiUse, pub, requests, answers, stored, leader, durable, managers, asked>>
Before(e) == Cardinality({x \in entries : x < e})
Page(offset) == {e \in entries : Before(e) \in offset .. (offset + PageLimit - 1)}

\* The filter of the lister: listKvs() keeps the streams of buckets.
filter(page) == IF apiUse.listing = "kvs" THEN page \intersect Kvs ELSE page

\* The iterator of a lister ends with the first page that gives nothing.
next(p, page, total) ==
    [p EXCEPT !.total = total, !.offset = @ + Cardinality(page), !.got = @ \union filter(page),
              !.cut = filter(page) = {} /\ p.offset + Cardinality(page) < total,
              !.state = IF filter(page) = {} \/ p.offset + Cardinality(page) >= total THEN "ended" ELSE "ask"]

\* Mutant of info: the total is that of the first page.
info_Total(p, page, total) ==
    LET have == p.have + Cardinality(page)
        all  == IF p.page = 0 THEN total ELSE p.total
    IN  [p EXCEPT !.total = all, !.have = have, !.page = @ + 1,
                  !.offset = PageLimit * (p.page + 1), !.got = @ \union page,
                  !.state = IF page = {} /\ p.page > 0 THEN "failed"
                            ELSE IF all > have /\ (p.page = 0 \/ Cardinality(page) = PageLimit)
                            THEN "ask" ELSE "ended"]

\* info() goes on as long as the total of the last answer tells of more and its
\* page was full; a page beyond the first without subjects throws.
info(p, page, total) ==
    LET have == p.have + Cardinality(page)
    IN  [p EXCEPT !.total = total, !.have = have, !.page = @ + 1,
                  !.offset = PageLimit * (p.page + 1), !.got = @ \union page,
                  !.state = IF page = {} /\ p.page > 0 THEN "failed"
                            ELSE IF total > have /\ (p.page = 0 \/ Cardinality(page) = PageLimit)
                            THEN "ask" ELSE "ended"]

NextPage ==
    /\ apiUse.listing # "none" /\ pager.state = "ask"
    /\ LET page == Page(pager.offset)
       IN  pager' = IF apiUse.listing = "info" THEN info(pager, page, Cardinality(entries))
                                               ELSE next(pager, page, Cardinality(entries))
    /\ UNCHANGED <<paging, entries, changes>>

PageFails ==
    /\ apiUse.listing # "none" /\ pager.state = "ask" /\ Changes
    /\ pager' = [pager EXCEPT !.state = "failed"]
    /\ UNCHANGED <<paging, entries>>

\* Other clients add and remove entries.
Added(e) ==
    /\ apiUse.listing # "none" /\ e \notin entries /\ Changes
    /\ entries' = entries \union {e}
    /\ UNCHANGED <<paging, pager>>

Removed(e) ==
    /\ apiUse.listing # "none" /\ e \in entries /\ Changes
    /\ entries' = entries \ {e} /\ pager' = [pager EXCEPT !.removed = TRUE]
    /\ UNCHANGED paging
----
(***************************************************************************)
(* consumers.add(), update() and delete() of managers at the same time,    *)
(* each a _request() or two.                                               *)
(***************************************************************************)
managing == <<apiUse, pub, requests, answers, stored, leader, entries, pager>>

\* A request of a manager: what it asks for, under an id of its own.
Asked(m) ==
    LET q == managers'[m] IN {[by |-> m, op |-> q.op, action |-> q.action, a |-> q.a, b |-> q.b, id |-> q.id]}
_request(m, op, action, a, b) ==
    managers' = [managers EXCEPT ![m] = [op |-> op, action |-> action, a |-> a, b |-> b, id |-> @.id + 1]]

Manage(m) ==
    /\ managers[m].op = "none" /\ changes < apiUse.manages /\ changes' = changes + 1
    /\ \E op \in {"add", "delete", "info"} : _request(m, op, "create", 0, 0)
    /\ asked' = asked \union Asked(m)
    /\ UNCHANGED <<managing, durable>>

\* Mutant of update: the default action of add().
update_Create(m, config) == _request(m, "update", "create", config.a, config.b)

\* update(), once info() found the consumer: its config is changed and written
\* back with the action "update".
update(m, config) == _request(m, "update", "update", config.a, config.b)

\* External: an add with the action "create" finds nothing or the same config,
\* one with "update" finds the consumer.
ServerAdds(r) ==
    CASE r.action = "create" /\ ~durable.exists -> [exists |-> TRUE, made |-> r.op, a |-> r.a, b |-> r.b]
      [] r.action = "update" /\ durable.exists -> [durable EXCEPT !.a = r.a, !.b = r.b]
      [] OTHER -> durable
ServerDeletes == [durable EXCEPT !.exists = FALSE, !.made = "none"]

\* The answer to a manager that still waits for it; info() rejects when there is
\* no consumer.
Replied(r) ==
    IF r.op = "info" /\ durable.exists
    THEN \E v \in {"a", "b"} :
            /\ update(r.by, [[a |-> durable.a, b |-> durable.b] EXCEPT ![v] = 1])
            /\ asked' = (asked \ {r}) \union Asked(r.by)
    ELSE managers' = [managers EXCEPT ![r.by] = Idle(@)] /\ asked' = asked \ {r}

\* The server takes a request, also one that was given up; its answer may be lost.
ServerManages(r) ==
    /\ r \in asked
    /\ durable' = CASE r.op \in {"add", "update"} -> ServerAdds(r)
                    [] r.op = "delete" -> ServerDeletes
                    [] r.op = "info" -> durable
    /\ \/ managers[r.by].id = r.id /\ managers[r.by].op # "none" /\ Replied(r)
       \/ asked' = asked \ {r} /\ UNCHANGED managers
    /\ UNCHANGED <<managing, changes>>

\* _request() rejects when nobody took the request or no answer came; the
\* requests of a manager do not ask for retries.
RequestFails(m) ==
    /\ managers[m].op # "none" /\ changes < apiUse.manages /\ changes' = changes + 1
    /\ managers' = [managers EXCEPT ![m] = Idle(@)]
    /\ UNCHANGED <<managing, durable, asked>>
----
ApiNext ==
    \/ publish \/ LeaderChanges \/ TimesOut \/ Delayed
    \/ \E i \in requests : Store(i)
    \/ \E m \in answers : Answered(m)
    \/ NextPage \/ PageFails
    \/ \E e \in Entries : Added(e) \/ Removed(e)
    \/ \E m \in Managers : Manage(m) \/ RequestFails(m)
    \/ \E r \in asked : ServerManages(r)

ApiSpec == ApiInit /\ [][ApiNext]_apiVars
----
\* A call of publish() stores its message once at most, however often it is
\* tried and however late an answer is; with a message id, or the sequence it
\* expects, calling it again stores nothing either; and a call that resolves has
\* stored it (jsclient.ts publish()).
PublishOnce ==
    /\ stored <= (IF apiUse.unique = "no" THEN pub.calls ELSE 1)
    /\ pub.state = "resolved" => stored > 0

\* A list that comes to its end has all that was there when it began, although
\* others are added between the pages, which moves the rest to later pages and
\* raises the total. Removals move entries to pages already read, and a lister
\* with a filter stops at a page of which the filter keeps nothing
\* (jslister.ts next(), jsmstream_api.ts info(), listKvs()).
PagesComplete ==
    pager.state = "ended" /\ ~pager.removed /\ ~pager.cut => filter(pager.initial) \subseteq pager.got

\* update() changes a consumer that exists: one that is deleted between its two
\* requests, or before one of them that was given up arrives, is not made again
\* (jsmconsumer_api.ts update(), jsbaseclient_api.ts _request()).
DeletedStaysDeleted == durable.exists => durable.made = "add"
====
