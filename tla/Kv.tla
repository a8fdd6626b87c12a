----------------------------------- MODULE Kv -----------------------------------
(***************************************************************************)
(* The key-value bucket (jetstream/kv.ts): clients that call its           *)
(* operations at the same time, and a watcher of the bucket. The bucket is *)
(* a stream with a subject per key; it, its consumers and the requests are *)
(* external and modelled by what the code relies on: a publish may carry   *)
(* the last sequence it expects of its subject, a rollup replaces what the *)
(* subject had, and the stream keeps a number of messages per subject.     *)
(* Keys are atoms: their encoding and validation are left out.             *)
(***************************************************************************)
EXTENDS Integers, Sequences, FiniteSets, FiniteSetsExt

CONSTANTS
  Keys, Clients,
  KvUses,        \* operations that are used together, by which clients, and a bound
                 \* on the requests that time out
  BucketOptions, \* the options of the bucket, what the server can do, and the stream it
                 \* finds, if any
  MaxRev         \* bound: messages published

ASSUME KvAssumption == MaxRev \in Nat

VARIABLES
  kvUse,      \* the operations of this behaviour
  log,        \* the stream: its messages by revision
  seq,        \* its last sequence
  calls,      \* what each client is doing
  watcher,    \* a watch() of every key
  timeouts

kvars == <<kvUse, log, seq, calls, watcher, timeouts>>

Operations ==
  {"put", "create", "update", "delete", "deleteIf", "purge", "get", "deleteAll", "purgeDeletes",
   "purgeBucket", "watch", "ignoreDeletes", "history", "updates", "keys"}
----------------------------------------------------------------------------
(* init(): the stream is created from the options, or taken as it is found. *)
init(o) ==
  LET direct == IF o.allow_direct = "unset" THEN o.features.allow_direct ELSE o.allow_direct
      sc == [max_msgs_per_subject |-> o.history, allow_direct |-> direct]
      info == IF o.found.exists THEN o.found.config ELSE sc
  IN [max_msgs_per_subject |-> info.max_msgs_per_subject, direct |-> direct /\ info.allow_direct]
Bucket == init(BucketOptions)

(* The stream. *)
Revs(k) == {r \in DOMAIN log : log[r].key = k}
Rev(k) == IF Revs(k) = {} THEN 0 ELSE Max(Revs(k))
Operation(k) == IF Rev(k) = 0 THEN "none" ELSE log[Rev(k)].op
Without(rs) == [r \in DOMAIN log \ rs |-> log[r]]

(* What a message on the subject of k discards. *)
Discarded(k, op) ==
  IF op = "PURGE" THEN Revs(k)
  ELSE {r \in Revs(k) : Cardinality({q \in Revs(k) : q > r}) + 1 >= Bucket.max_msgs_per_subject}

Store(k, op, by, want) ==
  /\ seq < MaxRev /\ seq' = seq + 1
  /\ LET message == [key |-> k, op |-> op, by |-> by, want |-> want, prev |-> Rev(k), prevop |-> Operation(k)]
     IN log' = [r \in (DOMAIN log \ Discarded(k, op)) \cup {seq + 1} |->
                 IF r = seq + 1 THEN message ELSE log[r]]
----------------------------------------------------------------------------
(* A call: its phase, the revision it expects, and those the client knows. *)
Returned(k, r) == [op |-> "none", key |-> k, phase |-> "idle", expect |-> -1, todo |-> {}, rev |-> r]
Idle == Returned("none", 0)

NoWatch == [phase |-> "off", content |-> "none", initial |-> {}, todo |-> {}, from |-> 0, wire |-> <<>>,
            fn |-> "none", count |-> 0, got |-> {}, queue |-> <<>>, yielded |-> {}, done |-> FALSE]

Empty ==
  /\ log = [r \in {} |-> 0] /\ seq = 0 /\ timeouts = 0
  /\ calls = [c \in Clients |-> Idle] /\ watcher = NoWatch
KvInit == Empty /\ kvUse \in KvUses
KvUnused == Empty /\ kvUse = [ops |-> {}, clients |-> {}, timeouts |-> 0]

Call(c, op) == op \in kvUse.ops /\ c \in kvUse.clients /\ calls[c].phase = "idle"
Begin(c, call) == calls' = [calls EXCEPT ![c] = call]
Calling(op, k, phase, expect, todo) ==
  [op |-> op, key |-> k, phase |-> phase, expect |-> expect, todo |-> todo, rev |-> 0]
Publish(op, k, expect) == Calling(op, k, "publish", expect, {})

put(c, k) == Call(c, "put") /\ Begin(c, Publish("put", k, -1))

(* create(): put() with previousSeq 0; when the key had a message, see     *)
(* whether that was a delete.                                              *)
create(c, k) == Call(c, "create") /\ Begin(c, Publish("create", k, 0))

update(c) ==
  /\ Call(c, "update") /\ calls[c].rev > 0
  /\ Begin(c, Publish("update", calls[c].key, calls[c].rev))

delete(c, k) == \E op \in {"delete", "purge"} : Call(c, op) /\ Begin(c, Publish(op, k, -1))

deleteIf(c) ==
  /\ Call(c, "deleteIf") /\ calls[c].rev > 0
  /\ Begin(c, Publish("deleteIf", calls[c].key, calls[c].rev))

get(c, k) == Call(c, "get") /\ Begin(c, Calling("get", k, "get", -1, {}))

(* _deleteOrPurge() of a wildcard: the keys are listed, then deleted.      *)
deleteAll(c) ==
  /\ Call(c, "deleteAll")
  /\ LET ks == {k \in Keys : Operation(k) = "PUT"} IN
     /\ ks # {}
     /\ \E k \in ks : Begin(c, Calling("deleteAll", k, "publish", -1, ks \ {k}))

(* purgeDeletes(): the deletes are listed by a watch(), and the subjects   *)
(* purged, keeping the last message of those deleted lately.               *)
purgeDeletes(c) ==
  /\ Call(c, "purgeDeletes")
  /\ Begin(c, Calling("purgeDeletes", "none", "purging", -1,
                      {k \in Keys : Operation(k) \in {"DEL", "PURGE"}}))

(* purgeBucket(): the stream is purged. *)
purgeBucket(c) ==
  /\ Call(c, "purgeBucket") /\ log' = [r \in {} |-> 0]
  /\ UNCHANGED <<kvUse, seq, calls, watcher, timeouts>>

Calls(c) ==
  /\ \/ \E k \in Keys : put(c, k) \/ create(c, k) \/ delete(c, k) \/ get(c, k)
     \/ update(c) \/ deleteIf(c) \/ deleteAll(c) \/ purgeDeletes(c)
  /\ UNCHANGED <<kvUse, log, seq, watcher, timeouts>>
----------------------------------------------------------------------------
Op(call) ==
  CASE call.op \in {"put", "create", "update"} -> "PUT"
    [] call.op \in {"delete", "deleteIf", "deleteAll"} -> "DEL"
    [] OTHER -> "PURGE"

(* The stream takes the message, or refuses it because of the sequence.    *)
Stored(c) ==
  LET call == calls[c] IN
  /\ call.phase = "publish"
  /\ IF call.expect \in {-1, Rev(call.key)}
     THEN /\ Store(call.key, Op(call), call.op, call.expect)
          /\ calls' = [calls EXCEPT ![c].phase = "acked", ![c].rev = seq + 1]
     ELSE calls' = [calls EXCEPT ![c].phase = "refused"] /\ UNCHANGED <<log, seq>>
  /\ UNCHANGED <<kvUse, watcher, timeouts>>

(* The answer: the call returns, or create() looks at what is there.       *)
Answered(c) ==
  LET call == calls[c] IN
  /\ call.phase \in {"acked", "refused"}
  /\ calls' = [calls EXCEPT ![c] =
       CASE call.phase = "refused" /\ call.op = "create" /\ call.expect = 0 -> [call EXCEPT !.phase = "get"]
         [] call.todo # {} -> [call EXCEPT !.phase = "publish", !.key = CHOOSE k \in call.todo : TRUE,
                                           !.todo = @ \ {CHOOSE k \in call.todo : TRUE}]
         [] OTHER -> Returned(call.key, IF call.phase = "acked" THEN call.rev ELSE 0)]
  /\ UNCHANGED <<kvUse, log, seq, watcher, timeouts>>

(* The answer to a get. A direct get may be answered by a replica that is  *)
(* behind: with any message of the key, or none. create() goes on to       *)
(* update() a delete, and rejects otherwise.                               *)
(* Faulty variant: create() does not compare the revision it read. *)
Got_Blind(c) ==
  LET call == calls[c] IN
  /\ call.phase = "get"
  /\ \E r \in {Rev(call.key)} \cup (IF Bucket.direct THEN Revs(call.key) \cup {0} ELSE {}) :
       calls' = [calls EXCEPT ![c] =
         IF call.op = "create" /\ r # 0 /\ log[r].op \in {"DEL", "PURGE"}
         THEN [call EXCEPT !.phase = "publish", !.expect = -1]
         ELSE Returned(call.key, IF call.op = "get" THEN r ELSE 0)]
  /\ UNCHANGED <<kvUse, log, seq, watcher, timeouts>>
Got(c) ==
  LET call == calls[c] IN
  /\ call.phase = "get"
  /\ \E r \in {Rev(call.key)} \cup (IF Bucket.direct THEN Revs(call.key) \cup {0} ELSE {}) :
       calls' = [calls EXCEPT ![c] =
         IF call.op = "create" /\ r # 0 /\ log[r].op \in {"DEL", "PURGE"}
         THEN [call EXCEPT !.phase = "publish", !.expect = r]
         ELSE Returned(call.key, IF call.op = "get" THEN r ELSE 0)]
  /\ UNCHANGED <<kvUse, log, seq, watcher, timeouts>>

(* The request fails, before or after the stream took it. *)
Timeout(c) ==
  /\ calls[c].phase \notin {"idle", "purging"} /\ timeouts < kvUse.timeouts /\ timeouts' = timeouts + 1
  /\ calls' = [calls EXCEPT ![c] = Idle]
  /\ UNCHANGED <<kvUse, log, seq, watcher>>

(* One of the purges of purgeDeletes(): the subject of an old delete is    *)
(* emptied, that of a recent one keeps its last message.                   *)
Purged(c) ==
  /\ calls[c].phase = "purging"
  /\ \/ /\ calls[c].todo = {} /\ calls' = [calls EXCEPT ![c] = Idle] /\ UNCHANGED log
     \/ \E k \in calls[c].todo : \E keep \in {{}, {Rev(k)}} :
          /\ calls' = [calls EXCEPT ![c].todo = @ \ {k}]
          /\ log' = Without(Revs(k) \ keep)
  /\ UNCHANGED <<kvUse, seq, watcher, timeouts>>
----------------------------------------------------------------------------
(* watch(), history() and keys(): the consumer is created and its info on  *)
(* the way to the client while it delivers already.                        *)
Contents == {"watch", "history", "updates", "keys"}

(* _buildCC(): what the deliver policy makes the consumer begin with.      *)
buildCC(content) ==
  CASE content = "updates" -> {}
    [] content = "history" -> DOMAIN log
    [] OTHER -> {Rev(k) : k \in {q \in Keys : Rev(q) # 0}}

watch ==
  /\ watcher.phase = "off"
  /\ \E content \in Contents \cap kvUse.ops :
       watcher' = [watcher EXCEPT !.phase = "creating", !.content = content, !.fn = "set",
                                  !.initial = buildCC(content), !.todo = buildCC(content), !.from = seq]
  /\ UNCHANGED <<kvUse, log, seq, calls, timeouts>>

Next1(todo) == {r \in DOMAIN log : r \in todo \/ r > watcher.from}

(* External: the consumer delivers; a message that is gone is skipped.     *)
Deliver ==
  /\ watcher.phase # "off" /\ ~watcher.done /\ Next1(watcher.todo) # {}
  /\ LET r == Min(Next1(watcher.todo)) IN
     watcher' = [watcher EXCEPT
       !.todo = {q \in @ : q > r}, !.from = IF r > @ THEN r ELSE @,
       !.wire = Append(@, [rev |-> r, op |-> log[r].op, pending |-> Cardinality(Next1(watcher.todo)) - 1])]
  /\ UNCHANGED <<kvUse, log, seq, calls, timeouts>>

(* The callback of the subscription. keys() reads until nothing pends; the *)
(* others count, and queue initializedFn, or the end of history(), behind  *)
(* the last of the initial values. history() does so at every message that *)
(* has none pending: when its end is queued already, what it pushes is     *)
(* undefined.                                                              *)
Push(w, e) == IF w.done THEN w ELSE [w EXCEPT !.queue = Append(@, e)]
Fn == [rev |-> 0, op |-> "fn"]
Undefined == [rev |-> 0, op |-> "undefined"]
jmToEntry(m) == [rev |-> m.rev, op |-> m.op]
keys(w, m) == IF m.pending = 0 THEN Push([w EXCEPT !.fn = "queued"], Fn) ELSE w

received(w, m) ==
  LET p == [Push(w, jmToEntry(m)) EXCEPT !.got = @ \cup {m.rev}]
      enough == m.pending = 0 \/ (p.count > 0 /\ Cardinality(p.got) >= p.count)
  IN CASE w.content = "keys" -> keys(p, m)
       [] "ignoreDeletes" \in kvUse.ops /\ m.op = "DEL" -> w
       [] w.fn = "set" /\ enough -> Push([p EXCEPT !.fn = "queued"], Fn)
       [] w.content = "history" /\ w.fn # "set" /\ m.pending = 0 -> Push(p, Undefined)
       [] OTHER -> p

OnMessage ==
  /\ watcher.wire # <<>>
  /\ watcher' = received([watcher EXCEPT !.wire = Tail(@)], Head(watcher.wire))
  /\ UNCHANGED <<kvUse, log, seq, calls, timeouts>>

(* The subscription is there, with the info of its consumer as created:    *)
(* when all it announced was received, initializedFn is called.            *)
Run(w) == [w EXCEPT !.fn = "called", !.done = w.content \in {"history", "keys"}]
(* Faulty variant: a watch that finds nothing waits for the first value. *)
Subscribed_Never ==
  /\ watcher.phase = "creating"
  /\ watcher' = [watcher EXCEPT !.phase = "on", !.count = Cardinality(watcher.initial)]
  /\ UNCHANGED <<kvUse, log, seq, calls, timeouts>>
Subscribed ==
  /\ watcher.phase = "creating"
  /\ LET expect == Cardinality(watcher.initial)
         w == [watcher EXCEPT !.phase = "on"]
     IN watcher' = CASE w.fn # "set" -> w
                     [] w.content = "keys" -> IF expect = 0 THEN Run(w) ELSE w
                     [] expect = 0 \/ Cardinality(w.got) >= expect -> Run(w)
                     [] OTHER -> [w EXCEPT !.count = expect]
  /\ UNCHANGED <<kvUse, log, seq, calls, timeouts>>

(* The iterator, which the user has when watch() returned. *)
Iterate ==
  /\ watcher.phase = "on" /\ watcher.queue # <<>> /\ ~watcher.done
  /\ LET e == Head(watcher.queue)
         w == [watcher EXCEPT !.queue = Tail(@)]
     IN watcher' = IF e = Fn THEN Run(w) ELSE [w EXCEPT !.yielded = @ \cup {e.rev}]
  /\ UNCHANGED <<kvUse, log, seq, calls, timeouts>>

Stop ==
  /\ watcher.phase = "on" /\ watcher.content \in {"watch", "updates"} /\ watcher.fn = "called" /\ ~watcher.done
  /\ watcher' = [watcher EXCEPT !.done = TRUE, !.wire = <<>>, !.queue = <<>>]
  /\ UNCHANGED <<kvUse, log, seq, calls, timeouts>>
----------------------------------------------------------------------------
KvNext ==
  \/ \E c \in Clients :
       Calls(c) \/ purgeBucket(c) \/ Stored(c) \/ Answered(c) \/ Got(c) \/ Timeout(c) \/ Purged(c)
  \/ watch \/ Deliver \/ OnMessage \/ Subscribed \/ Iterate \/ Stop

KvSpec == KvInit /\ [][KvNext]_kvars

(* The consumer delivers, the event loop runs, the user reads. *)
KvFairness ==
  WF_kvars(Deliver) /\ WF_kvars(OnMessage) /\ WF_kvars(Subscribed) /\ WF_kvars(Iterate)
----------------------------------------------------------------------------
(* A create() takes effect only on a key that had no value at that moment, *)
(* and an update() or a conditional delete only on the revision the client *)
(* had read, whatever other clients do between its requests, and however   *)
(* stale its reads are (kv.ts create(), update(), _doDeleteOrPurge()).     *)
CompareAndSet ==
  \A r \in DOMAIN log :
    /\ log[r].by = "create" => log[r].prevop # "PUT"
    /\ log[r].by \in {"update", "deleteIf"} => log[r].prev = log[r].want

(* initializedFn is called, and history() and keys() end, although values  *)
(* are replaced while they are delivered and may arrive before the info of *)
(* the consumer; and by then each value the bucket had when the watch was  *)
(* set up was received, unless it was replaced meanwhile (kv.ts watch(),   *)
(* history(), keys()).                                                     *)
WatchInitializes ==
  /\ [](watcher.fn \in {"queued", "called"} => watcher.initial \cap DOMAIN log \subseteq watcher.got)
  /\ watcher.phase = "creating" ~> watcher.fn = "called"
=============================================================================
