------------------------------ MODULE ObjectStore ------------------------------
(***************************************************************************)
(* The object store (jetstream/objectstore.ts): an object is a number of   *)
(* chunks under a nuid and, behind them, the meta message that makes it    *)
(* live. Clients put, get, delete, update and link objects at the same     *)
(* time and each operation is several requests, any of which may fail. The *)
(* stream is external. Every object has the same number of chunks; a       *)
(* digest tells whether all of them were read.                             *)
(***************************************************************************)
EXTENDS Integers, Sequences, FiniteSets, TLC

CONSTANTS
  Names, Users,
  Chunks,     \* chunks of an object
  OsUses,     \* operations that are used together, by whom, and what may fail
  MaxNuid,    \* bound: objects put
  MaxMeta,    \* bound: meta messages when an operation begins
  MaxErrors   \* bound: requests that fail

VARIABLES
  osUse,   \* the operations of this behaviour
  meta,    \* the meta messages of the stream, by name
  chunks,  \* the chunks of the stream, by nuid
  nuid,    \* the last nuid
  metaSeq, \* the sequence of the last meta message
  users,   \* what each user is doing
  lister,  \* a list() or watch()
  sealed,
  errors

ovars == <<osUse, meta, chunks, nuid, metaSeq, users, lister, sealed, errors>>

Methods == {"put", "putIf", "delete", "update", "rename", "link", "get", "seal", "list", "updates"}
----------------------------------------------------------------------------
(* The server's view of an object, with the name it links to. *)
ObjectInfo(id, rev) == [nuid |-> id, chunks |-> Chunks, deleted |-> FALSE, link |-> "none", rev |-> rev]
Absent == [nuid |-> 0, chunks |-> 0, deleted |-> FALSE, link |-> "none", rev |-> 0]
Link(n, rev) == [Absent EXCEPT !.link = n, !.rev = rev]
IsLive(i) == i.rev > 0 /\ ~i.deleted

Free == [op |-> "none", name |-> "none", to |-> "none", phase |-> "idle", info |-> Absent, id |-> 0,
         flight |-> 0, got |-> 0, result |-> "none"]
NoList == [phase |-> "off", seen |-> <<>>, todo |-> {}, pushed |-> {}, initial |-> {},
           initialized |-> FALSE, ended |-> FALSE]

Nothing ==
  /\ meta = [n \in Names |-> Absent] /\ chunks = [i \in 1..MaxNuid |-> 0] /\ nuid = 0 /\ metaSeq = 0 /\ sealed = FALSE
  /\ users = [u \in Users |-> Free] /\ lister = NoList /\ errors = 0
OsInit == Nothing /\ osUse \in OsUses
OsUnused == Nothing /\ osUse = [ops |-> {}, users |-> {}, errors |-> {}]

Rest == <<osUse, lister, sealed>>
Revision == metaSeq + 1
Set(u, s) == users' = [users EXCEPT ![u] = s]
Fails(kind) == kind \in osUse.errors /\ errors < MaxErrors /\ errors' = errors + 1
Purge(id) == chunks' = [chunks EXCEPT ![id] = 0]

(* Every operation on a name begins with rawInfo(). The caller of link()   *)
(* passes the info it has of the object.                                   *)
call(u, op, n, to) ==
  /\ op \in osUse.ops /\ u \in osUse.users /\ users[u].phase = "idle" /\ metaSeq < MaxMeta
  /\ Set(u, [Free EXCEPT !.op = op, !.name = n, !.to = to, !.phase = "info",
                         !.info = IF op = "link" THEN meta[to] ELSE Absent])
  /\ UNCHANGED <<meta, chunks, nuid, metaSeq, errors, Rest>>
OsCalls(u) ==
  \/ \E n \in Names, op \in {"put", "putIf", "delete", "update", "get"} : call(u, op, n, n)
  \/ \E n, to \in Names : n # to /\ (call(u, "rename", n, to) \/ call(u, "link", n, to))

(* _put(): the chunks of a new nuid are published, all at once. *)
_put(u, s, i) ==
  /\ nuid < MaxNuid /\ nuid' = nuid + 1
  /\ Set(u, [s EXCEPT !.info = i, !.id = nuid + 1, !.flight = Chunks, !.phase = "chunks"])

Returns(u, r) == Set(u, [Free EXCEPT !.result = r])
GoesOn(u, s, i) == Set(u, [s EXCEPT !.phase = "meta", !.info = i])

(* get() of an object that is not deleted follows a link. *)
osGet(u, s, i) ==
  CASE ~IsLive(i) -> Returns(u, "null")
    [] IsLive(i) /\ i.link # "none" -> Set(u, [s EXCEPT !.name = i.link])
    [] IsLive(i) /\ i.link = "none" -> Set(u, [s EXCEPT !.phase = "reading", !.info = i])

osDelete(u, s, i) == IF i.rev = 0 THEN Returns(u, "missing") ELSE GoesOn(u, s, i)

(* update() wants an object; for a rename it asks for the new name as well. *)
osUpdate(u, s, i) ==
  CASE ~IsLive(i) -> Returns(u, "error")
    [] IsLive(i) /\ s.op = "rename" -> Set(u, [s EXCEPT !.phase = "newname", !.info = i])
    [] IsLive(i) /\ s.op = "update" -> GoesOn(u, s, i)

(* The answer: the new name has to be free. *)
newName(u) ==
  LET s == users[u] IN
  /\ s.phase = "newname"
  /\ IF IsLive(meta[s.to]) THEN Returns(u, "error") ELSE GoesOn(u, s, s.info)
  /\ UNCHANGED <<meta, chunks, nuid, metaSeq, errors, Rest>>

(* link() wants an object that is no link itself, and a name that is free. *)
link(u, s, i) ==
  IF ~IsLive(s.info) \/ s.info.link # "none" \/ IsLive(i) THEN Returns(u, "error")
  ELSE GoesOn(u, s, i)

(* The answer to rawInfo(). *)
rawInfo(u) ==
  LET s == users[u]
      i == meta[s.name]
  IN
  /\ s.phase = "info"
  /\ CASE s.op \in {"put", "putIf"} -> _put(u, s, i)
       [] s.op = "get" -> osGet(u, s, i) /\ UNCHANGED nuid
       [] s.op = "delete" -> osDelete(u, s, i) /\ UNCHANGED nuid
       [] s.op \in {"update", "rename"} -> osUpdate(u, s, i) /\ UNCHANGED nuid
       [] s.op = "link" -> link(u, s, i) /\ UNCHANGED nuid
  /\ UNCHANGED <<meta, chunks, metaSeq, errors, Rest>>

(* A chunk is stored and acknowledged, even when its put() failed already. *)
ChunkStored(u) ==
  LET s == users[u] IN
  /\ s.flight > 0 /\ ~sealed
  /\ chunks' = [chunks EXCEPT ![s.id] = @ + 1]
  /\ Set(u, [s EXCEPT !.flight = @ - 1,
                      !.phase = IF s.phase = "chunks" /\ s.flight = 1 THEN "meta"
                                ELSE IF s.phase = "failed" /\ s.flight = 1 THEN "idle" ELSE @])
  /\ UNCHANGED <<meta, nuid, metaSeq, errors, Rest>>

(* It is not: the put() gives up, and removes its partials. *)
(* Faulty variant: put() goes on once every chunk was answered. *)
ChunkFails_Settled(u) ==
  LET s == users[u] IN
  /\ s.flight > 0
  /\ IF sealed THEN UNCHANGED errors ELSE Fails("chunk")
  /\ Set(u, [s EXCEPT !.flight = @ - 1, !.phase = IF s.flight = 1 THEN "meta" ELSE @])
  /\ UNCHANGED <<meta, chunks, nuid, metaSeq, Rest>>
ChunkFails(u) ==
  LET s == users[u] IN
  /\ s.flight > 0
  /\ IF sealed THEN UNCHANGED errors ELSE Fails("chunk")
  /\ Set(u, [s EXCEPT !.flight = @ - 1,
                      !.phase = IF s.phase = "chunks" THEN "clean"
                                ELSE IF s.phase = "failed" /\ s.flight = 1 THEN "idle" ELSE @])
  /\ UNCHANGED <<meta, chunks, nuid, metaSeq, Rest>>

(* The meta message: put() and delete() roll it up, with the revision the  *)
(* caller expects in putIf.                                                *)
NewMeta(s) ==
  CASE s.op \in {"put", "putIf"} -> ObjectInfo(s.id, Revision)
    [] s.op = "delete" -> [s.info EXCEPT !.deleted = TRUE, !.chunks = 0, !.rev = Revision]
    [] s.op = "link" -> Link(s.to, Revision)
    [] OTHER -> [s.info EXCEPT !.rev = Revision]
MetaName(s) == IF s.op = "rename" THEN s.to ELSE s.name
Refused(s) == sealed \/ (s.op = "putIf" /\ meta[s.name].rev # s.info.rev)

(* What follows: put() purges the chunks of the object it replaced,        *)
(* delete() those of the object, a rename the old meta.                    *)
After(s) ==
  CASE s.op \in {"put", "putIf"} -> IF s.info.rev = 0 \/ s.info.nuid = 0 THEN "idle" ELSE "purge"
    [] s.op = "delete" -> IF s.info.nuid = 0 THEN "idle" ELSE "purge"
    [] s.op = "rename" -> "unname"
    [] OTHER -> "idle"

MetaStored(u) ==
  LET s == users[u] IN
  /\ s.phase = "meta" /\ ~Refused(s)
  /\ meta' = [meta EXCEPT ![MetaName(s)] = NewMeta(s)] /\ metaSeq' = Revision
  /\ Set(u, [s EXCEPT !.phase = After(s)])
  /\ UNCHANGED <<chunks, nuid, errors, Rest>>

Failed(u, s) == Set(u, [s EXCEPT !.phase = IF s.op \in {"put", "putIf"} THEN "clean" ELSE "idle"])

MetaFails(u) ==
  LET s == users[u] IN
  /\ s.phase = "meta" /\ Failed(u, s)
  /\ \/ Refused(s) /\ UNCHANGED <<meta, metaSeq, errors>>
     \/ ~Refused(s) /\ Fails("meta") /\ UNCHANGED <<meta, metaSeq>>
     \/ /\ ~Refused(s) /\ Fails(IF s.op \in {"put", "putIf"} THEN "putAck" ELSE "ack")
        /\ meta' = [meta EXCEPT ![MetaName(s)] = NewMeta(s)] /\ metaSeq' = Revision
  /\ UNCHANGED <<chunks, nuid, Rest>>

(* The purges, which may fail; put() does not mind for the old chunks.     *)
OsPurged(u) ==
  LET s == users[u] IN
  /\ s.phase \in {"purge", "clean", "unname"} /\ ~sealed
  /\ CASE s.phase = "purge" -> Purge(s.info.nuid) /\ UNCHANGED meta
       [] s.phase = "clean" -> Purge(s.id) /\ UNCHANGED meta
       [] s.phase = "unname" -> meta' = [meta EXCEPT ![s.name] = Absent] /\ UNCHANGED chunks
  /\ Set(u, IF s.flight > 0 THEN [s EXCEPT !.phase = "failed"] ELSE Free)
  /\ UNCHANGED <<nuid, metaSeq, errors, Rest>>

PurgeFails(u) ==
  LET s == users[u] IN
  /\ s.phase \in {"purge", "clean", "unname"}
  /\ IF sealed THEN UNCHANGED errors ELSE Fails("purge")
  /\ Set(u, IF s.flight > 0 THEN [s EXCEPT !.phase = "failed"] ELSE Free)
  /\ UNCHANGED <<meta, chunks, nuid, metaSeq, Rest>>

(* get(): the chunks of the nuid, until nothing pends, against the digest. *)
Read(u) ==
  LET s == users[u] IN
  /\ s.phase = "reading" /\ s.got < chunks[s.info.nuid]
  /\ Set(u, IF s.got + 1 < chunks[s.info.nuid] THEN [s EXCEPT !.got = @ + 1]
            ELSE [Free EXCEPT !.result = IF s.got + 1 = s.info.chunks THEN "object" ELSE "corrupt"])
  /\ UNCHANGED <<meta, chunks, nuid, metaSeq, errors, Rest>>

(* The user cancels the stream of a get(). *)
Cancel(u) ==
  /\ users[u].phase = "reading" /\ Set(u, Free)
  /\ UNCHANGED <<meta, chunks, nuid, metaSeq, errors, Rest>>

seal ==
  /\ "seal" \in osUse.ops /\ ~sealed /\ sealed' = TRUE
  /\ UNCHANGED <<osUse, meta, chunks, nuid, metaSeq, users, lister, errors>>
----------------------------------------------------------------------------
(* watch(), for list() or for updates only: a null tells that the initial  *)
(* objects were given. An empty store is asked for first.                  *)
Known == {n \in Names : meta[n].rev > 0}
Listing == lister.phase # "off"
ListOnly == <<osUse, meta, chunks, nuid, metaSeq, users, sealed, errors>>

osWatch ==
  /\ lister.phase = "off"
  /\ \E op \in {"list", "updates"} \cap osUse.ops :
       lister' = [lister EXCEPT !.phase = "subscribe", !.initialized = Known = {} \/ op = "updates",
                                !.ended = Known = {} /\ op = "list"]
  /\ UNCHANGED ListOnly

(* deliverLastPerSubject(), or deliverNew() when initialized at once.      *)
OsSubscribed ==
  /\ lister.phase = "subscribe"
  /\ lister' = [lister EXCEPT !.phase = "on",
                  !.todo = IF lister.initialized THEN {} ELSE Known,
                  !.initial = IF lister.initialized THEN {} ELSE {<<n, meta[n].rev>> : n \in {q \in Known : IsLive(meta[q])}},
                  !.seen = [n \in Names |-> meta[n].rev]]
  /\ UNCHANGED ListOnly

(* A meta message, the last one of its name; deletes are not given.        *)
Pending == {n \in Names : meta[n].rev > 0 /\ (n \in lister.todo \/ meta[n].rev > lister.seen[n])}
(* Faulty variant: a deleted object is skipped before the end is looked for. *)
OnMeta_Skips ==
  /\ lister.phase = "on" /\ ~lister.ended
  /\ \E n \in Pending :
       lister' = [lister EXCEPT
         !.todo = @ \ {n}, !.seen[n] = meta[n].rev,
         !.pushed = IF meta[n].deleted THEN @ ELSE @ \cup {n},
         !.initialized = @ \/ (Pending = {n} /\ ~meta[n].deleted),
         !.ended = ~lister.initialized /\ Pending = {n} /\ ~meta[n].deleted]
  /\ UNCHANGED ListOnly
OnMeta ==
  /\ lister.phase = "on" /\ ~lister.ended
  /\ \E n \in Pending :
       lister' = [lister EXCEPT
         !.todo = @ \ {n}, !.seen[n] = meta[n].rev,
         !.pushed = IF meta[n].deleted THEN @ ELSE @ \cup {n},
         !.initialized = @ \/ Pending = {n},
         !.ended = ~lister.initialized /\ Pending = {n}]
  /\ UNCHANGED ListOnly
----------------------------------------------------------------------------
OsNext ==
  \/ \E u \in Users :
       \/ OsCalls(u) \/ rawInfo(u) \/ newName(u) \/ ChunkStored(u) \/ ChunkFails(u) \/ MetaStored(u) \/ MetaFails(u)
       \/ OsPurged(u) \/ PurgeFails(u) \/ Read(u) \/ Cancel(u)
  \/ seal \/ osWatch \/ OsSubscribed \/ OnMeta

OsSpec == OsInit /\ [][OsNext]_ovars

(* The subscription is set up and its messages are delivered. *)
OsFairness == WF_ovars(OsSubscribed) /\ WF_ovars(OnMeta)
----------------------------------------------------------------------------
(* An object that is live has all its chunks: neither a put() whose chunks *)
(* or whose meta fail half way, nor the clean-up of another one, takes     *)
(* them away. The code has two exceptions, which are kept out of the runs  *)
(* that pass. A put() whose meta is stored but whose answer is lost        *)
(* removes its own chunks, as the run stores_put_ack shows. And update()   *)
(* writes the nuid it has read: after a put() or delete() of another user  *)
(* its chunks are gone, and a rename gives them to two names for a moment, *)
(* in which that user removes them (objectstore.ts _put(), delete(),       *)
(* update()).                                                              *)
LiveComplete ==
  \A n \in Names : IsLive(meta[n]) /\ meta[n].link = "none" => chunks[meta[n].nuid] = meta[n].chunks

(* list() comes to its end, also when the last object was deleted, and     *)
(* then has given every object that was live when it subscribed and that   *)
(* was not replaced since (objectstore.ts list(), watch()).                *)
ListEnds ==
  /\ [](lister.ended => \A i \in lister.initial : meta[i[1]].rev = i[2] => i[1] \in lister.pushed)
  /\ (lister.phase = "subscribe" /\ ~lister.initialized) ~> lister.ended
=============================================================================
