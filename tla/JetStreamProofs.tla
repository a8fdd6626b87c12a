---- MODULE JetStreamProofs ----
(* publish(), the managers of a consumer and the lists of the API, and the *)
(* end of a pull consumer, for any number of calls, retries, changes of    *)
(* the leader, entries, messages and failures.                             *)
EXTENDS JsApi, PullConsumer, FiniteSetTheorems, WellFoundedInduction, TLAPS

-----------------------------------------------------------------------------
(* PublishOnce: publish() and its retries.                                 *)

Codes == {"ok", "error", "503"}
PubStates == {"idle", "wait", "delay", "resolved", "rejected"}
Pubs == [calls : Nat, id : Nat, try : Nat, state : PubStates]

(* The request or the answer that may still lead to a message of this call *)
(* beside those that are on the way.                                       *)
Refused == pub.state = "wait" /\ \E m \in answers : m.id = pub.id /\ m.code = "503"
Again   == IF Refused \/ pub.state = "delay" THEN 1 ELSE 0

(* Each request is answered once, and each call accounts for one message:  *)
(* stored, on its way, or to be asked for again.                           *)
PubInv ==
    /\ pub \in Pubs /\ stored \in Nat
    /\ requests \subseteq 1 .. pub.id /\ answers \subseteq [id : 1 .. pub.id, code : Codes]
    /\ \A m \in answers : m.id \notin requests
    /\ \A m, n \in answers : m.id = n.id => m = n
    /\ \A m \in answers : m.code = "ok" => stored > 0
    /\ pub.state = "resolved" => stored > 0
    /\ apiUse.unique # "no" => stored <= 1
    /\ stored + Cardinality(requests) + Again <= pub.calls

(* Requests are numbered, so only so many are out.                         *)
LEMMA Requests == ASSUME PubInv PROVE IsFiniteSet(requests) /\ Cardinality(requests) \in Nat
<1>1. pub.id \in Nat  BY DEF PubInv, Pubs
<1>2. IsFiniteSet(1 .. pub.id)  BY <1>1, FS_Interval
<1>. QED  BY <1>2, FS_Subset, FS_CardinalityType DEF PubInv

(* Nothing is published at the start.                                      *)
LEMMA PubInit == ASSUME ApiInit PROVE PubInv
<1>1. /\ pub = [calls |-> 0, id |-> 0, try |-> 0, state |-> "idle"] /\ requests = {} /\ answers = {} /\ stored = 0
  BY DEF ApiInit, ApiState
<1>2. pub \in Pubs  BY <1>1 DEF Pubs, PubStates
<1>4. Again = 0  BY <1>1 DEF Again, Refused
<1>3. Cardinality(requests) = 0  BY <1>1, FS_EmptySet
<1>. QED  BY <1>1, <1>2, <1>3, <1>4 DEF PubInv

(* A request is sent: once for a call, and again after each 503.           *)
LEMMA SendsKeeps ==
    ASSUME PubInv, NEW p \in Pubs, Sends(p), p.id = pub.id,
           p.calls = pub.calls + 1 \/ (pub.state = "delay" /\ p.calls = pub.calls),
           pub.state # "wait",
           UNCHANGED <<apiUse, answers, stored>>
    PROVE  PubInv'
<1>1. /\ pub' \in Pubs /\ pub'.id = pub.id + 1 /\ pub'.state = "wait" /\ pub'.calls = p.calls
      /\ requests' = requests \union {pub.id + 1} /\ pub.id \in Nat /\ pub.calls \in Nat
  <2>1. pub \in Pubs /\ pub' = [p EXCEPT !.id = p.id + 1, !.state = "wait"] /\ p.id = pub.id
        /\ requests' = requests \union {pub.id + 1}
    BY DEF Sends, PubInv
  <2>2. pub.id \in Nat /\ pub.calls \in Nat /\ p.calls \in Nat /\ p.try \in Nat  BY <2>1 DEF Pubs
  <2>3. "wait" \in PubStates  BY DEF PubStates
  <2>4. pub' \in Pubs
    <3>1. p.id + 1 \in Nat  BY <2>1, <2>2
    <3>. QED  BY <2>1, <2>3, <3>1 DEF Pubs
  <2>5. /\ pub'.id = pub.id + 1 /\ pub'.state = "wait" /\ pub'.calls = p.calls
    BY <2>1 DEF Pubs
  <2>. QED  BY <2>1, <2>2, <2>4, <2>5
<1>2. pub.id + 1 \notin requests  BY <1>1 DEF PubInv
<1>3. Cardinality(requests') = Cardinality(requests) + 1
  <2>1. IsFiniteSet(requests)  BY Requests
  <2>. QED  BY <1>1, <1>2, <2>1, FS_AddElement
<1>4. ~Refused'
  <2>1. \A m \in answers : m.id # pub.id + 1  BY <1>1 DEF PubInv
  <2>. QED  BY <1>1, <2>1 DEF Refused
<1>5. Again' = 0  BY <1>1, <1>4 DEF Again
<1>6. stored + Cardinality(requests) + Again <= pub.calls /\ Cardinality(requests) \in Nat /\ stored \in Nat
  BY Requests DEF PubInv
<1>7. stored' + Cardinality(requests') + Again' <= pub'.calls
  <2>1. CASE p.calls = pub.calls + 1
    <3>1. Again \in {0, 1}  BY DEF Again
    <3>. QED  BY <1>1, <1>3, <1>5, <1>6, <2>1, <3>1
  <2>2. CASE pub.state = "delay" /\ p.calls = pub.calls
    <3>1. Again = 1  BY <2>2 DEF Again
    <3>. QED  BY <1>1, <1>3, <1>5, <1>6, <2>2, <3>1
  <2>. QED  BY <2>1, <2>2
<1>8. requests' \subseteq 1 .. pub'.id /\ answers' \subseteq [id : 1 .. pub'.id, code : Codes]
      /\ \A m \in answers' : m.id \notin requests'
  <2>1. answers' = answers /\ \A m \in answers : m.id \in 1 .. pub.id /\ m.id \notin requests
    BY DEF PubInv
  <2>2. 1 .. pub.id \subseteq 1 .. pub'.id /\ pub.id + 1 \in 1 .. pub'.id /\ pub.id + 1 \notin 1 .. pub.id
    BY <1>1
  <2>3. requests \subseteq 1 .. pub.id /\ answers \subseteq [id : 1 .. pub.id, code : Codes]  BY DEF PubInv
  <2>4. [id : 1 .. pub.id, code : Codes] \subseteq [id : 1 .. pub'.id, code : Codes]  BY <2>2
  <2>5. \A m \in answers' : m.id \notin requests'  BY <1>1, <2>1, <2>2
  <2>. QED  BY <1>1, <2>1, <2>2, <2>3, <2>4, <2>5
<1>9. pub'.state = "resolved" => stored' > 0  BY <1>1
<1>10. pub' \in Pubs /\ answers' = answers /\ stored' = stored /\ apiUse' = apiUse  BY <1>1
<1>11. /\ \A m, n \in answers' : m.id = n.id => m = n
       /\ \A m \in answers' : m.code = "ok" => stored' > 0
       /\ stored' \in Nat /\ (apiUse'.unique # "no" => stored' <= 1)
  BY <1>10 DEF PubInv
<1>. QED  BY <1>7, <1>8, <1>9, <1>10, <1>11 DEF PubInv

(* The answer to a request puts the message of its call on one side: it is *)
(* stored, it may have to be sent again, or it is not.                     *)
LEMMA StoreKeeps == ASSUME PubInv, NEW i \in requests, Store(i) PROVE PubInv'
<1>. DEFINE known == apiUse.unique # "no" /\ stored > 0
            code  == IF ~leader THEN "503" ELSE IF known /\ apiUse.unique = "expect" THEN "error" ELSE "ok"
            reply == [id |-> i, code |-> code]
<1>1. /\ requests' = requests \ {i} /\ answers' = answers \union {reply} /\ pub' = pub /\ apiUse' = apiUse
      /\ stored' = IF leader /\ ~known THEN stored + 1 ELSE stored
  BY DEF Store, publishing
<1>2. /\ pub \in Pubs /\ stored \in Nat /\ i \in 1 .. pub.id /\ requests \subseteq 1 .. pub.id
      /\ answers \subseteq [id : 1 .. pub.id, code : Codes]
      /\ \A m \in answers : m.id \notin requests
      /\ \A m, n \in answers : m.id = n.id => m = n
      /\ stored + Cardinality(requests) + Again <= pub.calls
  BY DEF PubInv
<1>3. code \in Codes  BY DEF Codes
<1>4. reply \in [id : 1 .. pub.id, code : Codes] /\ reply.id = i /\ reply.code = code  BY <1>2, <1>3
<1>5. code = "ok" => leader /\ (known => stored > 0)  OBVIOUS
<1>6. Cardinality(requests') = Cardinality(requests) - 1
  <2>1. IsFiniteSet(requests)  BY Requests
  <2>. QED  BY <1>1, <2>1, FS_RemoveElement
<1>7. Cardinality(requests) \in Nat /\ pub.calls \in Nat  BY <1>2, Requests DEF Pubs
<1>. HIDE DEF reply, code
<1>8. /\ requests' \subseteq 1 .. pub'.id /\ answers' \subseteq [id : 1 .. pub'.id, code : Codes]
      /\ \A m \in answers' : m.id \notin requests'
  BY <1>1, <1>2, <1>4
<1>9. \A m, n \in answers' : m.id = n.id => m = n
  <2>1. \A m \in answers : m.id # i  BY <1>2
  <2>. QED  BY <1>1, <1>2, <1>4, <2>1
<1>10. /\ stored' \in Nat /\ stored' >= stored /\ (code = "ok" => stored' > 0)
       /\ (apiUse'.unique # "no" => stored' <= 1)
  BY <1>1, <1>2, <1>5 DEF PubInv
<1>11. \A m \in answers' : m.code = "ok" => stored' > 0
  BY <1>1, <1>2, <1>4, <1>10 DEF PubInv
<1>12. stored' + Cardinality(requests') + Again' <= pub'.calls
  <2>1. Refused' => Refused \/ ~leader  BY <1>1, <1>4 DEF Refused, code
  <2>2. Again \in {0, 1} /\ Again' \in {0, 1}  BY DEF Again
  <2>3. CASE leader
    <3>1. Again' <= Again  BY <1>1, <2>1, <2>2, <2>3 DEF Again
    <3>2. stored' <= stored + 1  BY <1>1, <1>2
    <3>. QED  BY <1>1, <1>2, <1>6, <1>7, <1>10, <2>2, <3>1, <3>2
  <2>4. CASE ~leader
    <3>1. stored' = stored  BY <1>1, <2>4
    <3>2. Again' <= Again + 1  BY <2>2
    <3>. QED  BY <1>1, <1>2, <1>6, <1>7, <2>2, <3>1, <3>2
  <2>. QED  BY <2>3, <2>4
<1>13. pub'.state = "resolved" => stored' > 0  BY <1>1, <1>2, <1>10 DEF PubInv
<1>. QED  BY <1>1, <1>2, <1>8, <1>9, <1>10, <1>11, <1>12, <1>13 DEF PubInv

(* An answer, or its absence, moves the call on.                           *)
LEMMA AnsweredKeeps == ASSUME PubInv, NEW m \in answers, Answered(m) PROVE PubInv'
<1>1. /\ answers' = answers \ {m} /\ requests' = requests /\ stored' = stored /\ apiUse' = apiUse
      /\ \/ pub' = pub
         \/ pub.state = "wait" /\ pub.id = m.id /\ m.code = "ok" /\ pub' = [pub EXCEPT !.state = "resolved"]
         \/ pub.state = "wait" /\ pub.id = m.id /\ m.code # "ok" /\ Fails(m.code)
  BY DEF Answered, publishing
<1>2. /\ pub \in Pubs /\ stored \in Nat /\ Cardinality(requests) \in Nat
      /\ stored + Cardinality(requests) + Again <= pub.calls
  BY Requests DEF PubInv
<1>3. Again \in {0, 1} /\ Again' \in {0, 1}  BY DEF Again
<1>4. CASE pub' = pub
  <2>1. Refused' => Refused  BY <1>1, <1>4 DEF Refused
  <2>2. Again' <= Again  BY <1>3, <1>4, <2>1 DEF Again
  <2>3. stored' + Cardinality(requests') + Again' <= pub'.calls
    BY <1>1, <1>2, <1>3, <1>4, <2>2 DEF Pubs
  <2>. QED  BY <1>1, <1>4, <2>3 DEF PubInv
<1>5. CASE pub.state = "wait" /\ pub.id = m.id /\ m.code = "ok" /\ pub' = [pub EXCEPT !.state = "resolved"]
  <2>1. pub' \in Pubs /\ pub'.id = pub.id /\ pub'.calls = pub.calls /\ pub'.state = "resolved"
    BY <1>2, <1>5 DEF Pubs, PubStates
  <2>2. Again' = 0  BY <2>1 DEF Again, Refused
  <2>3. stored > 0  BY <1>5 DEF PubInv
  <2>4. stored' + Cardinality(requests') + Again' <= pub'.calls
    BY <1>1, <1>2, <1>3, <2>1, <2>2 DEF Pubs
  <2>. QED  BY <1>1, <2>1, <2>3, <2>4 DEF PubInv
<1>6. CASE pub.state = "wait" /\ pub.id = m.id /\ m.code # "ok" /\ Fails(m.code)
  <2>1. /\ pub' \in Pubs /\ pub'.id = pub.id /\ pub'.calls = pub.calls
        /\ pub'.state \in {"delay", "rejected"} /\ (pub'.state = "delay" => m.code = "503")
    BY <1>2, <1>6 DEF Pubs, PubStates, Fails, Retried
  <2>2. Again' <= Again
    <3>1. pub'.state = "delay" => Again = 1  BY <1>6, <2>1 DEF Again, Refused
    <3>2. pub'.state = "rejected" => Again' = 0  BY DEF Again, Refused
    <3>. QED  BY <1>3, <2>1, <3>1, <3>2
  <2>3. stored' + Cardinality(requests') + Again' <= pub'.calls
    BY <1>1, <1>2, <1>3, <2>1, <2>2 DEF Pubs
  <2>. QED  BY <1>1, <2>1, <2>3 DEF PubInv
<1>. QED  BY <1>1, <1>4, <1>5, <1>6

(* Nobody answers, and the call is rejected.                               *)
LEMMA TimesOutKeeps == ASSUME PubInv, TimesOut PROVE PubInv'
<1>1. /\ pub.state = "wait" /\ pub' = [pub EXCEPT !.state = "rejected"] /\ answers' = answers
      /\ requests' = requests /\ stored' = stored /\ apiUse' = apiUse
  BY DEF TimesOut, Fails, Retried, publishing
<1>2. /\ pub \in Pubs /\ stored \in Nat /\ Cardinality(requests) \in Nat
      /\ stored + Cardinality(requests) + Again <= pub.calls
  BY Requests DEF PubInv
<1>3. pub' \in Pubs /\ pub'.id = pub.id /\ pub'.calls = pub.calls /\ pub'.state = "rejected"
  BY <1>1, <1>2 DEF Pubs, PubStates
<1>4. Again \in {0, 1} /\ Again' = 0  BY <1>3 DEF Again, Refused
<1>5. stored' + Cardinality(requests') + Again' <= pub'.calls  BY <1>1, <1>2, <1>3, <1>4 DEF Pubs
<1>. QED  BY <1>1, <1>3, <1>5 DEF PubInv

(* Every step keeps the account of the requests.                           *)
LEMMA PubStep == ASSUME PubInv, [ApiNext]_apiVars PROVE PubInv'
<1>1. CASE publish
  <2>. DEFINE p == [pub EXCEPT !.calls = @ + 1, !.try = 0]
  <2>1. pub \in Pubs  BY DEF PubInv
  <2>2. p \in Pubs /\ p.id = pub.id /\ p.calls = pub.calls + 1
    <3>1. pub.calls + 1 \in Nat /\ 0 \in Nat  BY <2>1 DEF Pubs
    <3>. QED  BY <2>1, <3>1 DEF Pubs
  <2>3. Sends(p) /\ pub.state # "wait" /\ UNCHANGED <<apiUse, answers, stored>>
    BY <1>1 DEF publish, publishing
  <2>. HIDE DEF p
  <2>. QED  BY <2>2, <2>3, SendsKeeps
<1>2. CASE Delayed
  <2>. DEFINE p == [pub EXCEPT !.try = @ + 1]
  <2>1. pub \in Pubs  BY DEF PubInv
  <2>2. p \in Pubs /\ p.id = pub.id /\ p.calls = pub.calls  BY <2>1 DEF Pubs
  <2>3. Sends(p) /\ pub.state = "delay" /\ UNCHANGED <<apiUse, answers, stored>>
    BY <1>2 DEF Delayed, publishing
  <2>. HIDE DEF p
  <2>. QED  BY <2>2, <2>3, SendsKeeps
<1>3. CASE TimesOut  BY <1>3, TimesOutKeeps
<1>4. ASSUME NEW i \in requests, Store(i) PROVE PubInv'  BY <1>4, StoreKeeps
<1>5. ASSUME NEW m \in answers, Answered(m) PROVE PubInv'  BY <1>5, AnsweredKeeps
<1>6. ASSUME UNCHANGED <<apiUse, pub, requests, answers, stored>> PROVE PubInv'
  BY <1>6 DEF PubInv, Again, Refused
<1>7. CASE UNCHANGED apiVars  BY <1>6, <1>7 DEF apiVars
<1>8. CASE LeaderChanges  BY <1>6, <1>8 DEF LeaderChanges, publishing
<1>9. CASE NextPage \/ PageFails \/ \E e \in Entries : Added(e) \/ Removed(e)
  BY <1>6, <1>9 DEF NextPage, PageFails, Added, Removed, paging
<1>10. CASE (\E m \in Managers : Manage(m) \/ RequestFails(m)) \/ \E r \in asked : ServerManages(r)
  BY <1>6, <1>10 DEF Manage, RequestFails, ServerManages, managing
<1>. QED  BY <1>1, <1>2, <1>3, <1>4, <1>5, <1>7, <1>8, <1>9, <1>10 DEF ApiNext

(* A call of publish() stores its message once at most, however often it   *)
(* is tried and however late an answer is; with a message id or the        *)
(* sequence it expects calling it again stores nothing more; a call that   *)
(* resolves has stored it (jsclient.ts publish()).                         *)
THEOREM PublishesOnce == ApiSpec => []PublishOnce
<1>1. ApiInit => PubInv  BY PubInit
<1>2. PubInv /\ [ApiNext]_apiVars => PubInv'  BY PubStep
<1>3. PubInv => PublishOnce
  <2>. SUFFICES ASSUME PubInv PROVE PublishOnce  OBVIOUS
  <2>1. stored \in Nat /\ pub.calls \in Nat /\ Cardinality(requests) \in Nat /\ Again \in {0, 1}
    BY Requests DEF PubInv, Pubs, Again
  <2>2. stored + Cardinality(requests) + Again <= pub.calls  BY DEF PubInv
  <2>3. stored <= pub.calls  BY <2>1, <2>2
  <2>. QED  BY <2>3 DEF PublishOnce, PubInv
<1>. QED  BY <1>1, <1>2, <1>3, PTL DEF ApiSpec
-----------------------------------------------------------------------------
(* A request of update() has the action "update", whatever has become of   *)
(* the manager that sent it.                                               *)
Calls   == {"none", "add", "delete", "info", "update"}
Actions == {"none", "create", "update"}
Flags   == {0, 1}
Manager == [op : Calls, action : Actions, a : Flags, b : Flags, id : Nat]
Asks    == {"add", "delete", "info", "update"}
Request == [by : Managers, op : Asks, action : Actions, a : Flags, b : Flags, id : Nat]
Durable == [exists : BOOLEAN, made : Calls, a : Flags, b : Flags]

Updates(asks) == \A r \in asks : r.op = "update" => r.action = "update"

ManageInv ==
    /\ managers \in [Managers -> Manager] /\ asked \subseteq Request /\ durable \in Durable
    /\ Updates(asked)
    /\ DeletedStaysDeleted

(* The first call of an operation.                                         *)
LEMMA Requested ==
    ASSUME managers \in [Managers -> Manager], NEW m \in Managers, NEW op \in Asks, NEW action \in Actions,
           NEW a \in Flags, NEW b \in Flags, op = "update" => action = "update", _request(m, op, action, a, b)
    PROVE  /\ managers' \in [Managers -> Manager] /\ Asked(m) \subseteq Request /\ Updates(Asked(m))
<1>. DEFINE q == [op |-> op, action |-> action, a |-> a, b |-> b, id |-> managers[m].id + 1]
<1>1. managers[m].id + 1 \in Nat  BY DEF Manager
<1>2. q \in Manager /\ q.op = op /\ q.action = action  BY <1>1 DEF Manager, Asks, Calls
<1>3. managers' = [managers EXCEPT ![m] = q]  BY DEF _request
<1>. HIDE DEF q
<1>4. managers' \in [Managers -> Manager] /\ managers'[m] = q  BY <1>2, <1>3
<1>5. Asked(m) = {[by |-> m, op |-> q.op, action |-> q.action, a |-> q.a, b |-> q.b, id |-> q.id]}
  BY <1>4 DEF Asked
<1>6. [by |-> m, op |-> q.op, action |-> q.action, a |-> q.a, b |-> q.b, id |-> q.id] \in Request
  BY <1>2 DEF Manager, Request
<1>. QED  BY <1>2, <1>4, <1>5, <1>6 DEF Updates

(* A manager is back between its calls.                                    *)
LEMMA Returned ==
    ASSUME managers \in [Managers -> Manager], NEW m \in Managers,
           managers' = [managers EXCEPT ![m] = Idle(@)]
    PROVE  managers' \in [Managers -> Manager]
<1>1. managers[m].id \in Nat  BY DEF Manager
<1>2. Idle(managers[m]) \in Manager  BY <1>1 DEF Idle, Manager, Calls, Actions, Flags
<1>. QED  BY <1>2

(* What the server makes of a request.                                     *)
LEMMA Taken ==
    ASSUME ManageInv, NEW r \in asked, ServerManages(r)
    PROVE  durable' \in Durable /\ DeletedStaysDeleted'
<1>1. r \in Request /\ durable \in Durable /\ (r.op = "update" => r.action = "update")
      /\ (durable.exists => durable.made = "add")
  BY DEF ManageInv, Updates, DeletedStaysDeleted
<1>2. durable' = CASE r.op \in {"add", "update"} -> ServerAdds(r)
                   [] r.op = "delete" -> ServerDeletes
                   [] r.op = "info" -> durable
  BY DEF ServerManages
<1>3. CASE r.op \in {"add", "update"} /\ r.action = "create" /\ ~durable.exists
  <2>1. durable' = [exists |-> TRUE, made |-> r.op, a |-> r.a, b |-> r.b] /\ r.op = "add"
    BY <1>1, <1>2, <1>3 DEF ServerAdds
  <2>2. r.a \in Flags /\ r.b \in Flags /\ r.op \in Calls  BY <1>1 DEF Request, Asks, Calls
  <2>. QED  BY <2>1, <2>2 DEF Durable, DeletedStaysDeleted
<1>4. CASE r.op \in {"add", "update"} /\ r.action = "update" /\ durable.exists
  <2>1. durable' = [durable EXCEPT !.a = r.a, !.b = r.b]  BY <1>2, <1>4 DEF ServerAdds
  <2>2. r.a \in Flags /\ r.b \in Flags  BY <1>1 DEF Request
  <2>3. durable' \in Durable /\ durable'.made = durable.made  BY <1>1, <2>1, <2>2 DEF Durable
  <2>. QED  BY <1>1, <1>4, <2>3 DEF DeletedStaysDeleted
<1>5. CASE r.op = "delete"
  <2>1. durable' = [durable EXCEPT !.exists = FALSE, !.made = "none"]
    BY <1>2, <1>5 DEF ServerDeletes
  <2>2. "none" \in Calls  BY DEF Calls
  <2>3. durable' \in Durable /\ ~durable'.exists  BY <1>1, <2>1, <2>2 DEF Durable
  <2>. QED  BY <2>3 DEF DeletedStaysDeleted
<1>6. CASE durable' = durable  BY <1>1, <1>6 DEF DeletedStaysDeleted
<1>7. r.op \in {"add", "update"} /\ ~(r.action = "create" /\ ~durable.exists)
        /\ ~(r.action = "update" /\ durable.exists) => durable' = durable
  BY <1>2 DEF ServerAdds
<1>8. r.op = "info" => durable' = durable  BY <1>2
<1>. QED  BY <1>3, <1>4, <1>5, <1>6, <1>7, <1>8, <1>1 DEF Request, Asks

(* Every step keeps the state of the managers.                             *)
LEMMA ManageStep == ASSUME ManageInv, [ApiNext]_apiVars PROVE ManageInv'
<1>1. ASSUME NEW m \in Managers, Manage(m) PROVE ManageInv'
  <2>1. PICK op \in {"add", "delete", "info"} : _request(m, op, "create", 0, 0)  BY <1>1 DEF Manage
  <2>2. managers' \in [Managers -> Manager] /\ Asked(m) \subseteq Request /\ Updates(Asked(m))
    BY <2>1, Requested DEF Asks, Actions, Flags, ManageInv
  <2>3. asked' = asked \union Asked(m) /\ durable' = durable  BY <1>1 DEF Manage
  <2>. QED  BY <2>2, <2>3 DEF ManageInv, Updates, DeletedStaysDeleted
<1>2. ASSUME NEW m \in Managers, RequestFails(m) PROVE ManageInv'
  <2>1. managers' = [managers EXCEPT ![m] = Idle(@)] /\ asked' = asked /\ durable' = durable
    BY <1>2 DEF RequestFails
  <2>2. managers' \in [Managers -> Manager]  BY <2>1, Returned DEF ManageInv
  <2>. QED  BY <2>1, <2>2 DEF ManageInv, DeletedStaysDeleted
<1>3. ASSUME NEW r \in asked, ServerManages(r) PROVE ManageInv'
  <2>1. durable' \in Durable /\ DeletedStaysDeleted'  BY <1>3, Taken
  <2>2. r.by \in Managers /\ r \in Request  BY DEF ManageInv, Request
  <2>3. CASE asked' = asked \ {r} /\ UNCHANGED managers  BY <2>1, <2>3 DEF ManageInv, Updates
  <2>4. CASE Replied(r)
    <3>1. CASE r.op = "info" /\ durable.exists
      <4>1. PICK v \in {"a", "b"} :
              /\ update(r.by, [[a |-> durable.a, b |-> durable.b] EXCEPT ![v] = 1])
              /\ asked' = (asked \ {r}) \union Asked(r.by)
        BY <2>4, <3>1 DEF Replied
      <4>. DEFINE c == [[a |-> durable.a, b |-> durable.b] EXCEPT ![v] = 1]
      <4>2. durable.a \in Flags /\ durable.b \in Flags  BY DEF ManageInv, Durable
      <4>3. c.a \in Flags /\ c.b \in Flags  BY <4>2 DEF Flags
      <4>. HIDE DEF c
      <4>4. _request(r.by, "update", "update", c.a, c.b)  BY <4>1 DEF c, update
      <4>5. managers' \in [Managers -> Manager] /\ Asked(r.by) \subseteq Request /\ Updates(Asked(r.by))
        BY <2>2, <4>3, <4>4, Requested DEF Asks, Actions, ManageInv
      <4>. QED  BY <2>1, <4>1, <4>5 DEF ManageInv, Updates
    <3>2. CASE ~(r.op = "info" /\ durable.exists)
      <4>1. managers' = [managers EXCEPT ![r.by] = Idle(@)] /\ asked' = asked \ {r}
        BY <2>4, <3>2 DEF Replied
      <4>2. managers' \in [Managers -> Manager]  BY <2>2, <4>1, Returned DEF ManageInv
      <4>. QED  BY <2>1, <4>1, <4>2 DEF ManageInv, Updates
    <3>. QED  BY <3>1, <3>2
  <2>. QED  BY <1>3, <2>3, <2>4 DEF ServerManages
<1>4. ASSUME UNCHANGED <<durable, managers, asked>> PROVE ManageInv'
  BY <1>4 DEF ManageInv, DeletedStaysDeleted
<1>5. CASE UNCHANGED apiVars  BY <1>4, <1>5 DEF apiVars
<1>6. CASE publish \/ LeaderChanges \/ TimesOut \/ Delayed
  BY <1>4, <1>6 DEF publish, LeaderChanges, TimesOut, Delayed, publishing
<1>7. CASE (\E i \in requests : Store(i)) \/ \E m \in answers : Answered(m)
  BY <1>4, <1>7 DEF Store, Answered, publishing
<1>8. CASE NextPage \/ PageFails \/ \E e \in Entries : Added(e) \/ Removed(e)
  BY <1>4, <1>8 DEF NextPage, PageFails, Added, Removed, paging
<1>. QED  BY <1>1, <1>2, <1>3, <1>5, <1>6, <1>7, <1>8 DEF ApiNext

(* update() changes a consumer that exists: one that is deleted between    *)
(* its two requests, or before one of them that was given up arrives, is   *)
(* not made again (jsmconsumer_api.ts update()).                           *)
THEOREM DeletedIsDeleted == ApiSpec => []DeletedStaysDeleted
<1>1. ApiInit => ManageInv
  <2>. SUFFICES ASSUME ApiInit PROVE ManageInv  OBVIOUS
  <2>1. /\ durable = [exists |-> FALSE, made |-> "none", a |-> 0, b |-> 0] /\ asked = {}
        /\ managers = [m \in Managers |-> Idle([id |-> 0])]
    BY DEF ApiInit, ApiState
  <2>2. Idle([id |-> 0]) \in Manager  BY DEF Idle, Manager, Calls, Actions, Flags
  <2>3. durable \in Durable /\ ~durable.exists  BY <2>1 DEF Durable, Calls, Flags
  <2>. QED  BY <2>1, <2>2, <2>3 DEF ManageInv, Updates, DeletedStaysDeleted
<1>2. ManageInv /\ [ApiNext]_apiVars => ManageInv'  BY ManageStep
<1>3. ManageInv => DeletedStaysDeleted  BY DEF ManageInv
<1>. QED  BY <1>1, <1>2, <1>3, PTL DEF ApiSpec

-----------------------------------------------------------------------------
(* PagesComplete: the pages of a list, and of info(), by counting places.  *)

(* Every set of numbers has a least one.                                   *)
LEMMA Least == ASSUME NEW T \in SUBSET Nat, T # {} PROVE \E n \in T : \A m \in T : n <= m
<1>. DEFINE R == OpToRel(<, Nat)
<1>1. IsWellFoundedOn(R, Nat)  BY NatLessThanWellFounded
<1>2. \A n, m \in Nat : <<n, m>> \in R <=> n < m  BY DEF OpToRel
<1>. HIDE DEF R
<1>3. T \subseteq Nat  OBVIOUS
<1>4. PICK n \in T : \A m \in T : ~(<<m, n>> \in R)  BY <1>1, <1>3, WFMin
<1>5. \A m \in T : ~(m < n)  BY <1>2, <1>3, <1>4
<1>6. \A m \in T : n <= m  BY <1>3, <1>5
<1>. QED  BY <1>6

(* The place of e in S, and the first k of S. *)
Place(S, e) == Cardinality({x \in S : x < e})
First(S, k) == {e \in S : Place(S, e) < k}

(* Places increase, from 0 on. *)
LEMMA Places ==
    ASSUME NEW S \in SUBSET Nat, IsFiniteSet(S), NEW e \in S
    PROVE  /\ Place(S, e) \in Nat /\ Place(S, e) < Cardinality(S)
           /\ \A x \in S : x < e => Place(S, x) < Place(S, e)
<1>. DEFINE D(y) == {x \in S : x < y}
<1>1. \A y : D(y) \in SUBSET S  OBVIOUS
<1>2. \A y : IsFiniteSet(D(y)) /\ Cardinality(D(y)) \in Nat
  <2>1. \A T \in SUBSET S : IsFiniteSet(T)  BY FS_Subset
  <2>. HIDE DEF D
  <2>. QED  BY <1>1, <2>1, FS_CardinalityType
<1>3. \A y : Place(S, y) = Cardinality(D(y))  BY DEF Place
<1>4. e \notin D(e)  OBVIOUS
<1>5. ASSUME NEW x \in S, x < e PROVE D(x) \in SUBSET D(e) /\ x \in D(e) /\ x \notin D(x)
  <2>1. x \in Nat /\ e \in Nat /\ \A y \in S : y \in Nat  OBVIOUS
  <2>2. \A y \in S : y < x => y < e  BY <1>5, <2>1
  <2>3. x \in D(e) /\ x \notin D(x)  BY <1>5, <2>1
  <2>4. D(x) \subseteq D(e)  BY <2>2
  <2>. QED  BY <2>3, <2>4
<1>. HIDE DEF D
<1>6. Cardinality(S) \in Nat  BY FS_CardinalityType
<1>7. Cardinality(D(e)) <= Cardinality(S) /\ Cardinality(D(e)) # Cardinality(S)
  BY <1>1, <1>4, FS_Subset
<1>8. ASSUME NEW x \in S, x < e PROVE Cardinality(D(x)) < Cardinality(D(e))
  <2>1. D(x) \in SUBSET D(e) /\ D(x) # D(e)  BY <1>5, <1>8
  <2>2. Cardinality(D(x)) <= Cardinality(D(e)) /\ Cardinality(D(x)) # Cardinality(D(e))
    BY <1>2, <2>1, FS_Subset
  <2>. QED  BY <1>2, <2>2
<1>. QED  BY <1>2, <1>3, <1>6, <1>7, <1>8

(* Who is among the first k.                                               *)
LEMMA InFirst == \A S, k, e : e \in First(S, k) <=> e \in S /\ Place(S, e) < k
BY DEF First

(* The first k are k, until there are no more.                             *)
LEMMA Firsts ==
    ASSUME NEW S \in SUBSET Nat, IsFiniteSet(S)
    PROVE  \A k \in 0 .. Cardinality(S) : IsFiniteSet(First(S, k)) /\ Cardinality(First(S, k)) = k
<1>. DEFINE N == Cardinality(S)
            T == {k \in 0 .. N : Cardinality(First(S, k)) # k}
<1>1. N \in Nat  BY FS_CardinalityType
<1>2. \A k : First(S, k) \in SUBSET S  BY DEF First
<1>3. \A k : IsFiniteSet(First(S, k))  BY <1>2, FS_Subset
<1>4. SUFFICES ASSUME T # {} PROVE FALSE  BY <1>3
<1>5. PICK k \in T : \A m \in T : k <= m
  <2>1. T \in SUBSET Nat  BY <1>1
  <2>. HIDE DEF T
  <2>. QED  BY <1>4, <2>1, Least
<1>6. k \in 0 .. N /\ Cardinality(First(S, k)) # k  BY <1>5
<1>7. k # 0
  <2>1. ASSUME NEW e \in S PROVE e \notin First(S, 0)
    <3>1. Place(S, e) \in Nat  BY Places
    <3>. QED  BY <3>1, InFirst
  <2>2. First(S, 0) = {}  BY <1>2, <2>1
  <2>. QED  BY <1>6, <2>2, FS_EmptySet
<1>8. k \in Nat /\ k - 1 \in 0 .. N /\ k - 1 \in Nat /\ k - 1 < N /\ k - 1 \notin T
  BY <1>1, <1>5, <1>6, <1>7
<1>9. Cardinality(First(S, k - 1)) = k - 1  BY <1>8
<1>. HIDE DEF T, N
<1>10. S \ First(S, k - 1) # {}
  <2>1. First(S, k - 1) # S  BY <1>1, <1>8, <1>9 DEF N
  <2>. QED  BY <1>2, <2>1
<1>11. PICK e \in S \ First(S, k - 1) : \A x \in S \ First(S, k - 1) : e <= x
  <2>1. S \ First(S, k - 1) \in SUBSET Nat  OBVIOUS
  <2>. QED  BY <1>10, <2>1, Least
<1>12. {x \in S : x < e} = First(S, k - 1)
  <2>1. ASSUME NEW x \in S, x < e PROVE x \in First(S, k - 1)  BY <1>11, <2>1
  <2>2. ASSUME NEW x \in First(S, k - 1) PROVE x < e
    <3>1. x \in S /\ Place(S, x) < k - 1 /\ ~(Place(S, e) < k - 1)  BY <1>2, <1>11, <2>2, InFirst
    <3>2. Place(S, x) \in Nat /\ Place(S, e) \in Nat  BY <1>11, <3>1, Places
    <3>3. x # e /\ ~(e < x)
      <4>1. e < x => Place(S, e) < Place(S, x)  BY <1>11, <3>1, Places
      <4>. QED  BY <1>8, <3>1, <3>2, <4>1
    <3>. QED  BY <1>11, <3>1, <3>3
  <2>. QED  BY <1>2, <2>1, <2>2
<1>13. Place(S, e) = k - 1  BY <1>9, <1>12 DEF Place
<1>14. First(S, k) = First(S, k - 1) \cup {e}
  <2>1. e \in First(S, k)  BY <1>8, <1>11, <1>13, InFirst
  <2>2. ASSUME NEW x \in First(S, k - 1) PROVE x \in First(S, k)
    <3>1. x \in S /\ Place(S, x) < k - 1 /\ Place(S, x) \in Nat  BY <2>2, InFirst, Places
    <3>. QED  BY <1>8, <3>1, InFirst
  <2>3. ASSUME NEW x \in First(S, k), x # e PROVE x \in First(S, k - 1)
    <3>1. x \in S /\ Place(S, x) < k /\ Place(S, x) \in Nat  BY <2>3, InFirst, Places
    <3>2. x < e => x \in First(S, k - 1)  BY <1>12, <3>1
    <3>3. e < x => Place(S, e) < Place(S, x)  BY <1>11, <3>1, Places
    <3>4. x \in Nat /\ e \in Nat /\ (x < e \/ e < x)  BY <1>11, <2>3, <3>1
    <3>5. ~(e < x)  BY <1>8, <1>13, <3>1, <3>3
    <3>. QED  BY <3>2, <3>4, <3>5
  <2>. QED  BY <2>1, <2>2, <2>3
<1>15. Cardinality(First(S, k)) = (k - 1) + 1
  <2>. DEFINE F == First(S, k - 1)
  <2>1. e \notin F  BY <1>11
  <2>2. IsFiniteSet(F) /\ Cardinality(F) = k - 1  BY <1>3, <1>9
  <2>3. First(S, k) = F \cup {e}  BY <1>14
  <2>. HIDE DEF F
  <2>4. Cardinality(F \cup {e}) = Cardinality(F) + 1  BY <2>1, <2>2, FS_AddElement
  <2>. QED  BY <2>2, <2>3, <2>4
<1>. QED  BY <1>6, <1>8, <1>15

(* A page is full, or reaches the end of what there is.                    *)
LEMMA PageSize ==
    ASSUME IsFiniteSet(entries), entries \subseteq Nat, NEW o \in Nat
    PROVE  LET n == Cardinality(entries)
               p == Cardinality(Page(o))
           IN  /\ n \in Nat /\ p \in Nat /\ IsFiniteSet(Page(o)) /\ p <= PageLimit
               /\ p = PageLimit \/ o + p >= n
<1>. DEFINE n == Cardinality(entries)
            p == Cardinality(Page(o))
            F(k) == First(entries, k)
<1>0. n \in Nat /\ PageLimit \in Nat /\ PageLimit # 0 /\ o + PageLimit \in Nat
  BY FS_CardinalityType, ListAssumption
<1>1. \A e \in entries : Before(e) = Place(entries, e) /\ Before(e) \in Nat /\ Before(e) < n
  BY Places DEF Before, Place
<1>2. Page(o) = F(o + PageLimit) \ F(o) /\ \A k \in Nat : F(k) \in SUBSET entries
  <2>1. ASSUME NEW e \in entries PROVE e \in Page(o) <=> e \in F(o + PageLimit) \ F(o)
    <3>1. e \in Page(o) <=> Before(e) \in o .. (o + PageLimit - 1)  BY DEF Page
    <3>2. \A k : e \in F(k) <=> Before(e) < k  BY <1>1, InFirst
    <3>. HIDE DEF F
    <3>. QED  BY <1>0, <1>1, <3>1, <3>2
  <2>2. Page(o) \subseteq entries /\ \A k : F(k) \subseteq entries  BY InFirst DEF Page
  <2>. HIDE DEF F
  <2>. QED  BY <2>1, <2>2
<1>3. \A k \in Nat : IsFiniteSet(F(k)) /\ Cardinality(F(k)) = IF k <= n THEN k ELSE n
  <2>1. ASSUME NEW k \in Nat, k > n PROVE F(k) = entries
    <3>1. ASSUME NEW e \in entries PROVE e \in F(k)
      <4>1. Before(e) < k  BY <1>0, <1>1, <2>1
      <4>. QED  BY <1>1, <4>1, InFirst
    <3>. QED  BY <3>1, InFirst
  <2>2. \A k \in 0 .. n : IsFiniteSet(F(k)) /\ Cardinality(F(k)) = k  BY Firsts
  <2>. HIDE DEF F
  <2>. QED  BY <1>0, <2>1, <2>2
<1>4. F(o + PageLimit) \cap F(o) = F(o)
  <2>1. ASSUME NEW e \in F(o) PROVE e \in F(o + PageLimit)
    <3>0. e \in entries  BY <2>1, InFirst
    <3>1. e \in entries /\ Before(e) < o /\ Before(e) \in Nat  BY <1>1, <2>1, <3>0, InFirst
    <3>2. Before(e) < o + PageLimit  BY <1>0, <3>1
    <3>. QED  BY <1>1, <3>1, <3>2, InFirst
  <2>. HIDE DEF F
  <2>. QED  BY <2>1
<1>. HIDE DEF F, n
<1>5. p = Cardinality(F(o + PageLimit)) - Cardinality(F(o)) /\ IsFiniteSet(Page(o))
  <2>1. IsFiniteSet(F(o + PageLimit))  BY <1>0, <1>3
  <2>2. /\ IsFiniteSet(F(o + PageLimit) \ F(o))
        /\ Cardinality(F(o + PageLimit) \ F(o))
             = Cardinality(F(o + PageLimit)) - Cardinality(F(o + PageLimit) \cap F(o))
    BY <2>1, FS_Difference
  <2>. QED  BY <1>2, <1>4, <2>2
<1>. HIDE DEF p
<1>6. /\ Cardinality(F(o)) = IF o <= n THEN o ELSE n
      /\ Cardinality(F(o + PageLimit)) = IF o + PageLimit <= n THEN o + PageLimit ELSE n
  BY <1>0, <1>3
<1>7. /\ p \in Nat /\ p <= PageLimit
      /\ p = PageLimit \/ o + p >= n
  BY <1>0, <1>5, <1>6
<1>. QED  BY <1>0, <1>5, <1>7 DEF n, p

PageStates == {"ask", "ended", "failed"}
Pager == [state : PageStates, offset : Nat, total : Nat, have : Nat, page : Nat, got : SUBSET Entries,
          initial : SUBSET Entries, removed : BOOLEAN, cut : BOOLEAN]

(* What was there at the start and is listed before the offset is in hand; *)
(* info() has asked for as many entries as it has. A removal ends both.    *)
Reading ==
    /\ apiUse.listing = "info" => pager.have = pager.offset /\ pager.offset = PageLimit * pager.page
    /\ \A e \in filter(pager.initial) : Before(e) < pager.offset => e \in pager.got

ListInv ==
    /\ entries \subseteq Entries
    /\ pager \in Pager
    /\ ~pager.removed => pager.initial \subseteq entries
    /\ ~pager.removed /\ pager.state = "ask" => Reading
    /\ PagesComplete

(* What there is to list is finite, and can be counted.                    *)
LEMMA Listable == ASSUME ListInv PROVE IsFiniteSet(entries) /\ entries \subseteq Nat
BY ListAssumption, FS_Subset DEF ListInv

(* What is listed before the end of a page is in hand once it is read.     *)
LEMMA ReadsOn ==
    ASSUME ListInv, ~pager.removed, pager.state = "ask", NEW n, n = Cardinality(entries),
           NEW p, p = Cardinality(Page(pager.offset)), NEW e \in filter(pager.initial),
           Before(e) < pager.offset + p \/ n <= pager.offset + p
    PROVE  e \in pager.got \/ e \in filter(Page(pager.offset))
<1>. DEFINE o == pager.offset
<1>1. o \in Nat /\ (Before(e) < o => e \in pager.got) /\ e \in pager.initial /\ e \in entries
  BY DEF ListInv, Pager, Reading, filter
<1>2. IsFiniteSet(entries) /\ entries \subseteq Nat  BY Listable
<1>. HIDE DEF o
<1>3. n \in Nat /\ p \in Nat /\ p <= PageLimit  BY <1>1, <1>2, PageSize DEF o
<1>4. Before(e) \in Nat /\ Before(e) < n  BY <1>1, <1>2, Places DEF Before, Place
<1>5. Before(e) < o + p  BY <1>1, <1>3, <1>4 DEF o
<1>6. PageLimit \in Nat  BY ListAssumption
<1>7. CASE ~(Before(e) < o)
  <2>1. Before(e) \in o .. (o + PageLimit - 1)  BY <1>1, <1>3, <1>4, <1>5, <1>6, <1>7
  <2>2. e \in Page(o)  BY <1>1, <2>1 DEF Page
  <2>. QED  BY <2>2 DEF filter, o
<1>. QED  BY <1>1, <1>7

(* A page is read: by the list, or by the pages of info().                 *)
LEMMA PageRead ==
    ASSUME ListInv, apiUse.listing # "none", pager.state = "ask",
           pager' = IF apiUse.listing = "info"
                    THEN info(pager, Page(pager.offset), Cardinality(entries))
                    ELSE next(pager, Page(pager.offset), Cardinality(entries)),
           UNCHANGED <<apiUse, entries>>
    PROVE  ListInv'
<1>. DEFINE o == pager.offset
            page == Page(o)
            n == Cardinality(entries)
            p == Cardinality(page)
            more == n > pager.have + p /\ (pager.page = 0 \/ p = PageLimit)
<1>0. pager \in Pager /\ entries \subseteq Entries
  BY DEF ListInv
<1>1. n \in Nat /\ p \in Nat /\ o \in Nat /\ PageLimit \in Nat /\ page \in SUBSET Entries
  <2>1. o \in Nat  BY <1>0 DEF Pager
  <2>2. page \subseteq Entries  BY <1>0 DEF Page
  <2>. QED  BY <2>1, <2>2, Listable, PageSize, ListAssumption
<1>4. ASSUME ~pager.removed, NEW e \in filter(pager.initial), Before(e) < o + p \/ n <= o + p
      PROVE  e \in pager.got \/ e \in filter(page)
  BY <1>4, ReadsOn
<1>5. ASSUME pager' \in Pager, pager'.removed = pager.removed, pager'.initial = pager.initial,
             ~pager.removed /\ apiUse.listing = "info" /\ pager'.state = "ask"
               => pager'.have = pager'.offset /\ pager'.offset = PageLimit * pager'.page,
             ~pager.removed /\ pager'.state = "ask" => pager'.offset = o + p,
             ~pager.removed /\ pager'.state = "ended" /\ ~pager'.cut => n <= o + p,
             ~pager.removed =>
               \A e \in filter(pager.initial) : Before(e) < o + p \/ n <= o + p => e \in pager'.got
      PROVE  ListInv'
  <2>1. filter(pager.initial)' = filter(pager.initial) /\ \A e : Before(e)' = Before(e)
    BY <1>5 DEF filter, Before
  <2>2. ~pager'.removed => pager'.initial \subseteq entries'  BY <1>5 DEF ListInv
  <2>. HIDE DEF o, n, p
  <2>3. ~pager'.removed /\ pager'.state = "ask" => Reading'  BY <1>5, <2>1 DEF Reading
  <2>4. PagesComplete'  BY <1>1, <1>5, <2>1 DEF PagesComplete
  <2>. QED  BY <1>0, <1>5, <2>2, <2>3, <2>4 DEF ListInv
<1>2. CASE apiUse.listing = "info"
  <2>1. pager' = info(pager, page, n)  BY <1>2
  <2>. HIDE DEF page, n, p
  <2>2. pager.have + p \in Nat /\ pager.page + 1 \in Nat /\ PageLimit * (pager.page + 1) \in Nat
        /\ pager.got \cup page \in SUBSET Entries
    BY <1>0, <1>1 DEF Pager
  <2>. DEFINE have == pager.have + p
              number == pager.page + 1
              offset == PageLimit * (pager.page + 1)
              got == pager.got \cup page
              state == IF page = {} /\ pager.page > 0 THEN "failed" ELSE IF more THEN "ask" ELSE "ended"
  <2>3. pager' = [pager EXCEPT !.total = n, !.have = have, !.page = number,
                               !.offset = offset, !.got = got,
                               !.state = state]
    BY <2>1 DEF info, p
  <2>4. state \in PageStates  BY DEF PageStates
  <2>6. /\ offset \in Nat /\ have \in Nat /\ number \in Nat /\ got \in SUBSET Entries
        /\ pager \in Pager /\ n \in Nat
    BY <1>0, <1>1, <2>2
  <2>. HIDE DEF state, offset, have, number, got
  <2>5. /\ pager' \in Pager
        /\ pager'.removed = pager.removed /\ pager'.initial = pager.initial
        /\ pager'.have = have /\ pager'.page = number
        /\ pager'.offset = offset /\ pager'.got = got
        /\ pager'.state = state
    <3>. DEFINE u == [pager EXCEPT !.total = n, !.have = have, !.page = number]
    <3>1. /\ u \in Pager /\ u.removed = pager.removed /\ u.initial = pager.initial
          /\ u.have = have /\ u.page = number
      BY <2>6 DEF Pager
    <3>2. pager' = [u EXCEPT !.offset = offset, !.got = got, !.state = state]  BY <2>3, <2>6 DEF Pager
    <3>. HIDE DEF u
    <3>. QED  BY <2>4, <2>6, <3>1, <3>2 DEF Pager
  <2>7. ASSUME ~pager.removed
        PROVE  /\ state = "ask" => pager'.have = pager'.offset /\ pager'.offset = o + p
               /\ state = "ended" => n <= o + p
    <3>1. pager.have = o /\ o = PageLimit * pager.page  BY <1>2, <2>7 DEF ListInv, Reading
    <3>2. pager.page \in Nat /\ offset = o + PageLimit
      <4>1. pager.page \in Nat  BY <1>0 DEF Pager
      <4>2. PageLimit * (pager.page + 1) = PageLimit * pager.page + PageLimit  BY <1>1, <4>1
      <4>. QED  BY <3>1, <4>1, <4>2 DEF offset
    <3>3. p = PageLimit \/ o + p >= n  BY <1>1, Listable, PageSize DEF n, p, page
    <3>4. state = "ask" => p = PageLimit
      <4>1. state = "ask" => n > o + p  BY <3>1 DEF state
      <4>. QED  BY <1>1, <3>3, <4>1
    <3>5. state = "ended" => n <= o + p
      <4>1. state = "ended" => ~more  BY DEF state
      <4>2. CASE ~(n > o + p)  BY <1>1, <4>2
      <4>3. CASE ~(pager.page = 0 \/ p = PageLimit)  BY <1>1, <3>3, <4>3
      <4>. QED  BY <3>1, <4>1, <4>2, <4>3
    <3>. QED  BY <2>5, <3>1, <3>2, <3>4, <3>5 DEF have
  <2>8. ASSUME ~pager.removed, NEW e \in filter(pager.initial), Before(e) < o + p \/ n <= o + p
        PROVE  e \in pager'.got
    <3>1. e \in pager.got \/ e \in filter(page)  BY <1>4, <2>8
    <3>. QED  BY <1>2, <2>5, <3>1 DEF filter, got
  <2>9. pager'.offset = PageLimit * pager'.page  BY <2>5 DEF offset, number
  <2>10. /\ ~pager.removed /\ pager'.state = "ask" => pager'.have = pager'.offset /\ pager'.offset = o + p
         /\ ~pager.removed /\ pager'.state = "ended" /\ ~pager'.cut => n <= o + p
    BY <2>5, <2>7
  <2>. QED  BY <1>5, <2>5, <2>8, <2>9, <2>10
<1>3. CASE apiUse.listing # "info"
  <2>1. pager' = next(pager, page, n)  BY <1>3
  <2>. HIDE DEF page, n, p
  <2>2. o + p \in Nat /\ pager.got \cup filter(page) \in SUBSET Entries
    BY <1>0, <1>1 DEF Pager, filter
  <2>. DEFINE state == IF filter(page) = {} \/ o + p >= n THEN "ended" ELSE "ask"
              cut == filter(page) = {} /\ o + p < n
              offset == o + p
              got == pager.got \cup filter(page)
  <2>3. pager' = [pager EXCEPT !.total = n, !.offset = offset, !.got = got,
                               !.cut = cut, !.state = state]
    BY <2>1 DEF next, p
  <2>4. state \in PageStates /\ cut \in BOOLEAN  BY DEF PageStates
  <2>7. offset \in Nat /\ got \in SUBSET Entries /\ pager \in Pager /\ n \in Nat  BY <1>0, <1>1, <2>2
  <2>. HIDE DEF state, cut, offset, got
  <2>8. /\ pager' \in Pager
        /\ pager'.removed = pager.removed /\ pager'.initial = pager.initial
        /\ pager'.offset = offset /\ pager'.got = got
        /\ pager'.cut = cut /\ pager'.state = state
    BY <2>3, <2>4, <2>7 DEF Pager
  <2>5. /\ pager' \in Pager
        /\ pager'.removed = pager.removed /\ pager'.initial = pager.initial
        /\ pager'.offset = o + p /\ pager'.got = pager.got \cup filter(page)
        /\ pager'.cut = cut /\ pager'.state = state
    BY <2>8 DEF offset, got
  <2>6. /\ state = "ask" => pager'.offset = o + p
        /\ state = "ended" /\ ~cut => n <= o + p
    BY <1>1, <2>5 DEF state, cut
  <2>9. ASSUME ~pager.removed, NEW e \in filter(pager.initial), Before(e) < o + p \/ n <= o + p
        PROVE  e \in pager'.got
    <3>1. e \in pager.got \/ e \in filter(page)  BY <1>4, <2>9
    <3>. QED  BY <2>5, <3>1
  <2>. QED  BY <1>3, <1>5, <2>5, <2>6, <2>9
<1>. QED  BY <1>2, <1>3

(* Every step keeps what the list has.                                     *)
LEMMA ListStep == ASSUME ListInv, [ApiNext]_apiVars PROVE ListInv'
<1>1. CASE NextPage  BY <1>1, PageRead DEF NextPage, paging
<1>2. CASE PageFails
  <2>1. pager' = [pager EXCEPT !.state = "failed"] /\ UNCHANGED <<apiUse, entries>>
    BY <1>2 DEF PageFails, paging
  <2>2. pager \in Pager /\ "failed" \in PageStates  BY DEF ListInv, PageStates
  <2>3. pager' \in Pager /\ pager'.state = "failed" /\ pager'.removed = pager.removed
        /\ pager'.initial = pager.initial
    BY <2>1, <2>2 DEF Pager
  <2>. QED  BY <2>1, <2>3 DEF ListInv, PagesComplete
<1>3. ASSUME NEW e \in Entries, Added(e) PROVE ListInv'
  <2>1. entries' = entries \cup {e} /\ UNCHANGED <<apiUse, pager>>  BY <1>3 DEF Added, paging
  <2>2. IsFiniteSet(entries') /\ entries' \subseteq Nat /\ entries' \subseteq Entries
    BY <2>1, ListAssumption, FS_Subset DEF ListInv
  <2>3. ASSUME NEW x \in pager.initial, ~pager.removed, Before(x)' < pager.offset
        PROVE  Before(x) < pager.offset
    <3>1. x \in entries /\ x \in entries' /\ pager.offset \in Nat
      BY <2>1, <2>3 DEF ListInv, Pager
    <3>2. {y \in entries' : y < x} \in SUBSET entries' /\ {y \in entries : y < x} \in SUBSET {y \in entries' : y < x}
      BY <2>1
    <3>3. IsFiniteSet({y \in entries' : y < x})  BY <2>2, <3>2, FS_Subset
    <3>4. Before(x) <= Before(x)'  BY <3>2, <3>3, FS_Subset DEF Before
    <3>5. Before(x) \in Nat /\ Before(x)' \in Nat
      <4>1. IsFiniteSet({y \in entries : y < x})  BY <3>2, <3>3, FS_Subset
      <4>. QED  BY <3>3, <4>1, FS_CardinalityType DEF Before
    <3>. QED  BY <2>3, <3>1, <3>4, <3>5
  <2>4. ~pager.removed /\ pager.state = "ask" => Reading'
    BY <2>1, <2>3 DEF ListInv, Reading, filter
  <2>. QED  BY <2>1, <2>2, <2>4 DEF ListInv, PagesComplete, filter
<1>4. ASSUME NEW e \in Entries, Removed(e) PROVE ListInv'
  <2>1. entries' = entries \ {e} /\ pager' = [pager EXCEPT !.removed = TRUE]  BY <1>4 DEF Removed
  <2>2. pager' \in Pager /\ pager'.removed  BY <2>1 DEF ListInv, Pager
  <2>. QED  BY <2>1, <2>2 DEF ListInv, PagesComplete
<1>5. ASSUME UNCHANGED <<apiUse, entries, pager>> PROVE ListInv'
  BY <1>5 DEF ListInv, Reading, PagesComplete, filter, Before
<1>6. CASE UNCHANGED apiVars  BY <1>5, <1>6 DEF apiVars
<1>7. CASE publish \/ LeaderChanges \/ TimesOut \/ Delayed
  BY <1>5, <1>7 DEF publish, LeaderChanges, TimesOut, Delayed, publishing
<1>8. CASE (\E i \in requests : Store(i)) \/ \E m \in answers : Answered(m)
  BY <1>5, <1>8 DEF Store, Answered, publishing
<1>9. CASE (\E m \in Managers : Manage(m) \/ RequestFails(m)) \/ \E r \in asked : ServerManages(r)
  BY <1>5, <1>9 DEF Manage, RequestFails, ServerManages, managing
<1>. QED  BY <1>1, <1>2, <1>3, <1>4, <1>6, <1>7, <1>8, <1>9 DEF ApiNext

(* A list that comes to its end has all that was there when it began, for  *)
(* any entries, page size and filter, however many are added between the   *)
(* pages, unless entries are removed or a page has nothing that the filter *)
(* keeps (jslister.ts next(), jsmstream_api.ts info()).                    *)
THEOREM PagesAreComplete == ApiSpec => []PagesComplete
<1>1. ApiInit => ListInv
  <2>. SUFFICES ASSUME ApiInit PROVE ListInv  OBVIOUS
  <2>1. PICK u \in ApiUses : \E has \in (IF u.listing = "none" THEN {{}} ELSE SUBSET Entries) : ApiState(u, has)
    BY DEF ApiInit
  <2>2. PICK has \in SUBSET Entries : ApiState(u, has)  BY <2>1
  <2>3. pager = [Started EXCEPT !.initial = has] /\ entries = has  BY <2>2 DEF ApiState
  <2>4. /\ pager \in Pager /\ pager.state = "ask" /\ pager.initial = has /\ pager.offset = 0
        /\ pager.have = 0 /\ pager.page = 0
    BY <2>3 DEF Started, Pager, PageStates
  <2>5. \A e \in entries : Before(e) \in Nat
    <3>1. IsFiniteSet(entries) /\ entries \subseteq Nat  BY <2>3, ListAssumption, FS_Subset
    <3>. QED  BY <3>1, Places DEF Before, Place
  <2>6. Reading
    <3>1. PageLimit * 0 = 0  BY ListAssumption
    <3>2. \A e \in filter(pager.initial) : ~(Before(e) < 0)  BY <2>3, <2>4, <2>5 DEF filter
    <3>. QED  BY <2>4, <3>1, <3>2 DEF Reading
  <2>. QED  BY <2>3, <2>4, <2>6 DEF ListInv, PagesComplete
<1>2. ListInv /\ [ApiNext]_apiVars => ListInv'  BY ListStep
<1>3. ListInv => PagesComplete  BY DEF ListInv
<1>. QED  BY <1>1, <1>2, <1>3, PTL DEF ApiSpec

-----------------------------------------------------------------------------
(* EndsBehindMessages: no message is queued behind an end, because stop()  *)
(* ends the subscription before it queues one.                             *)

Ask == [msgs : Int, bytes : Int]
Entry == {Msg, Stop} \cup [kind : {"pull"}, ask : Ask] \cup [kind : {"end"}, err : BOOLEAN]
Frame == [kind : {"msg", "rejected", "noresponders", "deleted", "denied", "bad"}]
           \cup [kind : {"discard"}, left : Ask]
Pending == [msgs : Int, bytes : Int, requests : Int]
Iterator ==
    [pending : Pending, yields : Seq(Entry), out : Seq(Ask), inbatch : Nat, given : Nat, done : BOOLEAN,
     err : BOOLEAN, broke : BOOLEAN, outcome : {"none", "pending", "msg", "null", "error"},
     sub : BOOLEAN, status : BOOLEAN, monitor : {"on", "off", "null"}, missed : Nat, timer : BOOLEAN,
     inBackOff : BOOLEAN]

(* No message is queued behind an end, and none is left when it is done.   *)
NoMessage(q) == \A i \in 1 .. Len(q) : q[i].kind # "msg"
Closing(q, on) ==
    \A i \in 1 .. Len(q) :
        q[i].kind = "end" => ~on /\ \A j \in (i + 1) .. Len(q) : q[j].kind # "msg"
Good(s) ==
    /\ s \in Iterator
    /\ opts.callback => s.yields = <<>>
    /\ Closing(s.yields, s.sub)
    /\ s.done => NoMessage(s.yields)

(* What leaves the queue alone, and may end the subscription.              *)
LEMMA Apart ==
    ASSUME NEW s, Good(s), NEW t \in Iterator, t.yields = s.yields, t.sub => s.sub, t.done => s.done
    PROVE  Good(t)
BY DEF Good, Closing

(* push(): no message enters once the subscription has ended.              *)
LEMMA PushKeeps ==
    ASSUME NEW s, Good(s), ~opts.callback, NEW e \in Entry,
           e.kind = "msg" => s.sub, e.kind = "end" => ~s.sub
    PROVE  Good(push(s, e)) /\ push(s, e).sub = s.sub
<1>0. s \in Iterator /\ s.yields \in Seq(Entry)  BY DEF Good, Iterator
<1>1. CASE s.done  BY <1>1 DEF push
<1>2. CASE ~s.done
  <2>. DEFINE q == s.yields
              r == Append(q, e)
  <2>1. r \in Seq(Entry) /\ Len(r) = Len(q) + 1 /\ r[Len(q) + 1] = e /\ Len(q) \in Nat
        /\ \A i \in 1 .. Len(q) : r[i] = q[i]
    BY <1>0
  <2>2. push(s, e) = [s EXCEPT !.yields = r]  BY <1>2 DEF push
  <2>. HIDE DEF r
  <2>3. push(s, e) \in Iterator /\ push(s, e).yields = r /\ push(s, e).sub = s.sub /\ ~push(s, e).done
    BY <1>0, <1>2, <2>1, <2>2 DEF Iterator
  <2>4. Closing(r, s.sub)
    <3>1. SUFFICES ASSUME NEW i \in 1 .. Len(r), r[i].kind = "end"
                   PROVE  ~s.sub /\ \A j \in (i + 1) .. Len(r) : r[j].kind # "msg"
      BY DEF Closing
    <3>2. CASE i \in 1 .. Len(q)
      <4>1. ~s.sub /\ \A j \in (i + 1) .. Len(q) : q[j].kind # "msg"
        BY <2>1, <3>1, <3>2 DEF Good, Closing
      <4>2. e.kind # "msg"  BY <4>1
      <4>3. ASSUME NEW j \in (i + 1) .. Len(r) PROVE r[j].kind # "msg"
        <5>1. j \in (i + 1) .. Len(q) \/ j = Len(q) + 1  BY <2>1, <3>2
        <5>2. j \in (i + 1) .. Len(q) => j \in 1 .. Len(q)  BY <2>1, <3>2
        <5>. QED  BY <2>1, <4>1, <4>2, <5>1, <5>2
      <4>. QED  BY <4>1, <4>3
    <3>3. CASE i = Len(q) + 1  BY <2>1, <3>1, <3>3
    <3>. QED  BY <2>1, <3>2, <3>3
  <2>. QED  BY <2>3, <2>4 DEF Good
<1>. QED  BY <1>1, <1>2

(* The entries of the queue.                                               *)
LEMMA EntryTypes ==
    /\ Msg \in Entry /\ Msg.kind = "msg" /\ Stop \in Entry /\ Stop.kind = "stop"
    /\ \A p \in Ask : Pull(p) \in Entry /\ Pull(p).kind = "pull"
    /\ \A err \in BOOLEAN : End(err) \in Entry /\ End(err).kind = "end"
BY DEF Entry, Msg, Stop, Pull, End

(* resolve() only settles the outcome.                                     *)
LEMMA ResolveKeeps ==
    ASSUME NEW s, Good(s), NEW r \in {"msg", "null", "error"}
    PROVE  Good(resolve(s, r)) /\ resolve(s, r).sub = s.sub /\ resolve(s, r).done = s.done
           /\ resolve(s, r).yields = s.yields
<1>. DEFINE t == resolve(s, r)
<1>1. s \in Iterator  BY DEF Good
<1>2. t \in Iterator /\ t.yields = s.yields /\ t.sub = s.sub /\ t.done = s.done
  BY <1>1 DEF resolve, Iterator
<1>. QED  BY <1>2, Apart

(* The queue is stopped when no message is left in it.                     *)
LEMMA QueuedStopKeeps ==
    ASSUME NEW s, Good(s), NEW err \in BOOLEAN, NoMessage(s.yields)
    PROVE  Good(QueuedStop(s, err)) /\ QueuedStop(s, err).sub = s.sub
<1>. DEFINE u == [s EXCEPT !.done = TRUE, !.err = err]
<1>1. s \in Iterator  BY DEF Good
<1>2. u \in Iterator /\ u.yields = s.yields /\ u.sub = s.sub /\ u.done
  BY <1>1 DEF Iterator
<1>. HIDE DEF u
<1>3. Good(u)  BY <1>2 DEF Good
<1>4. QueuedStop(s, err) = IF s.done THEN s ELSE resolve(u, IF err THEN "error" ELSE "null")
  BY DEF QueuedStop, u
<1>5. Good(resolve(u, "error")) /\ Good(resolve(u, "null"))
      /\ resolve(u, "error").sub = u.sub /\ resolve(u, "null").sub = u.sub
  BY <1>3, ResolveKeeps
<1>. QED  BY <1>2, <1>4, <1>5

(* stop() ends the subscription, and only then queues the end.             *)
LEMMA StopKeeps ==
    ASSUME NEW s, Good(s), NEW err \in BOOLEAN
    PROVE  Good(stop(s, err)) /\ (s.done \/ ~stop(s, err).sub)
<1>. DEFINE u == [s EXCEPT !.sub = FALSE, !.monitor = "null", !.missed = 0,
                           !.timer = FALSE, !.status = FALSE]
<1>1. s \in Iterator  BY DEF Good
<1>2. u \in Iterator /\ u.yields = s.yields /\ ~u.sub /\ u.done = s.done
  BY <1>1 DEF Iterator
<1>3. stop(s, err) = IF s.done THEN s ELSE IF opts.callback THEN QueuedStop(u, err) ELSE push(u, End(err))
  BY DEF stop
<1>. HIDE DEF u
<1>4. Good(u)  BY <1>2, Apart
<1>5. opts.callback => NoMessage(u.yields)  BY <1>4 DEF Good, NoMessage
<1>6. opts.callback => Good(QueuedStop(u, err)) /\ QueuedStop(u, err).sub = u.sub
  BY <1>4, <1>5, QueuedStopKeeps
<1>7. ~opts.callback => Good(push(u, End(err))) /\ push(u, End(err)).sub = u.sub
  BY <1>2, <1>4, EntryTypes, PushKeeps
<1>. QED  BY <1>2, <1>3, <1>6, <1>7

(* A pull request is sent.                                                 *)
LEMMA PublishKeeps ==
    ASSUME NEW s, Good(s), NEW p \in Ask
    PROVE  Good(publishPull(s, p)) /\ publishPull(s, p).sub = s.sub
<1>. DEFINE o == Append(s.out, p)
<1>1. s \in Iterator  BY DEF Good
<1>2. s.out \in Seq(Ask) /\ o \in Seq(Ask)
  <2>1. s.out \in Seq(Ask)  BY <1>1 DEF Iterator
  <2>. QED  BY <2>1
<1>3. publishPull(s, p) = [s EXCEPT !.out = o]  BY DEF publishPull
<1>. HIDE DEF o
<1>4. /\ publishPull(s, p) \in Iterator /\ publishPull(s, p).yields = s.yields
      /\ publishPull(s, p).sub = s.sub /\ publishPull(s, p).done = s.done
  BY <1>1, <1>2, <1>3 DEF Iterator
<1>. QED  BY <1>4, Apart

(* Another count of what is pending. *)
LEMMA PendingKeeps ==
    ASSUME NEW s, Good(s), NEW p \in Pending
    PROVE  LET t == [s EXCEPT !.pending = p]
           IN  Good(t) /\ t.sub = s.sub /\ t.pending = p
<1>. DEFINE t == [s EXCEPT !.pending = p]
<1>1. s \in Iterator  BY DEF Good
<1>2. t \in Iterator /\ t.yields = s.yields /\ t.sub = s.sub /\ t.done = s.done /\ t.pending = p
  BY <1>1 DEF Iterator
<1>. HIDE DEF t
<1>3. Good(t)  BY <1>2, Apart
<1>. QED  BY <1>2, <1>3 DEF t

(* The stop of a fetch is queued.                                          *)
LEMMA PushStopKeeps ==
    ASSUME NEW s, Good(s)
    PROVE  Good(pushStop(s))
<1>1. opts.callback => Good(stop(s, FALSE))  BY StopKeeps
<1>2. ~opts.callback => Good(push(s, Stop))  BY EntryTypes, PushKeeps
<1>. QED  BY <1>1, <1>2 DEF pushStop

(* A pull request is queued, or sent from a callback.                      *)
LEMMA PullKeeps ==
    ASSUME NEW s, Good(s), NEW ask \in Ask
    PROVE  Good(pull(s, ask))
<1>. DEFINE n == [msgs |-> s.pending.msgs + ask.msgs, bytes |-> s.pending.bytes + ask.bytes,
                  requests |-> s.pending.requests + 1]
            u == [s EXCEPT !.pending = n]
<1>1. n \in Pending
  <2>1. s.pending \in Pending  BY DEF Good, Iterator
  <2>. QED  BY <2>1 DEF Pending, Ask
<1>2. pull(s, ask) = IF opts.callback THEN publishPull(u, ask) ELSE push(u, Pull(ask))
  BY DEF pull
<1>. HIDE DEF n
<1>3. Good(u)  BY <1>1, PendingKeeps
<1>. HIDE DEF u
<1>4. Good(publishPull(u, ask))  BY <1>3, PublishKeeps
<1>5. ~opts.callback => Good(push(u, Pull(ask)))
  BY <1>3, EntryTypes, PushKeeps
<1>. QED  BY <1>2, <1>4, <1>5

(* What a pull asks for.                                                   *)
LEMMA AskTypes ==
    ASSUME opts \in Options, NEW p \in Pending
    PROVE  pullOptions(p) \in Ask
<1>1. opts.max_messages \in Int /\ opts.max_bytes \in Int  BY DEF Options
<1>2. p.msgs \in Int /\ p.bytes \in Int  BY DEF Pending
<1>. QED  BY <1>1, <1>2 DEF pullOptions, Ask

(* Pulling again, after a reconnect or missed heartbeats.                  *)
LEMMA RepullKeeps ==
    ASSUME opts \in Options, NEW s, Good(s)
    PROVE  Good(repull(s))
<1>1. None \in Pending  BY DEF None, Pending
<1>2. pullOptions(None) \in Ask  BY <1>1, AskTypes
<1>3. Good([s EXCEPT !.pending = None])  BY <1>1, PendingKeeps
<1>. QED  BY <1>2, <1>3, PullKeeps DEF repull

(* The idle monitor starts over.                                           *)
LEMMA RestartKeeps ==
    ASSUME NEW s, Good(s)
    PROVE  Good(restart(s))
<1>. DEFINE t == [s EXCEPT !.monitor = "on", !.missed = 0]
<1>1. s \in Iterator  BY DEF Good
<1>2. t \in Iterator /\ t.yields = s.yields /\ t.sub = s.sub /\ t.done = s.done
  BY <1>1 DEF Iterator
<1>. HIDE DEF t
<1>3. Good(t)  BY <1>2, Apart
<1>. QED  BY <1>3 DEF restart, t

(* Pulling again below the threshold.                                      *)
LEMMA RefillKeeps ==
    ASSUME opts \in Options, NEW s, Good(s)
    PROVE  Good(refill(s))
<1>1. s.pending \in Pending  BY DEF Good, Iterator
<1>2. Good(pull(s, pullOptions(s.pending)))  BY <1>1, AskTypes, PullKeeps
<1>. QED  BY <1>2 DEF refill

(* After a status of the server.                                           *)
LEMMA SettleKeeps ==
    ASSUME opts \in Options, NEW s, Good(s)
    PROVE  Good(settle(s))
<1>. DEFINE z == [s EXCEPT !.pending.requests = 0]
            u == IF s.pending.msgs = 0 /\ s.pending.bytes = 0 THEN z ELSE s
<1>1. Good(z)
  <2>1. s.pending \in Pending /\ s \in Iterator  BY DEF Good, Iterator
  <2>2. [s.pending EXCEPT !.requests = 0] \in Pending  BY <2>1 DEF Pending
  <2>3. z = [s EXCEPT !.pending = [s.pending EXCEPT !.requests = 0]]  BY <2>1 DEF Iterator, Pending
  <2>. QED  BY <2>2, <2>3, PendingKeeps
<1>. HIDE DEF z
<1>2. Good(u)  BY <1>1
<1>3. settle(s) = IF opts.refilling THEN refill(u) ELSE IF u.pending.requests = 0 THEN pushStop(u) ELSE u
  BY DEF settle, z
<1>. HIDE DEF u
<1>4. Good(refill(u)) /\ Good(pushStop(u))  BY <1>2, RefillKeeps, PushStopKeeps
<1>. QED  BY <1>2, <1>3, <1>4

(* A message of the stream, while the subscription is on.                  *)
LEMMA UserMessageKeeps ==
    ASSUME NEW s, Good(s), s.sub, NEW throws \in BOOLEAN
    PROVE  Good(userMessage(s, throws))
<1>. DEFINE d == [s EXCEPT !.given = @ + 1]
            u == IF ~opts.callback THEN push(s, Msg) ELSE IF throws THEN stop(d, TRUE) ELSE d
            m == IF u.pending.msgs # 0 THEN u.pending.msgs - 1 ELSE u.pending.msgs
            b == IF u.pending.bytes # 0 THEN u.pending.bytes - MsgBytes ELSE u.pending.bytes
            n == [u.pending EXCEPT !.msgs = m, !.bytes = b]
<1>1. Good(d)
  <2>. DEFINE g == s.given + 1
  <2>1. s \in Iterator /\ g \in Nat /\ d = [s EXCEPT !.given = g]  BY DEF Good, Iterator
  <2>. HIDE DEF g
  <2>2. d \in Iterator /\ d.yields = s.yields /\ d.sub = s.sub /\ d.done = s.done
    BY <2>1 DEF Iterator
  <2>. HIDE DEF d
  <2>. QED  BY <2>2, Apart
<1>2. ~opts.callback => Good(push(s, Msg))
  BY EntryTypes, PushKeeps
<1>3. userMessage(s, throws) =
        [u EXCEPT !.pending.msgs = IF @ # 0 THEN @ - 1 ELSE @, !.pending.bytes = IF @ # 0 THEN @ - MsgBytes ELSE @]
  BY DEF userMessage
<1>. HIDE DEF d
<1>4. Good(u)  BY <1>1, <1>2, StopKeeps
<1>. HIDE DEF u
<1>5. u.pending \in Pending /\ u \in Iterator  BY <1>4 DEF Good, Iterator
<1>6. n \in Pending
  <2>1. m \in Int /\ b \in Int  BY <1>5, PullAssumption DEF Pending
  <2>. HIDE DEF m, b
  <2>. QED  BY <1>5, <2>1 DEF Pending
<1>7. userMessage(s, throws) = [u EXCEPT !.pending = n]
  BY <1>3, <1>5 DEF Iterator, Pending
<1>. HIDE DEF n
<1>. QED  BY <1>4, <1>6, <1>7, PendingKeeps

(* The handler of the subscription: messages and statuses.                 *)
LEMMA HandleKeeps ==
    ASSUME opts \in Options, NEW s, Good(s), s.sub, NEW f \in Frame, NEW throws \in BOOLEAN
    PROVE  Good(handle(s, f, throws))
<1>. DEFINE w == work(s)
<1>1. Good(w) /\ w.sub
  <2>1. s \in Iterator  BY DEF Good
  <2>2. w \in Iterator /\ w.yields = s.yields /\ w.sub = s.sub /\ w.done = s.done
    BY <2>1 DEF Iterator, work
  <2>. HIDE DEF w
  <2>. QED  BY <2>2, Apart
<1>. HIDE DEF w
<1>2. CASE f.kind = "msg"
  <2>1. handle(s, f, throws) = settle(userMessage(w, throws))  BY <1>2 DEF handle, w
  <2>. QED  BY <1>1, <2>1, UserMessageKeeps, SettleKeeps
<1>3. CASE f.kind = "discard"
  <2>1. f.left \in Ask  BY <1>3 DEF Frame
  <2>2. w.pending \in Pending  BY <1>1 DEF Good, Iterator
  <2>3. discard(w.pending, f.left) \in Pending  BY <2>1, <2>2 DEF discard, Ask, Pending
  <2>4. handle(s, f, throws) = settle([w EXCEPT !.pending = discard(w.pending, f.left)])
    BY <1>3 DEF handle, w
  <2>. QED  BY <1>1, <2>3, <2>4, PendingKeeps, SettleKeeps
<1>4. CASE f.kind \notin {"msg", "discard"}
  <2>1. handle(s, f, throws) \in {stop(s, TRUE), stop(w, TRUE), settle(w)}
    BY <1>4 DEF handle, w
  <2>2. Good(stop(s, TRUE)) /\ Good(stop(w, TRUE)) /\ Good(settle(w))
    BY <1>1, StopKeeps, SettleKeeps
  <2>. QED  BY <2>1, <2>2
<1>. QED  BY <1>2, <1>3, <1>4

EndsInv ==
    /\ opts \in Options /\ Good(it)
    /\ wire \in Seq(Frame) /\ waiting \in Seq(Ask)

(* The state of the iterator is good again.                                *)
LEMMA NewIt ==
    ASSUME NEW t, it' = t, Good(t), opts' = opts
    PROVE  Good(it)'
BY DEF Good

(* Taking from, and adding to, a sequence. *)
LEMMA Moves ==
    ASSUME NEW S, NEW q \in Seq(S)
    PROVE  /\ <<>> \in Seq(S)
           /\ q # <<>> => Head(q) \in S /\ Tail(q) \in Seq(S) /\ Len(q) \in Nat /\ Len(q) # 0
           /\ \A x \in S : Append(q, x) \in Seq(S) /\ (q # <<>> => <<x>> \o Tail(q) \in Seq(S))
OBVIOUS

(* Nothing is queued at the start.                                         *)
LEMMA EndsInit == ASSUME Init PROVE EndsInv
<1>1. PICK c \in Scenarios : ValidArgs(c.args) /\ opts = parseOptions(c.args)  BY DEF Init
<1>2. c.args \in Options  BY PullAssumption
<1>3. opts \in Options
  <2>. DEFINE a == c.args
              max == Or(a.max_messages, DefaultBatch)
              tm == Or(a.threshold_messages, Threshold(max))
              tb == Or(a.threshold_bytes, Threshold(a.max_bytes))
  <2>1. \A n \in Nat : Threshold(n) \in Nat
    <3>1. ASSUME NEW n \in Nat PROVE (3 * n + 2) \div 4 \in Nat  OBVIOUS
    <3>. QED  BY <3>1 DEF Threshold
  <2>2. max \in Nat /\ a.max_bytes \in Nat /\ a.threshold_messages \in Nat /\ a.threshold_bytes \in Nat
    BY <1>2, PullAssumption DEF Or, Options
  <2>3. opts = [a EXCEPT !.max_messages = max, !.threshold_messages = tm, !.threshold_bytes = tb]
    BY <1>1 DEF parseOptions
  <2>. HIDE DEF max
  <2>4. tm \in Nat /\ tb \in Nat  BY <2>1, <2>2 DEF Or
  <2>. HIDE DEF tm, tb
  <2>. QED  BY <1>2, <2>2, <2>3, <2>4 DEF Options
<1>4. it = start(opts) /\ wire = <<>> /\ waiting = <<>>  BY DEF Init
<1>5. Good(start(opts))
  <2>. DEFINE ask == [msgs |-> opts.max_messages, bytes |-> opts.max_bytes]
              y == IF opts.callback THEN <<>> ELSE <<Pull(ask)>>
              o == IF opts.callback THEN <<ask>> ELSE <<>>
  <2>1. ask \in Ask /\ opts.callback \in BOOLEAN /\ opts.refilling \in BOOLEAN  BY <1>3 DEF Options, Ask
  <2>2. [msgs |-> ask.msgs, bytes |-> ask.bytes, requests |-> 1] \in Pending  BY <2>1 DEF Ask, Pending
  <2>3. Pull(ask) \in Entry /\ Pull(ask).kind = "pull"  BY <2>1, EntryTypes
  <2>. HIDE DEF ask
  <2>4. y \in Seq(Entry) /\ o \in Seq(Ask)  BY <2>1, <2>3
  <2>5. (opts.callback => y = <<>>) /\ \A i \in 1 .. Len(y) : y[i].kind = "pull"  BY <2>3
  <2>6. start(opts).yields = y /\ ~start(opts).done  BY DEF start, ask
  <2>7. start(opts) \in Iterator
    <3>1. start(opts) =
            [pending |-> [msgs |-> ask.msgs, bytes |-> ask.bytes, requests |-> 1], yields |-> y, out |-> o,
             inbatch |-> 0, given |-> 0, done |-> FALSE, err |-> FALSE, broke |-> FALSE,
             outcome |-> IF opts.next THEN "pending" ELSE "none",
             sub |-> TRUE, status |-> TRUE, monitor |-> "on", missed |-> 0,
             timer |-> ~opts.refilling, inBackOff |-> FALSE]
      BY DEF start, ask
    <3>. HIDE DEF y, o
    <3>. QED  BY <2>1, <2>2, <2>4, <3>1 DEF Iterator
  <2>. HIDE DEF y
  <2>8. Closing(y, start(opts).sub)  BY <2>5 DEF Closing
  <2>. QED  BY <2>5, <2>6, <2>7, <2>8 DEF Good
<1>. QED  BY <1>3, <1>4, <1>5 DEF EndsInv

(* A frame arrives.                                                        *)
LEMMA ReceiveEnds == ASSUME EndsInv, Receive PROVE EndsInv'
<1>1. wire # <<>> /\ wire' = Tail(wire) /\ UNCHANGED <<opts, waiting>>  BY DEF Receive
<1>2. Head(wire) \in Frame /\ wire' \in Seq(Frame)  BY <1>1, Moves DEF EndsInv
<1>3. \/ it.sub /\ it' = handle(it, Head(wire), FALSE)
      \/ it.sub /\ it' = handle(it, Head(wire), TRUE)
      \/ it' = it
  BY DEF Receive
<1>4. Good(it)'
  <2>1. it.sub => Good(handle(it, Head(wire), FALSE)) /\ Good(handle(it, Head(wire), TRUE))
    BY <1>2, HandleKeeps DEF EndsInv
  <2>. QED  BY <1>1, <1>3, <2>1, NewIt DEF EndsInv
<1>. QED  BY <1>1, <1>2, <1>4 DEF EndsInv

(* resetPending(): the consumer is there, or the iterator stops.           *)
LEMMA ResetPendingEnds ==
    ASSUME opts \in Options, NEW s, Good(s), NEW origin, resetPending(s, origin)
    PROVE  Good(it')
<1>1. it' \in {s, repull(s), restart(repull(s))}  BY DEF resetPending
<1>2. Good(repull(s)) /\ Good(restart(repull(s)))  BY RepullKeeps, RestartKeeps
<1>. QED  BY <1>1, <1>2

(* The monitor, the status loop and the resets. *)
LEMMA ResetEnds ==
    ASSUME EndsInv, Missed \/ Heartbeat \/ OnStatus \/ Reset
    PROVE  EndsInv'
<1>0. opts \in Options /\ Good(it) /\ it \in Iterator  BY DEF EndsInv, Good
<1>1. UNCHANGED <<opts, wire, waiting>>
  BY DEF Missed, Heartbeat, OnStatus, Reset, InfoFound, InfoNotFound, InfoFails, BackoffEnds
<1>. SUFFICES Good(it')
  BY <1>0, <1>1, NewIt DEF EndsInv
<1>2. ASSUME NEW t \in Iterator, t.yields = it.yields, t.sub = it.sub, t.done = it.done
      PROVE  Good(t)
  BY <1>0, <1>2, Apart
<1>3. CASE Missed
  <2>1. CASE it.missed < 1
    <3>. DEFINE n == it.missed + 1
    <3>1. it' = [it EXCEPT !.missed = n]  BY <1>3, <2>1 DEF Missed
    <3>2. n \in Nat  BY <1>0 DEF Iterator
    <3>. HIDE DEF n
    <3>3. it' \in Iterator /\ it'.yields = it.yields /\ it'.sub = it.sub /\ it'.done = it.done
      BY <1>0, <3>1, <3>2 DEF Iterator
    <3>. QED  BY <1>2, <3>3
  <2>2. CASE ~(it.missed < 1)
    <3>1. heartbeatsMissed  BY <1>3, <2>2 DEF Missed
    <3>2. Good(resolve(it, "error"))  BY <1>0, ResolveKeeps
    <3>3. resetPending(resolve(it, "error"), "monitor") \/ resetPending(it, "monitor")
      BY <3>1 DEF heartbeatsMissed
    <3>. QED  BY <1>0, <3>2, <3>3, ResetPendingEnds
  <2>. QED  BY <2>1, <2>2
<1>4. CASE Heartbeat
  <2>1. it' = [it EXCEPT !.missed = 0]  BY <1>4 DEF Heartbeat, work
  <2>2. it' \in Iterator /\ it'.yields = it.yields /\ it'.sub = it.sub /\ it'.done = it.done
    BY <1>0, <2>1 DEF Iterator
  <2>. QED  BY <1>2, <2>2
<1>5. CASE OnStatus
  <2>1. it' = it \/ it' = [it EXCEPT !.monitor = "off", !.missed = 0] \/ resetPending(it, "reconnect")
    BY <1>5 DEF OnStatus
  <2>2. CASE it' = [it EXCEPT !.monitor = "off", !.missed = 0]
    <3>1. it' \in Iterator /\ it'.yields = it.yields /\ it'.sub = it.sub /\ it'.done = it.done
      BY <1>0, <2>2 DEF Iterator
    <3>. QED  BY <1>2, <3>1
  <2>3. CASE resetPending(it, "reconnect")  BY <1>0, <2>3, ResetPendingEnds
  <2>. QED  BY <1>0, <2>1, <2>2, <2>3
<1>6. CASE Reset
  <2>. DEFINE back(b) == [it EXCEPT !.inBackOff = b]
  <2>1. \A b \in BOOLEAN : Good(back(b))
    <3>1. ASSUME NEW b \in BOOLEAN PROVE Good(back(b))
      <4>1. /\ back(b) \in Iterator /\ back(b).yields = it.yields /\ back(b).sub = it.sub
            /\ back(b).done = it.done
        BY <1>0 DEF Iterator
      <4>. HIDE DEF back
      <4>. QED  BY <1>2, <4>1
    <3>. QED  BY <3>1
  <2>2. it' \in {it, back(TRUE), stop(it, TRUE), repull(back(FALSE)), restart(repull(back(FALSE)))}
    BY <1>6 DEF Reset, InfoFound, InfoNotFound, InfoFails, BackoffEnds
  <2>. HIDE DEF back
  <2>3. Good(stop(it, TRUE)) /\ Good(repull(back(FALSE)))  BY <1>0, <2>1, StopKeeps, RepullKeeps
  <2>4. Good(restart(repull(back(FALSE))))  BY <2>3, RestartKeeps
  <2>. QED  BY <1>0, <2>1, <2>2, <2>3, <2>4
<1>. QED  BY <1>3, <1>4, <1>5, <1>6

(* An entry taken from the queue leaves a queue in order. *)
LEMMA TakeKeeps ==
    ASSUME NEW s, Good(s), s.yields # <<>>, NEW n \in Nat
    PROVE  LET t == [s EXCEPT !.yields = Tail(s.yields), !.inbatch = n]
           IN  /\ Good(t) /\ t.sub = s.sub /\ t.out = s.out /\ t.given = s.given /\ t.yields = Tail(s.yields)
               /\ Head(s.yields).kind = "end" => ~s.sub /\ NoMessage(Tail(s.yields))
<1>. DEFINE q == s.yields
            r == Tail(q)
            t == [s EXCEPT !.yields = r, !.inbatch = n]
<1>0. s \in Iterator /\ q \in Seq(Entry) /\ q # <<>>  BY DEF Good, Iterator
<1>1. r \in Seq(Entry) /\ Len(q) \in Nat /\ Len(r) \in Nat /\ Len(q) = Len(r) + 1 /\ Head(q) = q[1]
      /\ \A i \in 1 .. Len(r) : r[i] = q[i + 1]
  BY <1>0
<1>2. Closing(q, s.sub) /\ (s.done => NoMessage(q)) /\ (opts.callback => q = <<>>)  BY DEF Good
<1>. HIDE DEF q, r
<1>3. t \in Iterator /\ t.yields = r /\ t.sub = s.sub /\ t.done = s.done /\ t.out = s.out /\ t.given = s.given
  BY <1>0, <1>1 DEF Iterator
<1>. HIDE DEF t
<1>4. Closing(r, s.sub)
  <2>1. SUFFICES ASSUME NEW i \in 1 .. Len(r), r[i].kind = "end"
                 PROVE  ~s.sub /\ \A j \in (i + 1) .. Len(r) : r[j].kind # "msg"
    BY DEF Closing
  <2>2. i + 1 \in 1 .. Len(q) /\ q[i + 1].kind = "end"  BY <1>1, <2>1
  <2>3. ~s.sub /\ \A j \in (i + 2) .. Len(q) : q[j].kind # "msg"
    <3>1. (i + 1) + 1 = i + 2  OBVIOUS
    <3>. QED  BY <1>2, <2>2, <3>1 DEF Closing
  <2>4. \A j \in (i + 1) .. Len(r) : j + 1 \in (i + 2) .. Len(q) /\ j \in 1 .. Len(r)  BY <1>1
  <2>. QED  BY <1>1, <2>3, <2>4
<1>5. s.done => NoMessage(r)
  <2>1. \A i \in 1 .. Len(r) : i + 1 \in 1 .. Len(q)  BY <1>1
  <2>. QED  BY <1>1, <1>2, <2>1 DEF NoMessage
<1>6. Head(q).kind = "end" => ~s.sub /\ NoMessage(r)
  <2>1. 1 \in 1 .. Len(q) /\ \A i \in 1 .. Len(r) : i + 1 \in (1 + 1) .. Len(q)  BY <1>1
  <2>. QED  BY <1>1, <1>2, <2>1 DEF Closing, NoMessage
<1>7. ~opts.callback  BY <1>0, <1>2
<1>. QED  BY <1>3, <1>4, <1>5, <1>6, <1>7 DEF Good, t, r, q

(* The user breaks off the loop. *)
LEMMA BreaksOff ==
    ASSUME NEW s, Good(s)
    PROVE  Good([s EXCEPT !.broke = TRUE])
<1>. DEFINE t == [s EXCEPT !.broke = TRUE]
<1>1. s \in Iterator  BY DEF Good
<1>2. t \in Iterator /\ t.yields = s.yields /\ t.sub = s.sub /\ t.done = s.done
  BY <1>1 DEF Iterator
<1>. HIDE DEF t
<1>3. Good(t)  BY <1>2, Apart
<1>. QED  BY <1>3 DEF t

(* The user is given a message.                                            *)
LEMMA GivesKeeps ==
    ASSUME NEW s, Good(s)
    PROVE  Good([s EXCEPT !.given = @ + 1])
<1>. DEFINE g == s.given + 1
            t == [s EXCEPT !.given = g]
<1>1. s \in Iterator /\ g \in Nat  BY DEF Good, Iterator
<1>. HIDE DEF g
<1>2. t \in Iterator /\ t.yields = s.yields /\ t.sub = s.sub /\ t.done = s.done
  BY <1>1 DEF Iterator
<1>. HIDE DEF t
<1>3. Good(t)  BY <1>2, Apart
<1>. QED  BY <1>3 DEF t, g

(* The user takes the next entry: only an end or a stop ends the queue.    *)
LEMMA ReadEnds == ASSUME EndsInv, Read PROVE EndsInv'
<1>0. opts \in Options /\ Good(it) /\ it \in Iterator /\ it.yields \in Seq(Entry) /\ it.yields # <<>>
  BY DEF EndsInv, Good, Iterator, Read
<1>1. UNCHANGED <<opts, wire, waiting>>  BY DEF Read
<1>. SUFFICES Good(it')
  BY <1>0, <1>1, NewIt DEF EndsInv
<1>. DEFINE n == IF it.inbatch = 0 THEN Len(it.yields) ELSE it.inbatch
            e == Head(it.yields)
            m == n - 1
            s == [it EXCEPT !.yields = Tail(it.yields), !.inbatch = m]
<1>2. m \in Nat
  <2>1. it.inbatch \in Nat /\ Len(it.yields) \in Nat /\ Len(it.yields) # 0
    BY <1>0, Moves DEF Iterator
  <2>. QED  BY <2>1
<1>3. e \in Entry  BY <1>0, Moves
<1>4. it' = CASE e.kind = "msg" /\ opts.next ->
                   [stop(resolve([s EXCEPT !.given = @ + 1], "msg"), FALSE) EXCEPT !.broke = TRUE]
              [] e.kind = "msg" /\ ~opts.next -> [s EXCEPT !.given = @ + 1]
              [] e.kind = "pull" -> publishPull(s, e.ask)
              [] e.kind = "stop" -> stop(s, FALSE)
              [] e.kind = "end" -> QueuedStop(s, e.err)
  BY DEF Read
<1>. HIDE DEF m
<1>5. Good(s) /\ s.yields = Tail(it.yields) /\ (e.kind = "end" => NoMessage(s.yields))
  BY <1>0, <1>2, TakeKeeps
<1>. HIDE DEF s
<1>6. CASE e = Msg
  <2>1. e.kind = "msg"  BY <1>6, EntryTypes
  <2>2. Good([s EXCEPT !.given = @ + 1])  BY <1>5, GivesKeeps
  <2>. DEFINE d == [s EXCEPT !.given = @ + 1]
  <2>. HIDE DEF d
  <2>3. Good(stop(resolve(d, "msg"), FALSE))  BY <2>2, ResolveKeeps, StopKeeps DEF d
  <2>4. Good([stop(resolve(d, "msg"), FALSE) EXCEPT !.broke = TRUE])  BY <2>3, BreaksOff
  <2>5. it' = IF opts.next THEN [stop(resolve(d, "msg"), FALSE) EXCEPT !.broke = TRUE] ELSE d
    BY <1>4, <2>1 DEF d
  <2>. QED  BY <2>2, <2>4, <2>5 DEF d
<1>7. CASE e = Stop
  <2>1. e.kind = "stop"  BY <1>7, EntryTypes
  <2>2. it' = stop(s, FALSE)  BY <1>4, <2>1
  <2>. QED  BY <1>5, <2>2, StopKeeps
<1>8. CASE e \in [kind : {"pull"}, ask : Ask]
  <2>1. e.kind = "pull" /\ e.ask \in Ask  BY <1>8
  <2>2. it' = publishPull(s, e.ask)  BY <1>4, <2>1
  <2>. QED  BY <1>5, <2>1, <2>2, PublishKeeps
<1>9. CASE e \in [kind : {"end"}, err : BOOLEAN]
  <2>1. e.kind = "end" /\ e.err \in BOOLEAN  BY <1>9
  <2>2. it' = QueuedStop(s, e.err)  BY <1>4, <2>1
  <2>. QED  BY <1>5, <2>1, <2>2, QueuedStopKeeps
<1>. QED  BY <1>3, <1>6, <1>7, <1>8, <1>9 DEF Entry

(* The user and its timers: break, the end of the loop, close(), a fetch.  *)
LEMMA UserEnds ==
    ASSUME EndsInv, Break \/ Drained \/ Close \/ TimerFires
    PROVE  EndsInv'
<1>0. opts \in Options /\ Good(it) /\ it \in Iterator  BY DEF EndsInv, Good
<1>1. UNCHANGED <<opts, wire, waiting>>  BY DEF Break, Drained, Close, TimerFires
<1>. SUFFICES Good(it')
  BY <1>0, <1>1, NewIt DEF EndsInv
<1>2. Good(stop(it, FALSE)) /\ Good(stop(resolve(it, "null"), FALSE))
  BY <1>0, ResolveKeeps, StopKeeps
<1>3. Good([stop(it, FALSE) EXCEPT !.broke = TRUE])  BY <1>2, BreaksOff
<1>4. Good(pushStop([it EXCEPT !.sub = FALSE]))
  <2>. DEFINE t == [it EXCEPT !.sub = FALSE]
  <2>1. t \in Iterator /\ t.yields = it.yields /\ ~t.sub /\ t.done = it.done
    BY <1>0 DEF Iterator
  <2>. HIDE DEF t
  <2>2. Good(t)  BY <1>0, <2>1, Apart
  <2>. QED  BY <2>2, PushStopKeeps DEF t
<1>. QED  BY <1>2, <1>3, <1>4 DEF Break, Drained, Close, TimerFires

(* The server and the connection: the queue of the client is left alone.   *)
LEMMA ServerEnds ==
    ASSUME EndsInv, ServerTakes \/ Publish \/ Deliver \/ Expire \/ Delete \/ Recreate \/ Denied
                      \/ Disconnect \/ Reconnect
    PROVE  EndsInv'
<1>0. opts \in Options /\ Good(it) /\ it \in Iterator /\ wire \in Seq(Frame) /\ waiting \in Seq(Ask) /\ it.out \in Seq(Ask)
  BY DEF EndsInv, Good, Iterator
<1>1. ASSUME NEW o \in Seq(Ask), it' = [it EXCEPT !.out = o] PROVE Good(it')
  <2>1. it' \in Iterator /\ it'.yields = it.yields /\ it'.sub = it.sub /\ it'.done = it.done
    BY <1>0, <1>1 DEF Iterator
  <2>. QED  BY <1>0, <2>1, Apart
<1>2. ASSUME opts' = opts, Good(it'), wire' \in Seq(Frame), waiting' \in Seq(Ask) PROVE EndsInv'
  BY <1>0, <1>2, NewIt DEF EndsInv
<1>3. /\ Msg \in Frame
      /\ \A k \in {"rejected", "noresponders", "deleted", "denied", "bad"} : [kind |-> k] \in Frame
      /\ \A p \in Ask : [kind |-> "discard", left |-> p] \in Frame
  BY DEF Frame, Msg
<1>4. \A f \in Frame : Append(wire, f) \in Seq(Frame)  BY <1>0, Moves
<1>5. CASE ServerTakes
  <2>1. it.out # <<>> /\ it' = [it EXCEPT !.out = Tail(it.out)] /\ opts' = opts
    BY <1>5 DEF ServerTakes
  <2>2. Head(it.out) \in Ask /\ Tail(it.out) \in Seq(Ask)  BY <1>0, <2>1, Moves
  <2>3. Good(it')  BY <1>1, <2>1, <2>2
  <2>4. wire' \in {wire, Append(wire, [kind |-> "rejected"]), Append(wire, [kind |-> "noresponders"])}
    BY <1>5 DEF ServerTakes
  <2>. DEFINE p == Head(it.out)
              n == IF p.msgs <= 0 THEN 1 ELSE p.msgs
              a == [p EXCEPT !.msgs = n]
  <2>5. waiting' \in {waiting, Append(waiting, a)}  BY <1>5 DEF ServerTakes
  <2>6. a \in Ask
    <3>1. n \in Int  BY <2>2 DEF Ask
    <3>. HIDE DEF n
    <3>. QED  BY <2>2, <3>1 DEF Ask
  <2>. HIDE DEF a
  <2>7. waiting' \in Seq(Ask)  BY <1>0, <2>5, <2>6, Moves
  <2>. QED  BY <1>0, <1>2, <1>3, <1>4, <2>1, <2>3, <2>4, <2>7
<1>6. CASE Publish \/ Recreate  BY <1>0, <1>2, <1>6 DEF Publish, Recreate
<1>7. CASE Deliver
  <2>1. waiting # <<>> /\ wire' = Append(wire, Msg) /\ it' = it /\ opts' = opts  BY <1>7 DEF Deliver
  <2>2. Head(waiting) \in Ask /\ Tail(waiting) \in Seq(Ask)  BY <1>0, <2>1, Moves
  <2>. DEFINE a == [msgs |-> Head(waiting).msgs - 1,
                    bytes |-> IF opts.max_bytes = 0 THEN 0 ELSE Head(waiting).bytes - MsgBytes]
  <2>3. waiting' \in {Tail(waiting), <<a>> \o Tail(waiting)}  BY <1>7 DEF Deliver
  <2>4. a \in Ask  BY <2>2, PullAssumption DEF Ask
  <2>. HIDE DEF a
  <2>5. waiting' \in Seq(Ask)  BY <1>0, <2>1, <2>2, <2>3, <2>4, Moves
  <2>. QED  BY <1>0, <1>2, <1>3, <1>4, <2>1, <2>5
<1>8. CASE Expire
  <2>1. waiting # <<>> /\ waiting' = Tail(waiting) /\ it' = it /\ opts' = opts
        /\ wire' = Append(wire, [kind |-> "discard", left |-> Head(waiting)])
    BY <1>8 DEF Expire
  <2>2. Head(waiting) \in Ask /\ Tail(waiting) \in Seq(Ask)  BY <1>0, <2>1, Moves
  <2>. QED  BY <1>0, <1>2, <1>3, <1>4, <2>1, <2>2
<1>9. CASE Delete
  <2>. DEFINE gone == [i \in 1 .. Len(waiting) |-> [kind |-> "deleted"]]
  <2>1. wire' = wire \o gone /\ waiting' = <<>> /\ it' = it /\ opts' = opts  BY <1>9 DEF Delete
  <2>2. gone \in Seq(Frame)
    <3>1. Len(waiting) \in Nat  BY <1>0
    <3>2. [kind |-> "deleted"] \in Frame  BY <1>3
    <3>. QED  BY <3>1, <3>2
  <2>. HIDE DEF gone
  <2>3. wire \o gone \in Seq(Frame)  BY <1>0, <2>2
  <2>4. waiting' \in Seq(Ask)  BY <2>1
  <2>. QED  BY <1>0, <1>2, <2>1, <2>3, <2>4
<1>10. CASE Denied
  <2>1. PICK k \in {"denied", "bad"} : wire' = Append(wire, [kind |-> k])  BY <1>10 DEF Denied
  <2>2. UNCHANGED <<opts, it, waiting>>  BY <1>10 DEF Denied
  <2>. QED  BY <1>0, <1>2, <1>3, <1>4, <2>1, <2>2
<1>11. CASE Disconnect
  <2>1. wire' = <<>> /\ waiting' \in {waiting, <<>>} /\ it' = it /\ opts' = opts  BY <1>11 DEF Disconnect
  <2>2. wire' \in Seq(Frame) /\ waiting' \in Seq(Ask)  BY <1>0, <2>1, Moves
  <2>. QED  BY <1>0, <1>2, <2>1, <2>2
<1>12. CASE Reconnect
  <2>1. PICK out \in {it.out, <<>>} : it' = [it EXCEPT !.out = out]  BY <1>12 DEF Reconnect
  <2>2. out \in Seq(Ask)  BY <1>0, Moves
  <2>3. UNCHANGED <<opts, wire, waiting>>  BY <1>12 DEF Reconnect
  <2>4. Good(it')  BY <1>1, <2>1, <2>2
  <2>. QED  BY <1>0, <1>2, <2>3, <2>4
<1>. QED  BY <1>5, <1>6, <1>7, <1>8, <1>9, <1>10, <1>11, <1>12

(* A pull consumer that ends without an error leaves no message it took    *)
(* from the server unread, for any options, messages and faults: stop() is *)
(* queued behind them, and ends the subscription (consumer.ts stop(),      *)
(* queued_iterator.ts iterate()).                                          *)
THEOREM EndsBehind == Spec => []EndsBehindMessages
<1>1. Init => EndsInv  BY EndsInit
<1>2. EndsInv /\ [Next]_vars => EndsInv'
  <2>. SUFFICES ASSUME EndsInv, [Next]_vars PROVE EndsInv'  OBVIOUS
  <2>1. CASE UNCHANGED vars
    <3>1. UNCHANGED <<opts, it, wire, waiting>>  BY <2>1 DEF vars
    <3>. QED  BY <3>1 DEF EndsInv, Good
  <2>2. CASE Next
    BY <2>2, ReceiveEnds, ResetEnds, ReadEnds, UserEnds, ServerEnds DEF Next
  <2>. QED  BY <2>1, <2>2
<1>3. EndsInv => EndsBehindMessages
  <2>. SUFFICES ASSUME EndsInv, it.done, NEW i \in 1 .. Len(it.yields) PROVE it.yields[i] # Msg
    BY DEF EndsBehindMessages
  <2>1. it.yields[i].kind # "msg"  BY DEF EndsInv, Good, NoMessage
  <2>. QED  BY <2>1, EntryTypes
<1>. QED  BY <1>1, <1>2, <1>3, PTL DEF Spec
=============================================================================
