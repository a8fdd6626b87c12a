---------------------------- MODULE StoresProofs ----------------------------
(* What the stores that JetStream makes of streams promise, for any        *)
(* clients, keys, names and numbers of messages. The writes of a bucket    *)
(* compare a revision. A live object is complete: with put(), delete(),    *)
(* link() and get() in any order and any failure, but without update(),    *)
(* which may bring an old nuid back, and as long as the answer to the meta *)
(* message of a put() is not lost.                                         *)
EXTENDS Kv, ObjectStore, WellFoundedInduction, TLAPS

-----------------------------------------------------------------------------
(* The key-value store.                                                    *)

(* A set of numbers with a bound has a largest one.                        *)
LEMMA Largest ==
    ASSUME NEW n \in Nat, NEW S \in SUBSET (1 .. n), S # {}
    PROVE  Max(S) \in S /\ \A x \in S : Max(S) >= x
<1>. DEFINE T == {m \in Nat : \A x \in S : x <= m}
            R == OpToRel(<, Nat)
<1>1. n \in T  OBVIOUS
<1>2. IsWellFoundedOn(R, Nat)  BY NatLessThanWellFounded
<1>3. \A k, m \in Nat : <<k, m>> \in R <=> k < m  BY DEF OpToRel
<1>. HIDE DEF R
<1>4. PICK m \in T : \A k \in T : ~(<<k, m>> \in R)
  <2>1. T \subseteq Nat /\ T # {}  BY <1>1
  <2>. HIDE DEF T
  <2>. QED  BY <1>2, <2>1, WFMin
<1>5. \A k \in T : ~(k < m)  BY <1>3, <1>4
<1>6. m \in S
  <2>1. SUFFICES ASSUME m \notin S PROVE FALSE  OBVIOUS
  <2>2. \A x \in S : x \in Nat /\ x >= 1 /\ x <= m /\ x # m  BY <2>1
  <2>3. PICK x \in S : TRUE  OBVIOUS
  <2>4. m \in Nat /\ m - 1 \in Nat  BY <2>2, <2>3
  <2>5. \A y \in S : y <= m - 1  BY <2>2, <2>4
  <2>6. m - 1 \in T /\ m - 1 < m  BY <2>4, <2>5
  <2>. QED  BY <1>5, <2>6
<1>7. \E x \in S : \A y \in S : x >= y  BY <1>6
<1>. QED  BY <1>7 DEF Max

CallTypes == [op : Operations \cup {"none"}, key : Keys \cup {"none"},
              phase : {"idle", "publish", "get", "acked", "refused", "purging"},
              expect : -1 .. MaxRev, todo : SUBSET Keys, rev : 0 .. MaxRev]

(* What the stream holds: its revisions are never used again.              *)
LogInv ==
    /\ seq \in 0 .. MaxRev /\ log = [r \in DOMAIN log |-> log[r]] /\ DOMAIN log \subseteq 1 .. seq

(* A create() in progress expects nothing on its key, or a revision that   *)
(* is a delete as long as it is there; revisions are unique, so that it    *)
(* will still be that delete when the stream compares it. The others that  *)
(* compare expect a revision.                                              *)
Deleted(r) == r \in DOMAIN log => log[r].op \in {"DEL", "PURGE"}
Expects(asked) ==
    /\ asked.op = "create" => asked.expect \in 0 .. seq /\ Deleted(asked.expect)
    /\ asked.op \in {"update", "deleteIf"} => asked.expect \in 1 .. seq
    /\ asked.rev \in 0 .. seq

KvInv ==
    /\ LogInv
    /\ calls \in [Clients -> CallTypes]
    /\ \A c \in Clients : Expects(calls[c])
    /\ CompareAndSet

(* The last revision of a key.                                             *)
LEMMA LastRev == ASSUME LogInv, NEW k PROVE Rev(k) = 0 \/ Rev(k) \in Revs(k)
<1>1. CASE Revs(k) = {}  BY <1>1 DEF Rev
<1>2. CASE Revs(k) # {}
  <2>1. Revs(k) \in SUBSET (1 .. seq) /\ seq \in Nat  BY DEF Revs, LogInv
  <2>2. Max(Revs(k)) \in Revs(k)  BY <1>2, <2>1, Largest
  <2>. QED  BY <1>2, <2>2 DEF Rev
<1>. QED  BY <1>1, <1>2

LEMMA RevIn == ASSUME LogInv, NEW k PROVE Rev(k) \in 0 .. seq /\ (Rev(k) # 0 => Rev(k) \in DOMAIN log)
<1>1. Revs(k) \subseteq DOMAIN log /\ DOMAIN log \subseteq 1 .. seq /\ seq \in Nat  BY DEF Revs, LogInv
<1>. QED  BY <1>1, LastRev

(* Removing messages keeps what is expected of those that stay.            *)
LEMMA WithoutKeeps ==
    ASSUME KvInv, NEW S, log' = Without(S), seq' = seq
    PROVE  LogInv' /\ CompareAndSet' /\ \A asked : Expects(asked) => Expects(asked)'
<1>1. DOMAIN log' = DOMAIN log \ S /\ \A r \in DOMAIN log' : log'[r] = log[r]  BY DEF Without
<1>2. LogInv'  BY <1>1 DEF KvInv, LogInv, Without
<1>3. CompareAndSet'  BY <1>1 DEF KvInv, CompareAndSet
<1>. QED  BY <1>1, <1>2, <1>3 DEF Expects, Deleted

(* A message is added: it is the one after all the others.                 *)
LEMMA StoreKeeps ==
    ASSUME KvInv, NEW asked \in CallTypes, Expects(asked), asked.expect \in {-1, Rev(asked.key)},
           Store(asked.key, Op(asked), asked.op, asked.expect)
    PROVE  LogInv' /\ CompareAndSet' /\ seq' = seq + 1 /\ \A d : Expects(d) => Expects(d)'
<1>. DEFINE k == asked.key
            message == [key |-> k, op |-> Op(asked), by |-> asked.op, want |-> asked.expect,
                        prev |-> Rev(k), prevop |-> Operation(k)]
<1>1. /\ seq < MaxRev /\ seq' = seq + 1
      /\ log' = [r \in (DOMAIN log \ Discarded(k, Op(asked))) \cup {seq + 1} |->
                  IF r = seq + 1 THEN message ELSE log[r]]
  BY DEF Store
<1>2. LogInv /\ seq \in Nat /\ seq + 1 \notin DOMAIN log /\ DOMAIN log \subseteq 1 .. seq
  BY DEF KvInv, LogInv
<1>3. /\ message.by = asked.op /\ message.want = asked.expect /\ message.prev = Rev(k)
      /\ message.prevop = Operation(k)
  OBVIOUS
<1>. HIDE DEF message, k
<1>4. /\ DOMAIN log' \subseteq DOMAIN log \cup {seq + 1} /\ log'[seq + 1] = message
      /\ \A r \in DOMAIN log' : r # seq + 1 => r \in DOMAIN log /\ log'[r] = log[r]
  BY <1>1
<1>5. LogInv'
  <2>1. seq' \in 0 .. MaxRev  BY <1>1, <1>2, KvAssumption
  <2>2. log' = [r \in DOMAIN log' |-> log'[r]]  BY <1>1
  <2>3. DOMAIN log' \subseteq 1 .. seq'  BY <1>1, <1>2, <1>4
  <2>. QED  BY <2>1, <2>2, <2>3 DEF LogInv
<1>6. \A d : Expects(d) => Expects(d)'
  <2>. SUFFICES ASSUME NEW d, Expects(d) PROVE Expects(d)'  OBVIOUS
  <2>1. 0 .. seq \subseteq 0 .. seq' /\ 1 .. seq \subseteq 1 .. seq'  BY <1>1, <1>2
  <2>2. \A r \in 0 .. seq : Deleted(r) => (r \in DOMAIN log' => log'[r].op \in {"DEL", "PURGE"})
    BY <1>2, <1>4 DEF Deleted
  <2>. QED  BY <2>1, <2>2 DEF Expects, Deleted
<1>7. message.by = "create" => message.prevop # "PUT"
  <2>1. SUFFICES ASSUME asked.op = "create" PROVE Operation(k) # "PUT"  BY <1>3
  <2>2. asked.expect \in 0 .. seq /\ Deleted(asked.expect)  BY <2>1 DEF Expects
  <2>3. asked.expect = Rev(k)  BY <2>2 DEF k
  <2>4. CASE Rev(k) = 0  BY <2>4 DEF Operation
  <2>5. CASE Rev(k) # 0
    <3>1. Rev(k) \in DOMAIN log  BY <1>2, <2>5, RevIn
    <3>2. log[Rev(k)].op \in {"DEL", "PURGE"}  BY <2>2, <2>3, <3>1 DEF Deleted
    <3>. QED  BY <2>5, <3>2 DEF Operation
  <2>. QED  BY <2>4, <2>5
<1>8. message.by \in {"update", "deleteIf"} => message.prev = message.want
  <2>1. SUFFICES ASSUME asked.op \in {"update", "deleteIf"} PROVE Rev(k) = asked.expect  BY <1>3
  <2>2. asked.expect \in 1 .. seq  BY <2>1 DEF Expects
  <2>. QED  BY <2>2 DEF k
<1>9. CompareAndSet'
  <2>. SUFFICES ASSUME NEW r \in DOMAIN log'
                PROVE  /\ log'[r].by = "create" => log'[r].prevop # "PUT"
                       /\ log'[r].by \in {"update", "deleteIf"} => log'[r].prev = log'[r].want
    BY DEF CompareAndSet
  <2>1. CASE r = seq + 1  BY <1>4, <1>7, <1>8, <2>1
  <2>2. CASE r # seq + 1  BY <1>4, <2>2 DEF KvInv, CompareAndSet
  <2>. QED  BY <2>1, <2>2
<1>. QED  BY <1>1, <1>5, <1>6, <1>9

(* A call moves on while the stream stays as it is.                        *)
LEMMA Moves ==
    ASSUME KvInv, NEW c \in Clients, NEW d \in CallTypes, Expects(d),
           calls' = [calls EXCEPT ![c] = d], UNCHANGED <<log, seq>>
    PROVE  KvInv'
<1>1. calls' \in [Clients -> CallTypes] /\ \A b \in Clients : Expects(calls'[b])  BY DEF KvInv
<1>2. \A asked : Expects(asked) => Expects(asked)'  BY DEF Expects, Deleted
<1>3. LogInv' /\ CompareAndSet'  BY DEF KvInv, LogInv, CompareAndSet
<1>. QED  BY <1>1, <1>2, <1>3 DEF KvInv

(* The stream takes what a call publishes, or refuses it.                  *)
LEMMA StoredKeeps == ASSUME KvInv, NEW c \in Clients, Stored(c) PROVE KvInv'
<1>1. PICK asked \in CallTypes : asked = calls[c] /\ Expects(asked)  BY DEF KvInv
<1>2. CASE asked.expect \in {-1, Rev(asked.key)}
  <2>1. /\ Store(asked.key, Op(asked), asked.op, asked.expect)
        /\ calls' = [calls EXCEPT ![c].phase = "acked", ![c].rev = seq + 1]
    BY <1>1, <1>2 DEF Stored
  <2>2. LogInv' /\ CompareAndSet' /\ seq' = seq + 1 /\ \A d : Expects(d) => Expects(d)'
    BY <1>1, <1>2, <2>1, StoreKeeps
  <2>3. PICK d : d = [asked EXCEPT !.phase = "acked", !.rev = seq + 1]  OBVIOUS
  <2>4. seq + 1 \in 0 .. MaxRev /\ seq + 1 \in 0 .. seq'
    <3>1. seq \in Nat /\ seq' \in 0 .. MaxRev  BY <2>2 DEF KvInv, LogInv
    <3>. QED  BY <2>2, <3>1, KvAssumption
  <2>5. d \in CallTypes /\ d.op = asked.op /\ d.expect = asked.expect /\ d.rev = seq + 1
    BY <1>1, <2>3, <2>4 DEF CallTypes
  <2>6. calls' = [calls EXCEPT ![c] = d]  BY <1>1, <2>1, <2>3
  <2>7. Expects(asked)'  BY <1>1, <2>2
  <2>8. Expects(d)'  BY <2>4, <2>5, <2>7 DEF Expects
  <2>9. \A b \in Clients : Expects(calls[b])'
    <3>. SUFFICES ASSUME NEW b \in Clients PROVE Expects(calls[b])'  OBVIOUS
    <3>1. PICK e : e = calls[b] /\ Expects(e)  BY DEF KvInv
    <3>2. Expects(e)'  BY <2>2, <3>1
    <3>3. calls \in [Clients -> CallTypes]  BY DEF KvInv
    <3>4. CASE b = c
      <4>1. calls'[b] = d  BY <2>6, <3>3, <3>4
      <4>. QED  BY <2>8, <4>1 DEF Expects
    <3>5. CASE b # c
      <4>1. calls'[b] = e  BY <2>6, <3>1, <3>3, <3>5
      <4>. QED  BY <3>2, <4>1 DEF Expects
    <3>. QED  BY <3>4, <3>5
  <2>10. calls' \in [Clients -> CallTypes]  BY <2>5, <2>6 DEF KvInv
  <2>. QED  BY <2>2, <2>9, <2>10 DEF KvInv
<1>3. CASE asked.expect \notin {-1, Rev(asked.key)}
  <2>1. PICK d : d = [asked EXCEPT !.phase = "refused"]  OBVIOUS
  <2>2. calls' = [calls EXCEPT ![c] = d] /\ UNCHANGED <<log, seq>>  BY <1>1, <1>3, <2>1 DEF Stored
  <2>3. d \in CallTypes /\ d.op = asked.op /\ d.expect = asked.expect /\ d.rev = asked.rev
    BY <1>1, <2>1 DEF CallTypes
  <2>4. Expects(d)  BY <1>1, <2>3 DEF Expects
  <2>. QED  BY <2>2, <2>3, <2>4, Moves
<1>. QED  BY <1>2, <1>3

(* A client between its calls.                                             *)
LEMMA IdleIs ==
    ASSUME LogInv, NEW k \in Keys \cup {"none"}, NEW r \in 0 .. seq
    PROVE  Returned(k, r) \in CallTypes /\ Expects(Returned(k, r))
<1>1. r \in 0 .. MaxRev /\ -1 \in -1 .. MaxRev  BY KvAssumption DEF LogInv
<1>. QED  BY <1>1 DEF CallTypes, Expects, Returned

(* The calls, and the answers that move them on.                           *)
LEMMA PublishIs ==
    ASSUME LogInv, NEW op \in Operations, NEW k \in Keys \cup {"none"}, NEW e \in -1 .. seq,
           op = "create" => e = 0, op \in {"update", "deleteIf"} => e > 0
    PROVE  Publish(op, k, e) \in CallTypes /\ Expects(Publish(op, k, e))
<1>1. e \in -1 .. MaxRev /\ seq \in Nat /\ 0 \in 0 .. MaxRev /\ 0 \in 0 .. seq /\ 0 \notin DOMAIN log
  BY KvAssumption DEF LogInv
<1>. QED  BY <1>1 DEF CallTypes, Expects, Deleted, Publish, Calling

(* One that has more to do, or that reads first.                           *)
LEMMA ListIs ==
    ASSUME LogInv, NEW op \in {"get", "deleteAll", "purgeDeletes"}, NEW k \in Keys \cup {"none"},
           NEW p \in {"publish", "get", "purging"}, NEW todo \in SUBSET Keys
    PROVE  Calling(op, k, p, -1, todo) \in CallTypes /\ Expects(Calling(op, k, p, -1, todo))
<1>1. seq \in Nat /\ 0 \in 0 .. MaxRev /\ 0 \in 0 .. seq /\ -1 \in -1 .. MaxRev
  BY KvAssumption DEF LogInv
<1>2. op \in Operations  BY DEF Operations
<1>. QED  BY <1>1, <1>2 DEF CallTypes, Expects, Calling

LEMMA CallsKeep == ASSUME KvInv, NEW c \in Clients, Calls(c) PROVE KvInv'
<1>1. /\ calls \in [Clients -> CallTypes] /\ calls[c] \in CallTypes /\ LogInv /\ seq \in Nat
      /\ Expects(calls[c]) /\ UNCHANGED <<log, seq>>
  BY DEF KvInv, LogInv, Calls
<1>2. -1 \in -1 .. seq /\ 0 \in -1 .. seq  BY <1>1
<1>3. ASSUME NEW op \in Operations, NEW k \in Keys \cup {"none"}, NEW e \in -1 .. seq,
             Begin(c, Publish(op, k, e)), op = "create" => e = 0, op \in {"update", "deleteIf"} => e > 0
      PROVE  KvInv'
  BY <1>1, <1>3, PublishIs, Moves DEF Begin
<1>4. ASSUME NEW k \in Keys, put(c, k) \/ create(c, k) \/ delete(c, k) PROVE KvInv'
  BY <1>2, <1>3, <1>4 DEF put, create, delete, Operations
<1>5. ASSUME update(c) \/ deleteIf(c) PROVE KvInv'
  <2>1. calls[c].key \in Keys \cup {"none"} /\ calls[c].rev \in -1 .. seq /\ calls[c].rev > 0
    BY <1>1, <1>5 DEF CallTypes, Expects, update, deleteIf
  <2>2. "update" \in Operations /\ "deleteIf" \in Operations  BY DEF Operations
  <2>. QED  BY <1>3, <1>5, <2>1, <2>2 DEF update, deleteIf
<1>6. ASSUME NEW op \in {"get", "deleteAll", "purgeDeletes"}, NEW k \in Keys \cup {"none"},
             NEW p \in {"publish", "get", "purging"}, NEW todo \in SUBSET Keys,
             Begin(c, Calling(op, k, p, -1, todo))
      PROVE  KvInv'
  BY <1>1, <1>6, ListIs, Moves DEF Begin
<1>7. ASSUME NEW k \in Keys, get(c, k) PROVE KvInv'  BY <1>6, <1>7 DEF get
<1>8. ASSUME deleteAll(c) PROVE KvInv'  BY <1>6, <1>8 DEF deleteAll
<1>9. ASSUME purgeDeletes(c) PROVE KvInv'  BY <1>6, <1>9 DEF purgeDeletes
<1>. QED  BY <1>4, <1>5, <1>7, <1>8, <1>9 DEF Calls

LEMMA AnsweredKeeps == ASSUME KvInv, NEW c \in Clients, Answered(c) PROVE KvInv'
<1>1. PICK asked \in CallTypes : asked = calls[c] /\ Expects(asked)  BY DEF KvInv
<1>2. LogInv /\ UNCHANGED <<log, seq>>  BY DEF KvInv, Answered
<1>3. PICK d : calls' = [calls EXCEPT ![c] = d] /\
       d = CASE asked.phase = "refused" /\ asked.op = "create" /\ asked.expect = 0 -> [asked EXCEPT !.phase = "get"]
             [] asked.todo # {} -> [asked EXCEPT !.phase = "publish", !.key = CHOOSE k \in asked.todo : TRUE,
                                               !.todo = @ \ {CHOOSE k \in asked.todo : TRUE}]
             [] OTHER -> Returned(asked.key, IF asked.phase = "acked" THEN asked.rev ELSE 0)
  BY <1>1 DEF Answered
<1>4. d = [asked EXCEPT !.phase = "get"] => d \in CallTypes /\ Expects(d)
  BY <1>1 DEF CallTypes, Expects
<1>5. CASE asked.todo # {} /\ d = [asked EXCEPT !.phase = "publish", !.key = CHOOSE k \in asked.todo : TRUE,
                                              !.todo = @ \ {CHOOSE k \in asked.todo : TRUE}]
  <2>1. PICK k : k = CHOOSE q \in asked.todo : TRUE  OBVIOUS
  <2>2. k \in asked.todo /\ asked.todo \subseteq Keys  BY <1>1, <1>5, <2>1 DEF CallTypes
  <2>3. d = [asked EXCEPT !.phase = "publish", !.key = k, !.todo = asked.todo \ {k}]  BY <1>5, <2>1
  <2>4. d \in CallTypes /\ d.op = asked.op /\ d.expect = asked.expect /\ d.rev = asked.rev
    BY <1>1, <2>2, <2>3 DEF CallTypes
  <2>5. Expects(d)  BY <1>1, <2>4 DEF Expects
  <2>. QED  BY <1>2, <1>3, <2>4, <2>5, Moves
<1>6. CASE \E r \in {0, asked.rev} : d = Returned(asked.key, r)
  <2>1. PICK r \in {0, asked.rev} : d = Returned(asked.key, r)  BY <1>6
  <2>2. r \in 0 .. seq /\ asked.key \in Keys \cup {"none"}  BY <1>1, <1>2 DEF Expects, CallTypes, LogInv
  <2>3. d \in CallTypes /\ Expects(d)  BY <1>2, <2>1, <2>2, IdleIs
  <2>. QED  BY <1>2, <1>3, <2>3, Moves
<1>7. CASE d \in CallTypes /\ Expects(d)  BY <1>2, <1>3, <1>7, Moves
<1>. QED  BY <1>3, <1>4, <1>5, <1>6, <1>7

(* create() goes on with the revision of the delete it read.               *)
LEMMA GotKeeps == ASSUME KvInv, NEW c \in Clients, Got(c) PROVE KvInv'
<1>1. PICK asked \in CallTypes : asked = calls[c] /\ Expects(asked)  BY DEF KvInv
<1>2. LogInv /\ UNCHANGED <<log, seq>>  BY DEF KvInv, Got
<1>3. PICK r \in {Rev(asked.key)} \cup (IF Bucket.direct THEN Revs(asked.key) \cup {0} ELSE {}) :
       calls' = [calls EXCEPT ![c] =
         IF asked.op = "create" /\ r # 0 /\ log[r].op \in {"DEL", "PURGE"}
         THEN [asked EXCEPT !.phase = "publish", !.expect = r]
         ELSE Returned(asked.key, IF asked.op = "get" THEN r ELSE 0)]
  BY <1>1 DEF Got
<1>4. r \in 0 .. seq
  <2>1. Rev(asked.key) \in 0 .. seq  BY <1>2, RevIn
  <2>2. Revs(asked.key) \subseteq 0 .. seq /\ 0 \in 0 .. seq  BY <1>2 DEF LogInv, Revs
  <2>. QED  BY <1>3, <2>1, <2>2
<1>5. CASE asked.op = "create" /\ r # 0 /\ log[r].op \in {"DEL", "PURGE"}
  <2>1. PICK d : d = [asked EXCEPT !.phase = "publish", !.expect = r]  OBVIOUS
  <2>2. r \in -1 .. MaxRev  BY <1>2, <1>4, KvAssumption DEF LogInv
  <2>3. d \in CallTypes /\ d.op = asked.op /\ d.expect = r /\ d.rev = asked.rev
    BY <1>1, <2>1, <2>2 DEF CallTypes
  <2>4. Expects(d)  BY <1>1, <1>4, <1>5, <2>3 DEF Expects, Deleted
  <2>5. calls' = [calls EXCEPT ![c] = d]  BY <1>3, <1>5, <2>1
  <2>. QED  BY <1>2, <2>3, <2>4, <2>5, Moves
<1>6. CASE ~(asked.op = "create" /\ r # 0 /\ log[r].op \in {"DEL", "PURGE"})
  <2>1. PICK q : q = IF asked.op = "get" THEN r ELSE 0  OBVIOUS
  <2>2. q \in 0 .. seq /\ asked.key \in Keys \cup {"none"}  BY <1>1, <1>2, <1>4, <2>1 DEF CallTypes, LogInv
  <2>3. PICK d : d = Returned(asked.key, q)  OBVIOUS
  <2>4. d \in CallTypes /\ Expects(d)  BY <1>2, <2>2, <2>3, IdleIs
  <2>5. calls' = [calls EXCEPT ![c] = d]  BY <1>3, <1>6, <2>1, <2>3
  <2>. QED  BY <1>2, <2>4, <2>5, Moves
<1>. QED  BY <1>5, <1>6

LEMMA KvStep == ASSUME KvInv, [KvNext]_kvars PROVE KvInv'
<1>1. ASSUME NEW c \in Clients, Calls(c) PROVE KvInv'  BY <1>1, CallsKeep
<1>2. ASSUME NEW c \in Clients, Stored(c) PROVE KvInv'  BY <1>2, StoredKeeps
<1>3. ASSUME NEW c \in Clients, Answered(c) PROVE KvInv'  BY <1>3, AnsweredKeeps
<1>4. ASSUME NEW c \in Clients, Got(c) PROVE KvInv'  BY <1>4, GotKeeps
<1>5. LogInv  BY DEF KvInv
<1>6. ASSUME NEW c \in Clients, Timeout(c) PROVE KvInv'
  <2>1. PICK d : d = Returned("none", 0)  OBVIOUS
  <2>2. 0 \in 0 .. seq  BY <1>5 DEF LogInv
  <2>3. d \in CallTypes /\ Expects(d)  BY <1>5, <2>1, <2>2, IdleIs
  <2>4. calls' = [calls EXCEPT ![c] = d] /\ UNCHANGED <<log, seq>>  BY <1>6, <2>1 DEF Timeout, Idle
  <2>. QED  BY <2>3, <2>4, Moves
<1>7. ASSUME NEW S, log' = Without(S), seq' = seq, NEW c \in Clients, NEW d \in CallTypes, Expects(d),
             calls' = [calls EXCEPT ![c] = d]
      PROVE  KvInv'
  <2>1. LogInv' /\ CompareAndSet' /\ \A asked : Expects(asked) => Expects(asked)'  BY <1>7, WithoutKeeps
  <2>2. calls' \in [Clients -> CallTypes] /\ \A b \in Clients : Expects(calls'[b])  BY <1>7 DEF KvInv
  <2>. QED  BY <2>1, <2>2 DEF KvInv
<1>8. ASSUME NEW c \in Clients, Purged(c) PROVE KvInv'
  <2>1. PICK asked \in CallTypes : asked = calls[c] /\ Expects(asked)  BY DEF KvInv
  <2>2. CASE calls' = [calls EXCEPT ![c] = Idle] /\ UNCHANGED log
    <3>1. PICK d : d = Returned("none", 0)  OBVIOUS
    <3>2. 0 \in 0 .. seq  BY <1>5 DEF LogInv
    <3>3. d \in CallTypes /\ Expects(d)  BY <1>5, <3>1, <3>2, IdleIs
    <3>4. calls' = [calls EXCEPT ![c] = d] /\ UNCHANGED <<log, seq>>  BY <1>8, <2>2, <3>1 DEF Purged, Idle
    <3>. QED  BY <3>3, <3>4, Moves
  <2>3. CASE \E k \in calls[c].todo : \E keep \in {{}, {Rev(k)}} :
               calls' = [calls EXCEPT ![c].todo = @ \ {k}] /\ log' = Without(Revs(k) \ keep)
    <3>1. PICK k \in calls[c].todo : \E keep \in {{}, {Rev(k)}} :
            calls' = [calls EXCEPT ![c].todo = @ \ {k}] /\ log' = Without(Revs(k) \ keep)
      BY <2>3
    <3>2. PICK d : d = [asked EXCEPT !.todo = asked.todo \ {k}]  OBVIOUS
    <3>3. d \in CallTypes /\ d.op = asked.op /\ d.expect = asked.expect /\ d.rev = asked.rev
      BY <2>1, <3>2 DEF CallTypes
    <3>4. Expects(d)  BY <2>1, <3>3 DEF Expects
    <3>5. calls' = [calls EXCEPT ![c] = d] /\ seq' = seq  BY <1>8, <2>1, <3>1, <3>2 DEF Purged
    <3>6. PICK S : log' = Without(S)  BY <3>1
    <3>. QED  BY <1>7, <3>1, <3>3, <3>4, <3>5, <3>6
  <2>. QED  BY <1>8, <2>2, <2>3 DEF Purged
<1>9. ASSUME NEW c \in Clients, purgeBucket(c) PROVE KvInv'
  <2>1. log' = Without(DOMAIN log) /\ seq' = seq /\ calls' = calls  BY <1>9 DEF purgeBucket, Without
  <2>2. PICK S : S = DOMAIN log  OBVIOUS
  <2>3. LogInv' /\ CompareAndSet' /\ \A asked : Expects(asked) => Expects(asked)'
    BY <2>1, <2>2, WithoutKeeps
  <2>. QED  BY <2>1, <2>3 DEF KvInv
<1>10. ASSUME UNCHANGED <<log, seq, calls>> PROVE KvInv'
  BY <1>10 DEF KvInv, LogInv, Expects, Deleted, CompareAndSet
<1>11. CASE UNCHANGED kvars  BY <1>10, <1>11 DEF kvars
<1>12. CASE watch \/ Deliver \/ OnMessage  BY <1>10, <1>12 DEF watch, Deliver, OnMessage
<1>13. CASE Subscribed \/ Iterate \/ Stop  BY <1>10, <1>13 DEF Subscribed, Iterate, Stop
<1>. QED  BY <1>1, <1>2, <1>3, <1>4, <1>6, <1>8, <1>9, <1>11, <1>12, <1>13 DEF KvNext

(* A create() takes effect only on a key that had no value at that moment, *)
(* and an update() or a conditional delete only on the revision the client *)
(* had read, whatever other clients do between its requests, however stale *)
(* its reads are and whichever of its requests time out (kv.ts create(),   *)
(* update(), _doDeleteOrPurge()).                                          *)
THEOREM WritesCompare == KvSpec => []CompareAndSet
<1>1. KvInit => KvInv
  <2>. SUFFICES ASSUME KvInit PROVE KvInv  OBVIOUS
  <2>1. log = [r \in {} |-> 0] /\ seq = 0 /\ calls = [c \in Clients |-> Returned("none", 0)]
    BY DEF KvInit, Empty, Idle
  <2>2. LogInv /\ CompareAndSet  BY <2>1, KvAssumption DEF LogInv, CompareAndSet
  <2>3. Returned("none", 0) \in CallTypes /\ Expects(Returned("none", 0))  BY <2>1, <2>2, IdleIs
  <2>. QED  BY <2>1, <2>2, <2>3 DEF KvInv
<1>2. KvInv /\ [KvNext]_kvars => KvInv'  BY KvStep
<1>3. KvInv => CompareAndSet  BY DEF KvInv
<1>. QED  BY <1>1, <1>2, <1>3, PTL DEF KvSpec

-----------------------------------------------------------------------------
(* The object store.                                                       *)

(* The stores the theorem is about. *)
Safe(w) == /\ w.ops \cap {"update", "rename"} = {}
           /\ "putAck" \notin w.errors
StoreAssumption ==
  /\ Chunks \in Nat \ {0} /\ MaxNuid \in Nat /\ "none" \notin Names
  /\ \A w \in OsUses : Safe(w)

Puts == {"put", "putIf"}
Infos ==
  [nuid : 0..MaxNuid, chunks : Nat, deleted : BOOLEAN, link : Names \cup {"none"}, rev : Nat]
Phases == {"idle", "info", "chunks", "failed", "clean", "meta", "purge", "reading"}
Results == {"none", "null", "missing", "error", "object", "corrupt"}
CallStates ==
  [op : Methods \cup {"none"}, name : Names \cup {"none"}, to : Names \cup {"none"}, phase : Phases, info : Infos,
   id : 0..MaxNuid, flight : Nat, got : Nat, result : Results]

Typed ==
  /\ osUse \in OsUses /\ nuid \in 0..MaxNuid /\ metaSeq \in Nat
  /\ meta \in [Names -> Infos] /\ chunks \in [1..MaxNuid -> Nat]
  /\ users \in [Users -> CallStates]

(* A call that will write or purge what it read; one that publishes chunks *)
(* under a nuid that is not in a meta message.                             *)
Holds(s)   == s.phase \in {"chunks", "meta", "purge"}
Putting(s) ==
  \/ s.phase \in {"chunks", "clean", "failed"}
  \/ s.phase = "meta" /\ s.op \in Puts

(* The nuid belongs to the name. *)
Claim(id, n) ==
  \/ meta[n].nuid = id
  \/ \E u \in Users : Holds(users[u]) /\ users[u].info.nuid = id /\ users[u].name = n
Claimed(id) == \E n \in Names : Claim(id, n)
Nuids == 1..MaxNuid

OneName == \A id \in Nuids : \A n, m \in Names : Claim(id, n) /\ Claim(id, m) => n = m

(* A nuid is new until its meta message is stored. *)
Fresh ==
  /\ \A id \in Nuids : id > nuid => ~Claimed(id) /\ chunks[id] = 0
  /\ \A u \in Users : Putting(users[u]) => users[u].id \in 1..nuid /\ ~Claimed(users[u].id)
  /\ \A u, v \in Users : Putting(users[u]) /\ Putting(users[v]) /\ users[u].id = users[v].id => u = v

(* What the phase of a call says of it. *)
Counted(s, stored) ==
  /\ s.phase = "chunks" => s.flight > 0 /\ stored[s.id] + s.flight = Chunks
  /\ s.phase = "meta" /\ s.op \in Puts => stored[s.id] = Chunks
Phased(s) ==
  /\ s.flight > 0 => s.phase \in {"chunks", "clean", "failed"}
  /\ s.phase \in {"chunks", "clean", "failed"} => s.op \in Puts
  /\ s.phase = "info" => s.op \in Puts \cup {"delete", "link", "get"}
  /\ s.phase \in {"meta", "purge"} => s.op \in Puts \cup {"delete", "link"}
  /\ s.phase \notin {"idle", "failed"} => s.name \in Names /\ s.to \in Names

(* What is purged is not live, and what is live is complete. *)
Dead(id)   == \A n \in Names : meta[n].nuid = id => meta[n].deleted
Purging(s) == s.phase = "purge" => s.info.nuid # 0 /\ Dead(s.info.nuid)
CallsOk    == \A u \in Users : Counted(users[u], chunks) /\ Phased(users[u]) /\ Purging(users[u])
Whole(n) ==
  IsLive(meta[n]) /\ meta[n].link = "none" =>
    meta[n].nuid \in Nuids /\ meta[n].chunks = Chunks /\ chunks[meta[n].nuid] = Chunks
Complete == \A n \in Names : Whole(n)

StoreInv == Typed /\ OneName /\ Fresh /\ CallsOk /\ Complete

LEMMA CompleteIsLive == ASSUME StoreInv PROVE LiveComplete
BY DEF StoreInv, Complete, Whole, LiveComplete

LEMMA StoreInit == ASSUME StoreAssumption, OsInit PROVE StoreInv
<1>. USE DEF OsInit, Nothing, StoreAssumption
<1>2. Absent \in Infos /\ Absent.nuid = 0 /\ Absent.rev = 0  BY DEF Absent, Infos
<1>3. Free \in CallStates /\ Free.phase = "idle" /\ Free.flight = 0
  BY <1>2 DEF Free, CallStates, Phases, Results
<1>4. Typed  BY <1>2, <1>3 DEF Typed
<1>5. /\ \A n \in Names : meta[n].nuid = 0 /\ ~IsLive(meta[n])
      /\ \A u \in Users : users[u].phase = "idle" /\ users[u].flight = 0
  BY <1>2, <1>3 DEF IsLive
<1>6. \A id \in Nuids : ~Claimed(id)  BY <1>5 DEF Claimed, Claim, Holds, Nuids
<1>7. OneName /\ Fresh  BY <1>4, <1>5, <1>6 DEF OneName, Fresh, Claimed, Putting, Nuids
<1>8. CallsOk /\ Complete  BY <1>5 DEF CallsOk, Counted, Phased, Purging, Complete, Whole
<1>. QED  BY <1>4, <1>7, <1>8 DEF StoreInv

(* A step of one user that stores no meta message: it claims nothing new,  *)
(* publishes under its own nuid or the next, and changes the chunks of a   *)
(* nuid that nobody else publishes and that is not live.                   *)
LEMMA UserStep ==
  ASSUME StoreAssumption, StoreInv, NEW u \in Users, NEW t \in CallStates, NEW x \in Nat, NEW k \in Nat,
         users' = [users EXCEPT ![u] = t], UNCHANGED <<osUse, meta>>, metaSeq' = metaSeq,
         chunks' = [chunks EXCEPT ![x] = k],
         nuid' \in 0..MaxNuid, nuid' = nuid \/ nuid' = nuid + 1,
         Holds(t) => t.info.nuid = 0 \/ Claim(t.info.nuid, t.name),
         Putting(t) => \/ Putting(users[u]) /\ t.id = users[u].id
                       \/ nuid' = nuid + 1 /\ t.id = nuid',
         x \in Nuids => \/ chunks[x] = k
                        \/ /\ x <= nuid /\ Dead(x)
                           /\ \A v \in Users \ {u} : Putting(users[v]) => users[v].id # x,
         Counted(t, chunks'), Phased(t), Purging(t)
  PROVE  StoreInv'
<1>. USE DEF Nuids
<1>0. Typed  BY DEF StoreInv
<1>1. Typed'  BY <1>0 DEF Typed
<1>2. /\ users'[u] = t /\ \A v \in Users : v # u => users'[v] = users[v]
      /\ \A i \in Nuids : chunks'[i] = (IF i = x THEN k ELSE chunks[i])
  BY <1>0 DEF Typed
<1>3. \A id \in Nuids, n \in Names : Claim(id, n)' => Claim(id, n)
  BY <1>0, <1>2 DEF Claim
<1>4. OneName'  BY <1>3 DEF StoreInv, OneName
<1>5. \A id \in Nuids : Claimed(id)' => Claimed(id)  BY <1>3 DEF Claimed
<1>6. Fresh'
  <2>1. ASSUME NEW id \in Nuids, id > nuid' PROVE ~Claimed(id)' /\ chunks'[id] = 0
    BY <2>1, <1>0, <1>2, <1>5 DEF StoreInv, Fresh, Typed
  <2>2. ASSUME NEW v \in Users, Putting(users'[v])
        PROVE  users'[v].id \in 1..nuid' /\ ~Claimed(users[v].id)'
    <3>1. CASE Putting(users[v]) /\ users'[v].id = users[v].id
      <4>1. users[v].id \in 1..nuid /\ ~Claimed(users[v].id)  BY <3>1 DEF StoreInv, Fresh
      <4>2. nuid \in 0..MaxNuid /\ MaxNuid \in Nat  BY <1>0 DEF Typed, StoreAssumption
      <4>3. users[v].id \in Nuids /\ users'[v].id \in 1..nuid'  BY <4>1, <4>2, <3>1
      <4>. QED  BY <4>1, <4>3, <3>1, <1>3 DEF Claimed
    <3>2. CASE v = u /\ nuid' = nuid + 1 /\ t.id = nuid'
      BY <3>2, <1>0, <1>2, <1>5 DEF StoreInv, Fresh, Typed
    <3>. QED  BY <2>2, <3>1, <3>2, <1>2 DEF Putting
  <2>3. ASSUME NEW v \in Users, NEW w \in Users, Putting(users'[v]), Putting(users'[w]),
               users'[v].id = users'[w].id
        PROVE  v = w
    <3>1. \A q \in Users \ {u} : Putting(users[q]) => users[q].id \in 1..nuid
      BY DEF StoreInv, Fresh
    <3>2. CASE nuid' = nuid + 1 /\ t.id = nuid' /\ (v = u \/ w = u)
      BY <3>1, <3>2, <2>3, <1>0, <1>2 DEF Typed
    <3>3. CASE v # u /\ w # u  BY <3>3, <2>3, <1>2 DEF StoreInv, Fresh
    <3>4. CASE Putting(users[u]) /\ t.id = users[u].id
      BY <3>4, <2>3, <1>2 DEF StoreInv, Fresh
    <3>. QED  BY <3>2, <3>3, <3>4, <2>3, <1>2 DEF Putting
  <2>. QED  BY <2>1, <2>2, <2>3 DEF Fresh, Putting
<1>7. CallsOk'
  <2>1. \A i \in Nuids : Dead(i)' <=> Dead(i)  BY DEF Dead
  <2>2. ASSUME NEW v \in Users, v # u, Putting(users[v]) PROVE chunks'[users[v].id] = chunks[users[v].id]
    BY <2>2, <1>0, <1>2 DEF StoreInv, Fresh, Typed
  <2>3. ASSUME NEW v \in Users, v # u PROVE Counted(users'[v], chunks') /\ Phased(users'[v]) /\ Purging(users[v])'
    BY <2>2, <2>3, <1>2 DEF StoreInv, CallsOk, Counted, Phased, Purging, Dead, Putting
  <2>4. Counted(users'[u], chunks') /\ Phased(users'[u]) /\ Purging(users[u])'
    BY <1>2 DEF Purging, Dead, Counted, Phased
  <2>. QED  BY <2>3, <2>4 DEF CallsOk, Counted, Phased, Purging, Dead
<1>8. Complete'  BY <1>0, <1>2 DEF StoreInv, Complete, Whole, Dead, IsLive
<1>. QED  BY <1>1, <1>4, <1>6, <1>7, <1>8 DEF StoreInv

(* The steps of a user that store nothing and publish nothing new.         *)
LEMMA QuietStep ==
  ASSUME StoreAssumption, StoreInv, NEW u \in Users, NEW t \in CallStates,
         users' = [users EXCEPT ![u] = t], UNCHANGED <<osUse, meta, chunks, nuid, metaSeq>>,
         Holds(t) => t.info.nuid = 0 \/ Claim(t.info.nuid, t.name),
         Putting(t) => Putting(users[u]) /\ t.id = users[u].id,
         Counted(t, chunks), Phased(t), Purging(t)
  PROVE  StoreInv'
<1>1. chunks' = [chunks EXCEPT ![0] = 0] /\ nuid' \in 0..MaxNuid  BY DEF StoreInv, Typed, Nuids
<1>2. Counted(t, chunks') /\ Purging(t)'  BY DEF Counted, Purging, Dead
<1>3. 0 \notin Nuids /\ 0 \in Nat  BY DEF Nuids
<1>. QED  BY <1>1, <1>2, <1>3, UserStep

LEMMA Resting ==
  ASSUME StoreAssumption, NEW t \in CallStates, t.phase = "idle", t.flight = 0
  PROVE  ~Holds(t) /\ ~Putting(t) /\ Counted(t, chunks) /\ Phased(t) /\ Purging(t)
BY DEF Holds, Putting, Counted, Phased, Purging

LEMMA Frees ==
  ASSUME StoreAssumption, NEW r \in Results
  PROVE  /\ Free \in CallStates /\ Free.phase = "idle" /\ Free.flight = 0
         /\ [Free EXCEPT !.result = r] \in CallStates
         /\ [Free EXCEPT !.result = r].phase = "idle" /\ [Free EXCEPT !.result = r].flight = 0
<1>1. Absent \in Infos  BY DEF Absent, Infos, StoreAssumption
<1>2. Free \in CallStates /\ Free.phase = "idle" /\ Free.flight = 0
  BY <1>1 DEF Free, CallStates, Phases, Results, StoreAssumption
<1>. QED  BY <1>2 DEF CallStates

LEMMA CallsStep ==
  ASSUME StoreAssumption, StoreInv, NEW u \in Users, OsCalls(u) PROVE StoreInv'
<1>1. PICK op \in {"put", "putIf", "delete", "update", "get", "link", "rename"}, n \in Names, to \in Names :
        call(u, op, n, to)
  BY DEF OsCalls
<1>2. op \in Puts \cup {"delete", "link", "get"}
  BY <1>1 DEF call, StoreInv, Typed, StoreAssumption, Safe, Puts
<1>3. Free \in CallStates /\ Free.flight = 0  BY Frees DEF Results
<1>. DEFINE known == IF op = "link" THEN meta[to] ELSE Absent
            t == [Free EXCEPT !.op = op, !.name = n, !.to = to, !.phase = "info", !.info = known]
<1>4. t \in CallStates /\ t.phase = "info" /\ t.op = op /\ t.name = n /\ t.to = to /\ t.flight = 0
  <2>1. known \in Infos  BY DEF StoreInv, Typed, Absent, Infos, StoreAssumption
  <2>. HIDE DEF known
  <2>. QED  BY <1>2, <1>3, <2>1 DEF CallStates, Phases, Methods, Puts
<1>5. users' = [users EXCEPT ![u] = t] /\ UNCHANGED <<osUse, meta, chunks, nuid, metaSeq>>
  BY <1>1 DEF call, Set, Rest
<1>. HIDE DEF t
<1>6. ~Holds(t) /\ ~Putting(t) /\ Counted(t, chunks) /\ Phased(t) /\ Purging(t)
  BY <1>2, <1>4 DEF Holds, Putting, Counted, Phased, Purging
<1>. QED  BY <1>4, <1>5, <1>6, QuietStep

LEMMA InfoStep ==
  ASSUME StoreAssumption, StoreInv, NEW u \in Users, rawInfo(u) PROVE StoreInv'
<1>. DEFINE s == users[u]
            i == meta[s.name]
<1>1. /\ s \in CallStates /\ s.phase = "info" /\ s.name \in Names /\ s.to \in Names /\ i \in Infos
      /\ s.op \in Puts \cup {"delete", "link", "get"} /\ s.flight = 0
      /\ UNCHANGED <<osUse, meta, chunks, metaSeq>>
  BY DEF rawInfo, StoreInv, Typed, CallsOk, Phased, Rest, CallStates
<1>2. ASSUME NEW r \in Results, Returns(u, r), nuid' = nuid PROVE StoreInv'
  <2>. DEFINE t == [Free EXCEPT !.result = r]
  <2>1. t \in CallStates /\ t.phase = "idle" /\ t.flight = 0  BY Frees
  <2>2. users' = [users EXCEPT ![u] = t]  BY <1>2 DEF Returns, Set
  <2>. HIDE DEF t
  <2>. QED  BY <1>1, <1>2, <2>1, <2>2, Resting, QuietStep
<1>3. ASSUME GoesOn(u, s, i), nuid' = nuid, s.op \in {"delete", "link"} PROVE StoreInv'
  <2>. DEFINE t == [s EXCEPT !.phase = "meta", !.info = i]
  <2>1. t \in CallStates /\ t.phase = "meta" /\ t.info = i /\ t.name = s.name /\ t.to = s.to /\ t.op = s.op /\ t.flight = 0
    BY <1>1 DEF CallStates, Phases
  <2>2. users' = [users EXCEPT ![u] = t]  BY <1>3 DEF GoesOn, Set
  <2>3. Claim(i.nuid, s.name)  BY DEF Claim
  <2>. HIDE DEF t
  <2>4. ~Putting(t) /\ Counted(t, chunks) /\ Phased(t) /\ Purging(t)
    BY <1>1, <1>3, <2>1 DEF Putting, Counted, Phased, Purging, Puts
  <2>. QED  BY <1>1, <1>3, <2>1, <2>2, <2>3, <2>4, QuietStep
<1>4. CASE s.op \in Puts
  <2>. DEFINE t == [s EXCEPT !.info = i, !.id = nuid + 1, !.flight = Chunks, !.phase = "chunks"]
  <2>1. _put(u, s, i)  BY <1>4 DEF rawInfo, Puts
  <2>2. users' = [users EXCEPT ![u] = t]  BY <2>1 DEF _put, Set
  <2>3. nuid \in 0..MaxNuid /\ nuid < MaxNuid /\ nuid' = nuid + 1 /\ MaxNuid \in Nat /\ Chunks \in Nat \ {0}
    BY <2>1 DEF _put, StoreInv, Typed, StoreAssumption
  <2>4. nuid + 1 \in Nuids /\ nuid + 1 > nuid  BY <2>3 DEF Nuids
  <2>5. ~Claimed(nuid + 1) /\ chunks[nuid + 1] = 0  BY <2>4 DEF StoreInv, Fresh
  <2>6. /\ t \in CallStates /\ t.phase = "chunks" /\ t.info = i /\ t.name = s.name /\ t.to = s.to /\ t.op = s.op
        /\ t.flight = Chunks /\ t.id = nuid'
    <3>1. nuid' \in 0..MaxNuid /\ Chunks \in Nat  BY <2>3, <2>4 DEF Nuids
    <3>2. t = [s EXCEPT !.info = i, !.id = nuid', !.flight = Chunks, !.phase = "chunks"]  BY <2>3
    <3>3. s \in CallStates /\ i \in Infos /\ "chunks" \in Phases  BY <1>1 DEF Phases
    <3>. HIDE DEF t, s, i
    <3>. QED  BY <3>1, <3>2, <3>3 DEF CallStates
  <2>7. Claim(i.nuid, s.name)  BY DEF Claim
  <2>. HIDE DEF t
  <2>8. Counted(t, chunks') /\ Phased(t) /\ Purging(t)
    BY <1>1, <1>4, <2>3, <2>5, <2>6 DEF Counted, Phased, Purging, Puts
  <2>9. chunks' = [chunks EXCEPT ![0] = 0] /\ nuid' \in 0..MaxNuid /\ 0 \notin Nuids /\ 0 \in Nat
    BY <1>1, <2>3 DEF StoreInv, Typed, Nuids
  <2>10. Holds(t) => t.info.nuid = 0 \/ Claim(t.info.nuid, t.name)  BY <2>6, <2>7
  <2>. HIDE DEF s, i
  <2>. QED  BY <1>1, <2>2, <2>3, <2>6, <2>8, <2>9, <2>10, UserStep
<1>5. CASE s.op = "get"
  <2>1. osGet(u, s, i) /\ nuid' = nuid  BY <1>5 DEF rawInfo
  <2>2. CASE IsLive(i) /\ i.link # "none"
    <3>. DEFINE t == [s EXCEPT !.name = i.link]
    <3>1. users' = [users EXCEPT ![u] = t]  BY <2>1, <2>2 DEF osGet, Set
    <3>2. t \in CallStates /\ t.phase = "info" /\ t.name \in Names /\ t.to = s.to /\ t.op = "get" /\ t.flight = 0
      BY <1>1, <1>5, <2>2 DEF CallStates, Infos
    <3>. HIDE DEF t
    <3>3. ~Holds(t) /\ ~Putting(t) /\ Counted(t, chunks) /\ Phased(t) /\ Purging(t)
      BY <1>1, <3>2 DEF Holds, Putting, Counted, Phased, Purging
    <3>. QED  BY <1>1, <2>1, <3>1, <3>2, <3>3, QuietStep
  <2>3. CASE IsLive(i) /\ i.link = "none"
    <3>. DEFINE t == [s EXCEPT !.phase = "reading", !.info = i]
    <3>1. users' = [users EXCEPT ![u] = t]  BY <2>1, <2>3 DEF osGet, Set
    <3>2. t \in CallStates /\ t.phase = "reading" /\ t.name = s.name /\ t.to = s.to /\ t.flight = 0
      BY <1>1 DEF CallStates, Phases
    <3>. HIDE DEF t
    <3>3. ~Holds(t) /\ ~Putting(t) /\ Counted(t, chunks) /\ Phased(t) /\ Purging(t)
      BY <1>1, <3>2 DEF Holds, Putting, Counted, Phased, Purging
    <3>. QED  BY <1>1, <2>1, <3>1, <3>2, <3>3, QuietStep
  <2>4. CASE ~IsLive(i)  BY <1>2, <2>1, <2>4 DEF osGet, Results
  <2>. QED  BY <2>2, <2>3, <2>4
<1>6. CASE s.op = "delete"
  BY <1>2, <1>3, <1>6 DEF rawInfo, osDelete, Puts, Results
<1>7. CASE s.op = "link"
  BY <1>2, <1>3, <1>7 DEF rawInfo, link, Puts, Results
<1>. QED  BY <1>1, <1>4, <1>5, <1>6, <1>7

LEMMA ChunkStoredStep ==
  ASSUME StoreAssumption, StoreInv, NEW u \in Users, ChunkStored(u) PROVE StoreInv'
<1>. DEFINE s == users[u]
            t == [s EXCEPT !.flight = @ - 1,
                           !.phase = IF s.phase = "chunks" /\ s.flight = 1 THEN "meta"
                                     ELSE IF s.phase = "failed" /\ s.flight = 1 THEN "idle" ELSE @]
<1>1. /\ s \in CallStates /\ s.flight \in Nat \ {0} /\ s.phase \in {"chunks", "clean", "failed"} /\ s.op \in Puts
      /\ Phased(s) /\ Counted(s, chunks) /\ s.id \in Nat
      /\ UNCHANGED <<osUse, meta, nuid, metaSeq>>
  BY DEF ChunkStored, StoreInv, Typed, CallsOk, Phased, Rest, CallStates
<1>2. Putting(s)  BY <1>1 DEF Putting
<1>3. s.id \in 1..nuid /\ ~Claimed(s.id) /\ nuid \in 0..MaxNuid /\ MaxNuid \in Nat
  BY <1>2 DEF StoreInv, Fresh, Typed, StoreAssumption
<1>4. s.id \in Nuids /\ s.id <= nuid  BY <1>3 DEF Nuids
<1>5. Dead(s.id)  BY <1>3 DEF Dead, Claimed, Claim
<1>6. \A v \in Users \ {u} : Putting(users[v]) => users[v].id # s.id  BY <1>2 DEF StoreInv, Fresh
<1>7. chunks[s.id] \in Nat /\ chunks[s.id] + 1 \in Nat  BY <1>4 DEF StoreInv, Typed, Nuids
<1>8. chunks' = [chunks EXCEPT ![s.id] = chunks[s.id] + 1] /\ users' = [users EXCEPT ![u] = t]
  BY DEF ChunkStored, Set
<1>9. chunks'[s.id] = chunks[s.id] + 1  BY <1>4, <1>8 DEF StoreInv, Typed, Nuids
<1>10. /\ t.phase = IF s.phase = "chunks" /\ s.flight = 1 THEN "meta"
                    ELSE IF s.phase = "failed" /\ s.flight = 1 THEN "idle" ELSE s.phase
       /\ t.flight = s.flight - 1 /\ t.id = s.id /\ t.info = s.info /\ t.name = s.name /\ t.to = s.to /\ t.op = s.op
       /\ t \in CallStates
  <2>. DEFINE p == IF s.phase = "chunks" /\ s.flight = 1 THEN "meta"
                   ELSE IF s.phase = "failed" /\ s.flight = 1 THEN "idle" ELSE s.phase
  <2>1. p \in Phases /\ s.flight - 1 \in Nat  BY <1>1 DEF Phases
  <2>2. t = [s EXCEPT !.flight = s.flight - 1, !.phase = p]  OBVIOUS
  <2>. HIDE DEF p, t, s
  <2>3. t \in CallStates /\ t.phase = p /\ t.flight = s.flight - 1
        /\ t.id = s.id /\ t.info = s.info /\ t.name = s.name /\ t.to = s.to /\ t.op = s.op
    BY <1>1, <2>1, <2>2 DEF CallStates
  <2>. QED  BY <2>3 DEF p
<1>. HIDE DEF t
<1>11. Holds(t) => t.info.nuid = 0 \/ Claim(t.info.nuid, t.name)
  BY <1>1, <1>10 DEF Holds, Claim
<1>12. Counted(t, chunks') /\ Phased(t) /\ Purging(t)
  BY <1>1, <1>7, <1>9, <1>10, StoreAssumption DEF Counted, Phased, Purging, Puts, StoreAssumption
<1>. HIDE DEF s
<1>. QED  BY <1>1, <1>2, <1>3, <1>4, <1>5, <1>6, <1>7, <1>8, <1>10, <1>11, <1>12, UserStep DEF s

LEMMA ChunkFailsStep ==
  ASSUME StoreAssumption, StoreInv, NEW u \in Users, ChunkFails(u) PROVE StoreInv'
<1>. DEFINE s == users[u]
            p == IF s.phase = "chunks" THEN "clean"
                 ELSE IF s.phase = "failed" /\ s.flight = 1 THEN "idle" ELSE s.phase
            t == [s EXCEPT !.flight = s.flight - 1, !.phase = p]
<1>1. /\ s \in CallStates /\ s.flight \in Nat \ {0} /\ s.phase \in {"chunks", "clean", "failed"} /\ s.op \in Puts
      /\ Phased(s)
      /\ UNCHANGED <<osUse, meta, chunks, nuid, metaSeq>>
  BY DEF ChunkFails, StoreInv, Typed, CallsOk, Phased, Rest, CallStates
<1>2. Putting(s)  BY <1>1 DEF Putting
<1>3. users' = [users EXCEPT ![u] = t]  BY DEF ChunkFails, Set
<1>4. p \in {"clean", "failed", "idle"} /\ p \in Phases /\ s.flight - 1 \in Nat /\ (s.flight - 1 > 0 => p # "idle")
  BY <1>1 DEF Phases
<1>5. /\ t \in CallStates /\ t.phase = p /\ t.flight = s.flight - 1
      /\ t.id = s.id /\ t.info = s.info /\ t.name = s.name /\ t.to = s.to /\ t.op = s.op
  <2>. HIDE DEF p, s
  <2>. QED  BY <1>1, <1>4 DEF CallStates
<1>6. p = "clean" => s.phase \in {"chunks", "clean"}  BY <1>1
<1>. HIDE DEF p, t
<1>7. ~Holds(t) /\ Counted(t, chunks) /\ Phased(t) /\ Purging(t)
  BY <1>1, <1>4, <1>5, <1>6 DEF Holds, Counted, Phased, Purging, Puts
<1>. HIDE DEF s
<1>. QED  BY <1>1, <1>2, <1>3, <1>5, <1>7, QuietStep DEF s

LEMMA PurgeFailsStep ==
  ASSUME StoreAssumption, StoreInv, NEW u \in Users, PurgeFails(u) PROVE StoreInv'
<1>. DEFINE s == users[u]
            t == [s EXCEPT !.phase = "failed"]
<1>1. s \in CallStates /\ Phased(s) /\ s.phase \in Phases /\ s.phase \in {"purge", "clean"}
      /\ UNCHANGED <<osUse, meta, chunks, nuid, metaSeq>>
  BY DEF PurgeFails, StoreInv, Typed, CallsOk, Rest, CallStates, Phases
<1>2. CASE s.flight > 0
  <2>1. users' = [users EXCEPT ![u] = t]  BY <1>2 DEF PurgeFails, Set
  <2>2. /\ t \in CallStates /\ t.phase = "failed" /\ t.flight = s.flight /\ t.id = s.id /\ t.op = s.op
        /\ s.phase = "clean" /\ s.op \in Puts
    BY <1>1, <1>2 DEF CallStates, Phased, Phases
  <2>. HIDE DEF t
  <2>3. Putting(s) /\ ~Holds(t) /\ Counted(t, chunks) /\ Phased(t) /\ Purging(t)
    BY <1>2, <2>2 DEF Putting, Holds, Counted, Phased, Purging
  <2>. HIDE DEF s
  <2>. QED  BY <1>1, <2>1, <2>2, <2>3, QuietStep DEF s
<1>3. CASE ~(s.flight > 0)
  <2>1. users' = [users EXCEPT ![u] = Free]  BY <1>3 DEF PurgeFails, Set
  <2>2. Free \in CallStates /\ Free.phase = "idle" /\ Free.flight = 0  BY Frees DEF Results
  <2>. QED  BY <1>1, <2>1, <2>2, Resting, QuietStep
<1>. QED  BY <1>2, <1>3

LEMMA ReadStep ==
  ASSUME StoreAssumption, StoreInv, NEW u \in Users, Read(u) \/ Cancel(u) PROVE StoreInv'
<1>. DEFINE s == users[u]
<1>1. s \in CallStates /\ Phased(s) /\ s.phase = "reading" /\ UNCHANGED <<osUse, meta, chunks, nuid, metaSeq>>
  BY DEF Read, Cancel, StoreInv, Typed, CallsOk, Rest
<1>2. ASSUME NEW t \in {Free} \cup {[Free EXCEPT !.result = r] : r \in {"object", "corrupt"}}, Set(u, t)
      PROVE  StoreInv'
  <2>1. t \in CallStates /\ t.phase = "idle" /\ t.flight = 0  BY Frees DEF Results
  <2>2. users' = [users EXCEPT ![u] = t]  BY <1>2 DEF Set
  <2>. QED  BY <1>1, <2>1, <2>2, Resting, QuietStep
<1>3. CASE Read(u) /\ s.got + 1 < chunks[s.info.nuid]
  <2>. DEFINE t == [s EXCEPT !.got = s.got + 1]
  <2>1. users' = [users EXCEPT ![u] = t]  BY <1>3 DEF Read, Set
  <2>2. t \in CallStates /\ t.phase = "reading" /\ t.flight = s.flight /\ t.name = s.name /\ t.to = s.to
    BY <1>1 DEF CallStates
  <2>. HIDE DEF t
  <2>3. ~Putting(t) /\ ~Holds(t) /\ Counted(t, chunks) /\ Phased(t) /\ Purging(t)
    BY <1>1, <2>2 DEF Putting, Holds, Counted, Phased, Purging
  <2>. QED  BY <1>1, <2>1, <2>2, <2>3, QuietStep
<1>4. CASE Read(u) /\ ~(s.got + 1 < chunks[s.info.nuid])  BY <1>2, <1>4 DEF Read
<1>5. CASE Cancel(u)  BY <1>2, <1>5 DEF Cancel
<1>. QED  BY <1>3, <1>4, <1>5

(* The new meta message of a name: the object of a new nuid, or a delete   *)
(* of the object that was read, or a link.                                 *)
LEMMA Written ==
  ASSUME StoreAssumption, StoreInv, NEW s \in CallStates, s.op \in Puts \cup {"delete", "link"},
         s.to \in Names
  PROVE  /\ NewMeta(s) \in Infos
         /\ s.op \in Puts =>
              /\ NewMeta(s).nuid = s.id /\ NewMeta(s).chunks = Chunks
         /\ s.op = "delete" => NewMeta(s).nuid = s.info.nuid /\ NewMeta(s).deleted
         /\ s.op = "link" => NewMeta(s).nuid = 0 /\ NewMeta(s).link # "none"
<1>1. Revision \in Nat /\ s.info \in Infos /\ s.id \in 0..MaxNuid /\ MaxNuid \in Nat /\ Chunks \in Nat /\ "none" \notin Names
  BY DEF Revision, StoreInv, Typed, StoreAssumption, CallStates
<1>2. CASE s.op \in Puts
  BY <1>1, <1>2 DEF NewMeta, ObjectInfo, Infos, Puts
<1>3. CASE s.op = "delete"
  <2>. DEFINE m == [s.info EXCEPT !.deleted = TRUE, !.chunks = 0, !.rev = Revision]
  <2>1. NewMeta(s) = m  BY <1>3 DEF NewMeta
  <2>2. m \in Infos /\ m.nuid = s.info.nuid /\ m.deleted  BY <1>1 DEF Infos
  <2>. HIDE DEF m
  <2>. QED  BY <1>3, <2>1, <2>2 DEF Puts
<1>4. CASE s.op = "link"
  <2>. DEFINE m == Link(s.to, Revision)
  <2>1. NewMeta(s) = m  BY <1>4 DEF NewMeta
  <2>2. m \in Infos /\ m.nuid = 0 /\ m.link # "none"  
    <3>1. Absent \in Infos /\ Absent.nuid = 0  BY <1>1 DEF Absent, Infos
    <3>. QED  BY <1>1, <3>1 DEF Infos, Link
  <2>. HIDE DEF m
  <2>. QED  BY <1>4, <2>1, <2>2 DEF Puts
<1>. QED  BY <1>2, <1>3, <1>4

LEMMA MetaStep ==
  ASSUME StoreAssumption, StoreInv, NEW u \in Users, NEW t \in CallStates, users[u].phase = "meta",
         meta' = [meta EXCEPT ![MetaName(users[u])] = NewMeta(users[u])], metaSeq' = Revision,
         users' = [users EXCEPT ![u] = t], UNCHANGED <<osUse, chunks, nuid>>,
         t.flight = 0,
         \/ t.phase = "idle"
         \/ /\ t.phase = "purge" /\ t.info = users[u].info /\ t.info.nuid # 0
            /\ t.name = users[u].name /\ t.to = users[u].to /\ t.op = users[u].op
            /\ users[u].op \in Puts \cup {"delete"}
  PROVE  StoreInv'
<1>. DEFINE s == users[u]
            m == NewMeta(s)
<1>1. s \in CallStates /\ Phased(s) /\ Counted(s, chunks)  BY DEF StoreInv, Typed, CallsOk
<1>2. s.op \in Puts \cup {"delete", "link"} /\ s.name \in Names /\ s.to \in Names
  BY <1>1 DEF Phased
<1>3. /\ m \in Infos
      /\ s.op \in Puts => m.nuid = s.id /\ m.chunks = Chunks
      /\ s.op = "delete" => m.nuid = s.info.nuid /\ m.deleted
      /\ s.op = "link" => m.nuid = 0 /\ m.link # "none"
  BY <1>1, <1>2, Written
<1>4. MetaName(s) = s.name  BY <1>2 DEF MetaName, Puts
<1>. HIDE DEF m
<1>5. /\ users'[u] = t /\ \A v \in Users : v # u => users'[v] = users[v]
      /\ meta'[s.name] = m /\ \A n \in Names : n # s.name => meta'[n] = meta[n]
  BY <1>2, <1>4 DEF StoreInv, Typed, m
<1>6. Typed'
  <2>1. Revision \in Nat  BY DEF Revision, StoreInv, Typed
  <2>2. meta' \in [Names -> Infos]  BY <1>2, <1>3, <1>4 DEF StoreInv, Typed, m
  <2>. QED  BY <2>1, <2>2 DEF StoreInv, Typed
<1>7. Holds(s) /\ Claim(s.info.nuid, s.name)  BY DEF Holds, Claim
<1>8. s.op \in Puts => /\ Putting(s) /\ s.id \in Nuids /\ s.id <= nuid /\ ~Claimed(s.id)
                       /\ \A v \in Users \ {u} : Putting(users[v]) => users[v].id # s.id
  <2>1. nuid \in 0..MaxNuid /\ MaxNuid \in Nat  BY DEF StoreInv, Typed, StoreAssumption
  <2>2. s.op \in Puts => Putting(s)  BY DEF Putting
  <2>3. Putting(s) => /\ s.id \in 1..nuid /\ ~Claimed(s.id)
                      /\ \A v \in Users \ {u} : Putting(users[v]) => users[v].id # s.id
    BY DEF StoreInv, Fresh
  <2>. QED  BY <2>1, <2>2, <2>3 DEF Nuids
<1>9. ASSUME NEW id \in Nuids, NEW n \in Names, Claim(id, n)'
      PROVE  Claim(id, n) \/ (s.op \in Puts /\ id = s.id /\ n = s.name)
  <2>1. CASE meta'[n].nuid = id /\ n # s.name  BY <2>1, <1>5 DEF Claim
  <2>2. CASE meta'[n].nuid = id /\ n = s.name  BY <2>2, <1>2, <1>3, <1>5, <1>7 DEF Nuids
  <2>3. ASSUME NEW v \in Users, Holds(users'[v]), users'[v].info.nuid = id, users'[v].name = n
        PROVE  Claim(id, n)
    <3>1. CASE v # u  BY <2>3, <3>1, <1>5 DEF Claim
    <3>2. CASE v = u  BY <2>3, <3>2, <1>5, <1>7 DEF Holds
    <3>. QED  BY <3>1, <3>2
  <2>. QED  BY <1>9, <2>1, <2>2, <2>3 DEF Claim
<1>10. OneName'
  <2>1. ASSUME NEW id \in Nuids, NEW n \in Names, NEW q \in Names, Claim(id, n)', Claim(id, q)' PROVE n = q
    BY <2>1, <1>8, <1>9 DEF StoreInv, OneName, Claimed
  <2>. QED  BY <2>1 DEF OneName, Nuids
<1>11. Fresh'
  <2>1. \A id \in Nuids : Claimed(id)' => Claimed(id) \/ (s.op \in Puts /\ id = s.id)
    BY <1>9 DEF Claimed
  <2>2. \A id \in Nuids : id > nuid => ~Claimed(id)' /\ chunks'[id] = 0
    BY <2>1, <1>8 DEF StoreInv, Fresh, Typed, Nuids
  <2>3. ~Putting(t)  BY DEF Putting
  <2>4. ASSUME NEW v \in Users, Putting(users'[v])
        PROVE  v # u /\ Putting(users[v]) /\ users'[v].id = users[v].id /\ users[v].id \in 1..nuid
               /\ ~Claimed(users[v].id)'
    <3>1. v # u /\ users'[v] = users[v]  BY <2>3, <2>4, <1>5
    <3>2. Putting(users[v])  BY <2>4, <3>1
    <3>3. users[v].id \in 1..nuid /\ ~Claimed(users[v].id)  BY <3>2 DEF StoreInv, Fresh
    <3>4. users[v].id \in Nuids  BY <3>3 DEF StoreInv, Typed, StoreAssumption, Nuids
    <3>5. s.op \in Puts => users[v].id # s.id  BY <3>1, <3>2, <1>8
    <3>. QED  BY <3>1, <3>2, <3>3, <3>4, <3>5, <1>9 DEF Claimed
  <2>. QED  BY <2>2, <2>4 DEF StoreInv, Fresh, Nuids, Putting
<1>12. CallsOk'
  <2>1. ASSUME NEW v \in Users, v # u PROVE Counted(users'[v], chunks') /\ Phased(users'[v])
    BY <2>1, <1>5 DEF StoreInv, CallsOk
  <2>2. ASSUME NEW v \in Users, v # u, users[v].phase = "purge" PROVE Dead(users[v].info.nuid)'
    <3>. DEFINE q == users[v].info.nuid
    <3>1. q # 0 /\ Dead(q) /\ q \in Nuids
      BY <2>2 DEF StoreInv, CallsOk, Purging, Typed, CallStates, Infos, Nuids
    <3>2. users[v].name \in Names /\ Claim(q, users[v].name)
      BY <2>2 DEF StoreInv, CallsOk, Phased, Claim, Holds
    <3>3. s.op \in Puts => q # s.id  BY <3>2, <1>8 DEF Claimed
    <3>4. m.nuid = q => m.deleted  BY <3>1, <3>3, <1>2, <1>3
    <3>5. users'[v].info.nuid = q  BY <2>2, <1>5
    <3>. HIDE DEF q
    <3>6. \A n \in Names : meta'[n].nuid = q => meta'[n].deleted  BY <3>1, <3>4, <1>5 DEF Dead
    <3>. QED  BY <3>5, <3>6 DEF Dead
  <2>3. ASSUME NEW v \in Users, v # u PROVE Purging(users[v])'
    BY <2>2, <2>3, <1>5 DEF StoreInv, CallsOk, Purging
  <2>4. Counted(t, chunks') /\ Phased(t)  BY <1>1, <1>2 DEF Counted, Phased
  <2>5. ASSUME t.phase = "purge" PROVE \A n \in Names : meta'[n].nuid = t.info.nuid => meta'[n].deleted
    <3>1. t.info = s.info /\ s.info.nuid # 0 /\ s.info.nuid \in Nuids /\ s.op \in Puts \cup {"delete"}
      BY <2>5, <1>1 DEF CallStates, Infos, Nuids
    <3>2. s.op \in Puts => s.info.nuid # s.id  BY <1>2, <1>7, <1>8 DEF Claimed
    <3>3. m.nuid = s.info.nuid => m.deleted  BY <3>1, <3>2, <1>3
    <3>4. ASSUME NEW n \in Names, n # s.name PROVE meta[n].nuid # s.info.nuid
      BY <3>1, <3>4, <1>2, <1>7 DEF StoreInv, OneName, Claim
    <3>. QED  BY <3>1, <3>3, <3>4, <1>5
  <2>6. Purging(users[u])'  BY <2>5, <1>5 DEF Purging, Dead
  <2>. QED  BY <2>1, <2>3, <2>4, <2>6, <1>5 DEF CallsOk, Counted, Phased
<1>13. Complete'
  <2>1. ASSUME NEW n \in Names, n # s.name PROVE Whole(n)'
    BY <2>1, <1>5 DEF StoreInv, Complete, Whole, IsLive
  <2>2. s.op \in Puts => chunks[s.id] = Chunks  BY <1>1 DEF Counted
  <2>3. ASSUME NEW n \in Names, n = s.name PROVE Whole(n)'
    BY <2>2, <2>3, <1>2, <1>3, <1>5, <1>8 DEF Whole, IsLive, Nuids
  <2>. QED  BY <2>1, <2>3 DEF Complete
<1>. QED  BY <1>6, <1>10, <1>11, <1>12, <1>13 DEF StoreInv

LEMMA MetaStoredStep ==
  ASSUME StoreAssumption, StoreInv, NEW u \in Users, MetaStored(u) PROVE StoreInv'
<1>. DEFINE s == users[u]
            t == [s EXCEPT !.phase = After(s)]
<1>1. /\ s \in CallStates /\ Phased(s) /\ s.phase = "meta"
      /\ meta' = [meta EXCEPT ![MetaName(s)] = NewMeta(s)] /\ metaSeq' = Revision
      /\ users' = [users EXCEPT ![u] = t] /\ UNCHANGED <<osUse, chunks, nuid>>
  BY DEF MetaStored, StoreInv, Typed, CallsOk, Rest, Set
<1>2. s.op \in Puts \cup {"delete", "link"} /\ s.flight = 0  BY <1>1 DEF Phased, CallStates
<1>3. /\ After(s) \in {"idle", "purge"}
      /\ After(s) = "purge" => s.info.nuid # 0 /\ s.op \in Puts \cup {"delete"}
  BY <1>2 DEF After, Puts
<1>4. /\ t \in CallStates /\ t.phase = After(s) /\ t.flight = 0
      /\ t.info = s.info /\ t.name = s.name /\ t.to = s.to /\ t.op = s.op
  BY <1>1, <1>2, <1>3 DEF CallStates, Phases
<1>. HIDE DEF t
<1>. QED  BY <1>1, <1>3, <1>4, MetaStep

LEMMA MetaFailsStep ==
  ASSUME StoreAssumption, StoreInv, NEW u \in Users, MetaFails(u) PROVE StoreInv'
<1>. DEFINE s == users[u]
            p == IF s.op \in {"put", "putIf"} THEN "clean" ELSE "idle"
            t == [s EXCEPT !.phase = p]
<1>1. /\ s \in CallStates /\ Phased(s) /\ s.phase = "meta"
      /\ users' = [users EXCEPT ![u] = t] /\ UNCHANGED <<osUse, chunks, nuid>>
  BY DEF MetaFails, Failed, StoreInv, Typed, CallsOk, Rest, Set
<1>2. s.op \in Puts \cup {"delete", "link"} /\ s.flight = 0  BY <1>1 DEF Phased, CallStates
<1>3. /\ t \in CallStates /\ t.phase = p /\ t.flight = 0 /\ p \in {"idle", "clean"}
      /\ t.id = s.id /\ t.info = s.info /\ t.name = s.name /\ t.to = s.to /\ t.op = s.op
  BY <1>1, <1>2 DEF CallStates, Phases
<1>4. CASE UNCHANGED <<meta, metaSeq>>
  <2>1. p = "clean" => s.op \in Puts  BY DEF Puts
  <2>. HIDE DEF p, t
  <2>2. ~Holds(t) /\ (Putting(t) => Putting(s)) /\ Counted(t, chunks) /\ Phased(t) /\ Purging(t)
    BY <1>1, <1>2, <1>3, <2>1 DEF Holds, Putting, Counted, Phased, Purging
  <2>. HIDE DEF s
  <2>. QED  BY <1>1, <1>3, <1>4, <2>2, QuietStep DEF s
<1>5. CASE /\ Fails(IF s.op \in {"put", "putIf"} THEN "putAck" ELSE "ack")
           /\ meta' = [meta EXCEPT ![MetaName(s)] = NewMeta(s)] /\ metaSeq' = Revision
  <2>1. p = "idle"  BY <1>5 DEF Fails, StoreInv, Typed, StoreAssumption, Safe
  <2>. HIDE DEF p, t
  <2>. QED  BY <1>1, <1>3, <1>5, <2>1, MetaStep
<1>. QED  BY <1>4, <1>5 DEF MetaFails

LEMMA PurgedStep ==
  ASSUME StoreAssumption, StoreInv, NEW u \in Users, OsPurged(u) PROVE StoreInv'
<1>. DEFINE s == users[u]
            t == [s EXCEPT !.phase = "failed"]
            x == IF s.phase = "purge" THEN s.info.nuid ELSE s.id
<1>1. /\ s \in CallStates /\ Phased(s) /\ Purging(s) /\ s.phase \in {"purge", "clean"}
      /\ UNCHANGED <<osUse, meta, nuid, metaSeq>>
  BY DEF OsPurged, StoreInv, Typed, CallsOk, Rest, CallStates, Phases
<1>2. chunks' = [chunks EXCEPT ![x] = 0]  BY <1>1 DEF OsPurged, Purge
<1>3. x \in Nuids /\ x <= nuid /\ Dead(x) /\ (\A v \in Users \ {u} : Putting(users[v]) => users[v].id # x)
  <2>1. nuid \in 0..MaxNuid /\ MaxNuid \in Nat  BY DEF StoreInv, Typed, StoreAssumption
  <2>2. CASE s.phase = "purge"
    <3>1. x \in Nuids /\ Dead(x)  BY <1>1, <2>2 DEF Purging, CallStates, Infos, Nuids
    <3>2. Claimed(x)  BY <1>1, <2>2 DEF Claimed, Claim, Holds, Phased
    <3>. HIDE DEF x
    <3>. QED  BY <2>1, <3>1, <3>2 DEF StoreInv, Fresh, Nuids
  <2>3. CASE s.phase = "clean"
    <3>1. x = s.id /\ Putting(s)  BY <2>3 DEF Putting
    <3>2. x \in 1..nuid /\ ~Claimed(x) /\ (\A v \in Users \ {u} : Putting(users[v]) => users[v].id # x)
      BY <3>1 DEF StoreInv, Fresh
    <3>. HIDE DEF x
    <3>. QED  BY <2>1, <3>2 DEF Nuids, Dead, Claimed, Claim
  <2>. QED  BY <1>1, <2>2, <2>3
<1>4. CASE s.flight > 0
  <2>1. users' = [users EXCEPT ![u] = t]  BY <1>4 DEF OsPurged, Set
  <2>2. /\ t \in CallStates /\ t.phase = "failed" /\ t.flight = s.flight /\ t.id = s.id /\ t.op = s.op
        /\ s.phase = "clean" /\ s.op \in Puts
    BY <1>1, <1>4 DEF CallStates, Phased, Phases
  <2>. HIDE DEF t
  <2>3. Putting(s) /\ ~Holds(t) /\ Counted(t, chunks') /\ Phased(t) /\ Purging(t)
    BY <1>4, <2>2 DEF Putting, Holds, Counted, Phased, Purging
  <2>. HIDE DEF s, x
  <2>4. nuid' \in 0..MaxNuid /\ x \in Nat  BY <1>1, <1>3 DEF StoreInv, Typed, Nuids
  <2>. QED  BY <1>1, <1>2, <1>3, <2>1, <2>2, <2>3, <2>4, UserStep DEF s
<1>5. CASE ~(s.flight > 0)
  <2>. DEFINE f == Free
  <2>1. users' = [users EXCEPT ![u] = f]  BY <1>5 DEF OsPurged, Set
  <2>2. f \in CallStates /\ f.phase = "idle" /\ f.flight = 0  BY Frees DEF Results
  <2>. HIDE DEF f
  <2>3. ~Holds(f) /\ ~Putting(f) /\ Counted(f, chunks') /\ Phased(f) /\ Purging(f)
    BY <2>2 DEF Holds, Putting, Counted, Phased, Purging
  <2>. HIDE DEF s, x
  <2>4. nuid' \in 0..MaxNuid /\ x \in Nat /\ 0 \in Nat  BY <1>1, <1>3 DEF StoreInv, Typed, Nuids
  <2>. QED  BY <1>1, <1>2, <1>3, <2>1, <2>2, <2>3, <2>4, UserStep
<1>. QED  BY <1>4, <1>5

(* Nobody asks for a new name: there is no rename.                         *)
LEMMA NoRename == ASSUME StoreInv, NEW u \in Users, newName(u) PROVE FALSE
BY DEF newName, StoreInv, Typed, CallStates, Phases

LEMMA StoreNext ==
  ASSUME StoreAssumption, StoreInv, [OsNext]_ovars PROVE StoreInv'
<1>1. ASSUME NEW u \in Users,
             \/ OsCalls(u) \/ rawInfo(u) \/ ChunkStored(u) \/ ChunkFails(u) \/ MetaStored(u) \/ MetaFails(u)
             \/ OsPurged(u) \/ PurgeFails(u) \/ Read(u) \/ Cancel(u)
      PROVE  StoreInv'
  BY <1>1, CallsStep, InfoStep, ChunkStoredStep, ChunkFailsStep, MetaStoredStep, MetaFailsStep,
     PurgedStep, PurgeFailsStep, ReadStep
<1>2. CASE seal \/ osWatch \/ OsSubscribed \/ OnMeta \/ UNCHANGED ovars
  <2>1. UNCHANGED <<osUse, meta, chunks, nuid, metaSeq, users>>
    BY <1>2 DEF seal, osWatch, OsSubscribed, OnMeta, ListOnly, ovars
  <2>. QED
    BY <2>1 DEF StoreInv, Typed, OneName, Fresh, Claimed, Claim, CallsOk, Purging, Dead, Complete, Whole, IsLive,
                Counted, Phased, Putting, Holds
<1>. QED  BY <1>1, <1>2, NoRename DEF OsNext

(* An object that is live has all its chunks, however the puts, deletes,   *)
(* links and clean-ups of any number of users interleave and fail, if no   *)
(* update() is in use and no put() misses the answer to its meta message.  *)
THEOREM LiveStaysComplete == ASSUME StoreAssumption PROVE OsSpec => []LiveComplete
<1>1. OsInit => StoreInv  BY StoreInit
<1>2. StoreInv /\ [OsNext]_ovars => StoreInv'  BY StoreNext
<1>3. StoreInv => LiveComplete  BY CompleteIsLive
<1>. QED  BY <1>1, <1>2, <1>3, PTL DEF OsSpec
=============================================================================
