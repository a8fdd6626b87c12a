------------------------------- MODULE MCStores -------------------------------
(* The key-value bucket and the object store side by side, one of them in  *)
(* use: each with the operations that meet, and what may fail.             *)
EXTENDS Kv, ObjectStore

CONSTANTS c1, c2, u1, u2

MCInit == (KvInit /\ OsUnused) \/ (KvUnused /\ OsInit)
MCNext == (KvNext /\ UNCHANGED ovars) \/ (OsNext /\ UNCHANGED kvars)
MCSpec == MCInit /\ [][MCNext]_<<kvars, ovars>> /\ KvFairness /\ OsFairness

OneValue ==
  [history |-> 1, allow_direct |-> "unset", features |-> [allow_direct |-> TRUE],
   found |-> [exists |-> FALSE]]
By(cs, n, ops) == [ops |-> ops, clients |-> cs, timeouts |-> n]
AllKvUses ==
  {By({c1, c2}, 1, ops) : ops \in {{"create", "delete"}, {"create", "purge"},
                                   {"get", "put", "update"}, {"get", "put", "deleteIf"}}}
  \cup {By({c1, c2}, 0, ops) : ops \in {{"put", "delete", "purgeDeletes"}, {"put", "deleteAll"}}}
  \cup {By({c1}, 0, ops) : ops \in {{"put", "watch"}, {"put", "history"}, {"put", "keys"},
                                     {"put", "updates"}, {"put", "purgeBucket"}}}

Of(us, es, ops) == [ops |-> ops, users |-> us, errors |-> es]
AllOsUses ==
  {Of({u1, u2}, {"chunk", "purge"}, {"put"}), Of({u1, u2}, {"meta"}, {"putIf", "delete"}),
   Of({u1, u2}, {}, {"put", "get", "delete"}), Of({u1}, {"ack"}, {"put", "delete", "list"}),
   Of({u1}, {}, {"put", "updates"}), Of({u1}, {}, {"put", "link", "get"}),
   Of({u1}, {}, {"put", "update", "rename"}), Of({u1}, {}, {"put", "seal"})}

(* A put() that gets no answer to its meta; no bucket is in use.           *)
NoKvUses == {}
PutUnanswered == {Of({u1}, {"putAck"}, {"put"})}

ASSUME
  /\ \A u \in KvUses : u.ops \subseteq Operations /\ u.clients \subseteq Clients /\ u.timeouts \in Nat
  /\ \A u \in OsUses : u.ops \subseteq Methods /\ u.users \subseteq Users
  /\ {MaxRev, MaxNuid, MaxMeta, MaxErrors} \subseteq Nat /\ Chunks \in Nat \ {0}
=============================================================================
