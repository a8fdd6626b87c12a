SPECIFICATION MCSpec
CONSTANTS
  c1 = c1
  c2 = c2
  u1 = u1
  u2 = u2
  Keys = {k1, k2}
  Clients = {c1, c2}
  KvUses <- NoKvUses
  BucketOptions <- OneValue
  MaxRev = 3
  Names = {n1, n2}
  Users = {u1, u2}
  OsUses <- PutUnanswered
  Chunks = 2
  MaxNuid = 3
  MaxMeta = 3
  MaxErrors = 1
INVARIANTS LiveComplete
CHECK_DEADLOCK FALSE
