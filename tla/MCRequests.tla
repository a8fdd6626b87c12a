------------------------------ MODULE MCRequests ------------------------------
(* Module Requests on a few requests: one of request(), two of             *)
(* requestMany() with different strategies, one with noMux, all of them to *)
(* the same subject; a run may be bounded to two of them.                  *)
EXTENDS Requests, TLC

CONSTANTS a, c, d, n   \* the requests

JustOne == {a}
None == {}
CountCD == c :> "count" @@ d :> "sentinelMsg"
NoStrategy == <<>>
MessagesCD == c :> 2 @@ d :> 0
NoMessages == <<>>
SubjectOf == [r \in Req |-> "s"]

(* Constraint: at most two requests are made. *)
TwoRequests == count <= 2
=============================================================================
