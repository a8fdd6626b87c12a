----------------------------- MODULE MCReconnect -----------------------------
(* Module Reconnect on pools of two configured servers, with and without a *)
(* third one that is only known from the gossip of the cluster.            *)
EXTENDS Reconnect

CONSTANTS A, B, C
Two == <<A, B>>
Three == <<A, B, C>>

Limited ==
  [maxReconnectAttempts |-> 2, waitOnFirstConnect |-> FALSE,
   ignoreAuthErrorAbort |-> FALSE, reconnect |-> TRUE, ignoreClusterUpdates |-> FALSE]

(* The pool is of interest with a limit. A single attempt goes with a      *)
(* first connection that is waited for: without it a failure removes two   *)
(* servers (OthersKept).                                                   *)
PoolOptions ==
  {Limited, [Limited EXCEPT !.maxReconnectAttempts = 1, !.waitOnFirstConnect = TRUE]}
CloseOptions == {[Limited EXCEPT !.ignoreClusterUpdates = TRUE]}
=============================================================================
