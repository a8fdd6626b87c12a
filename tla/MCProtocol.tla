------------------------------ MODULE MCProtocol ------------------------------
(* Module Protocol on small instances. The constants are given values      *)
(* here; a run may also be bounded to a set of workloads, so that it       *)
(* covers different mixes of calls, messages and connections.              *)
EXTENDS Protocol

NoneIter == {}
FirstIter == {1}
AllTimed == Sid
NoneTimed == {}
NoLimit == {0}
Limits == {0, 2}

(* Bounds of the workloads. *)
Idle == [subs |-> 1, max |-> 0, flushes |-> 0, pubs |-> 0, msgs |-> 0,
         unsubs |-> 0, epochs |-> 2]
Publishing == [Idle EXCEPT !.subs = 0, !.flushes = 2, !.pubs = 2]
Flushing == [Idle EXCEPT !.flushes = 1, !.pubs = 1]
Limited == [Idle EXCEPT !.max = 2, !.msgs = 3, !.unsubs = 1, !.epochs = 3]
Draining == [Idle EXCEPT !.subs = 2, !.msgs = 1]

(* Constraint: the behaviour keeps to one of the workloads. *)
SomeWorkload ==
  \E w \in {Publishing, Flushing, Limited, Draining} :
    /\ sidCounter <= w.subs /\ \A s \in Sid : limit[s] <= w.max
    /\ flushes <= w.flushes /\ pubs <= w.pubs /\ msgs <= w.msgs
    /\ unsubs <= w.unsubs /\ epoch <= w.epochs
=============================================================================
