-------------------------- MODULE MCWorkerAdmission --------------------------
(* Model-checking instances of WorkerAdmission. *)
EXTENDS WorkerAdmissionHistory

CONSTANTS
    p1, p2,
    MaxPending  \* bound: reactions a process has committed or running

OneEach == [p \in Procs |-> 1]
OneAndNone == [p \in Procs |-> IF p = p1 THEN 1 ELSE 0]
TwoAndOne == [p \in Procs |-> IF p = p1 THEN 2 ELSE 1]

\* The reactions of a process lag by a bounded number; the server does not stop.
Running ==
    /\ ~stopped
    /\ \A p \in Procs : Len(undelivered[p]) + Len(tail[p]) <= MaxPending
=============================================================================
