-------------------------- MODULE MCWorkerRuntime --------------------------
(* Instances of WorkerRuntime for TLC: which of the inputs carry a target. *)
EXTENDS WorkerRuntime

NoTargets == {}
SecondTargeted == {2}
=============================================================================
