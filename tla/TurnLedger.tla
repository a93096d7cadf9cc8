----------------------------- MODULE TurnLedger -----------------------------
(***************************************************************************)
(* What a turn promises its process, whatever happens to the worker and to *)
(* its connection: it is executed at most once and only after its start    *)
(* was accepted, an accepted start ends in one terminal record, and the    *)
(* record says succeeded only if the execution produced an outcome.        *)
(* (docs/server-worker-lifecycle.md, "Acceptance and recovery".)           *)
(***************************************************************************)
VARIABLES
  rec,   \* the turn start and the turn record it reserves
  exec   \* the execution of the turn

ledger == <<rec, exec>>

Accept == rec = "starting" /\ rec' = "running" /\ UNCHANGED exec
FailStart == rec = "starting" /\ rec' = "bootstrap_failed" /\ UNCHANGED exec

Execute ==
  /\ exec = "none" /\ rec \in {"running", "failed"}
  /\ exec' = "executing" /\ UNCHANGED rec
Finish ==
  /\ exec = "executing"
  /\ exec' \in {"outcome", "failure"} /\ UNCHANGED rec

\* A failure the server assumed gives way to the outcome that arrives after it.
Succeed ==
  /\ rec \in {"running", "failed"} /\ exec = "outcome"
  /\ rec' = "succeeded" /\ UNCHANGED exec
Fail == rec = "running" /\ rec' = "failed" /\ UNCHANGED exec

Init == rec = "starting" /\ exec = "none"
Next == Accept \/ FailStart \/ Execute \/ Finish \/ Succeed \/ Fail
Spec == Init /\ [][Next]_ledger
=============================================================================
