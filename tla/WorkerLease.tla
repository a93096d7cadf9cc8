---------------------------- MODULE WorkerLease ----------------------------
(* The lifecycle of a worker lease as the server observes it               *)
(* (domain-logic/worker-lease-lifecycle.ts).                               *)

LeaseStates == {"absent", "spawning", "bootstrapping", "idle", "busy", "draining",
                "failed", "cleanup", "exited"}

\* isLiveWorkerLease: a lease whose worker serves a start or may still do so.
Serving == {"spawning", "bootstrapping", "idle", "busy"}

From(states, observation, to) == {<<s, observation, to>> : s \in states}

\* WORKER_LEASE_TRANSITIONS
LeaseTransitions ==
  From({"absent"}, "spawn_requested", "spawning")
  \cup From({"spawning"}, "handshake_received", "bootstrapping")
  \cup From({"bootstrapping"}, "bootstrap_completed", "idle")
  \cup From({"idle"}, "busy_reported", "busy")
  \cup From({"busy"}, "idle_reported", "idle")
  \cup From(Serving, "stop_requested", "draining")
  \cup From(Serving \cup {"draining", "cleanup"}, "failure_reported", "failed")
  \cup From({"draining", "failed"}, "cleanup_completed", "cleanup")
  \cup From(Serving \cup {"draining", "failed", "cleanup"}, "process_exited", "exited")
  \cup From({"exited"}, "reclaimed", "absent")

Applies(state, observation) ==
  \E to \in LeaseStates : <<state, observation, to>> \in LeaseTransitions

\* transitionWorkerLeaseState: an observation that is already satisfied, or
\* that no rule allows, leaves the lease as it is.
Observed(state, observation) ==
  IF Applies(state, observation)
  THEN CHOOSE to \in LeaseStates : <<state, observation, to>> \in LeaseTransitions
  ELSE state
=============================================================================
