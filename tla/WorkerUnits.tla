---------------------------- MODULE WorkerUnits ----------------------------
(***************************************************************************)
(* The runtime units (containers, Pods) of one process across restarts of  *)
(* the server: allocation, exit, removal with its retry backlog, and the   *)
(* adoption of the units a previous server left behind.                    *)
(* (supervisor/worker-unit-reclaimer.ts, supervisor/adoption/*,            *)
(* supervisor/worker-supervisor.ts, process-engine/startup-reconciliation) *)
(*                                                                         *)
(* A unit is its worker: units are numbered in the order of their leases.  *)
(* The units and the lease are durable; everything else in the server is   *)
(* lost with it.                                                           *)
(***************************************************************************)
EXTENDS Integers, WorkerLease

CONSTANTS
  MaxUnits,     \* bound: workers allocated for the process
  MaxRestarts   \* bound: restarts of the server

ASSUME UnitsAssumption == MaxUnits \in Nat \ {0} /\ MaxRestarts \in Nat

Units == 1..MaxUnits
None == 0

VARIABLES
  unit,      \* runner: "none", "running", "dead" (exited) or "removed"
  lease,     \* the lease: its worker and its state
  proc,      \* lifecycleStatus of the process, which owns a worker start
  fits,      \* the lease's model policy fingerprint is the expected one
  phase,     \* the server: "booting", "adopting", "reconciling", "serving"
  restarts,
  mishaps,   \* history: "broken" (an envelope buffered during an adoption
             \* threw), "early" (a retry was served before adoption was done),
             \* "unanswered" (a start failed although its unit came to run)
  asked,     \* the worker effect under way that ends in spawnWorker, or "no"
  starting,  \* the worker whose runner.start is under way
  handle,    \* workers: the attached worker
  watched,   \* units whose exit is observed
  killed,    \* units whose handle was killed: runner.stop is under way
  pending, backlog, notify,  \* the maps of the reclaimer
  tries,     \* attempts under way, but for the one of the retry loop
  loop,      \* the retry loop: off, sleeping, or its refs and the current one
  listed,    \* descriptors not yet visited by adoption
  adopting,  \* the descriptor whose runner.adopt is under way
  failed,    \* failedAdoptions and stopStale, reclaimed at the end
  awaited    \* the adopted worker has not reported yet

durable == <<unit, lease, proc, fits, restarts, mishaps>>
reclaimer == <<pending, backlog, notify, tries, loop>>
adoption == <<listed, adopting, failed, awaited>>
supervisor == <<phase, asked, starting, handle, watched, killed>>
unitVars == <<durable, reclaimer, adoption, supervisor>>

Off == [on |-> FALSE, refs |-> {}, cur |-> None]
Exists(u) == unit[u] \in {"running", "dead"}

-----------------------------------------------------------------------------
(* The reclaimer *)

\* attempt, up to the call of runner.stop
Attempt(S) ==
  /\ pending' = pending \cup S
  /\ tries' = [u \in Units |-> tries[u] + IF u \in S THEN 1 ELSE 0]

\* ensureRetryLoop
EnsureLoop(refs, l) == IF l.on \/ refs = {} THEN l ELSE [Off EXCEPT !.on = TRUE]

\* emitServerObservedWorkerFailure, for the worker of the lease
Fail(u) ==
  IF lease.unit = u /\ Applies(lease.state, "failure_reported")
  THEN lease' = [lease EXCEPT !.state = "failed"] /\ proc' = "error"
  ELSE UNCHANGED <<lease, proc>>

\* handleProcessExit: the maps are keyed by the process.
HandleProcessExit(u) ==
  /\ lease' = IF lease.unit = u THEN [lease EXCEPT !.state = "exited"] ELSE lease
  /\ proc' = IF lease.unit = u /\ lease.state \in Serving THEN "error" ELSE proc
  /\ handle' = None
  /\ awaited' = FALSE

\* runner.stop resolved: the unit is gone; whoever waits for it is notified.
Reclaimed(u) ==
  /\ unit' = [unit EXCEPT ![u] = "removed"]
  /\ backlog' = backlog \ {u} /\ pending' = pending \ {u} /\ notify' = notify \ {u}
  /\ IF u \in notify THEN HandleProcessExit(u)
     ELSE UNCHANGED <<lease, proc, handle, awaited>>

AttemptSucceeds(u) ==
  /\ tries[u] > 0
  /\ tries' = [tries EXCEPT ![u] = @ - 1]
  /\ Reclaimed(u)
  /\ UNCHANGED <<fits, restarts, mishaps, loop, listed, adopting, failed, phase, asked, starting,
                 watched, killed>>

AttemptFails(u) ==
  /\ tries[u] > 0
  /\ tries' = [tries EXCEPT ![u] = @ - 1]
  /\ backlog' = backlog \cup {u}
  /\ loop' = EnsureLoop(backlog', loop)
  /\ UNCHANGED <<durable, pending, notify, adoption, supervisor>>

\* The loop wakes up and takes the backlog; a round ends with the next sleep.
LoopWakes ==
  /\ loop.on /\ loop.refs = {} /\ loop.cur = None
  /\ loop' = IF backlog = {} THEN Off ELSE [loop EXCEPT !.refs = backlog]
  /\ UNCHANGED <<durable, pending, backlog, notify, tries, adoption, supervisor>>

LoopAttempts ==
  /\ loop.on /\ loop.cur = None
  /\ \E u \in loop.refs :
       /\ loop' = [loop EXCEPT !.refs = @ \ {u}, !.cur = u]
       /\ pending' = pending \cup {u}
  /\ UNCHANGED <<durable, backlog, notify, tries, adoption, supervisor>>

LoopSucceeds ==
  /\ loop.cur # None
  /\ Reclaimed(loop.cur)
  /\ loop' = [loop EXCEPT !.cur = None]
  /\ UNCHANGED <<fits, restarts, mishaps, tries, listed, adopting, failed, phase, asked, starting,
                 watched, killed>>

LoopFailsForgets ==  \* mutant: a failure of the loop leaves the backlog
  /\ loop.cur # None
  /\ backlog' = backlog \ {loop.cur}
  /\ loop' = [loop EXCEPT !.cur = None]
  /\ UNCHANGED <<durable, pending, notify, tries, adoption, supervisor>>

LoopFails ==
  /\ loop.cur # None
  /\ backlog' = backlog \cup {loop.cur}
  /\ loop' = [loop EXCEPT !.cur = None]
  /\ UNCHANGED <<durable, pending, notify, tries, adoption, supervisor>>

-----------------------------------------------------------------------------
(* Units *)

\* The worker exits: it drained, crashed, or was evicted.
UnitDies(u) ==
  /\ unit[u] = "running"
  /\ unit' = [unit EXCEPT ![u] = "dead"]
  /\ UNCHANGED <<lease, proc, fits, restarts, mishaps, reclaimer, adoption, supervisor>>

ExitObservedAtOnce(u) ==  \* mutant: the exit is finalized before the removal
  /\ u \in watched
  /\ watched' = watched \ {u}
  /\ Attempt({u})
  /\ HandleProcessExit(u)
  /\ UNCHANGED <<unit, fits, restarts, mishaps, backlog, notify, loop, listed, adopting, failed, phase,
                 asked, starting, killed>>

\* The runner reports the exit, once; the wait on a container that fails is
\* reported as one.
ExitObserved(u) ==
  /\ u \in watched
  /\ watched' = watched \ {u}
  /\ Attempt({u})
  /\ notify' = notify \cup {u}
  /\ UNCHANGED <<durable, backlog, loop, adoption, phase, asked, starting, handle, killed>>

\* handle.kill, or killAndWait of a stop whose grace period is over
Kill == killed' = killed \cup {handle}

KillCompletes(u) ==
  /\ u \in killed
  /\ killed' = killed \ {u}
  /\ unit' = [unit EXCEPT ![u] = "removed"]
  /\ UNCHANGED <<lease, proc, fits, restarts, mishaps, reclaimer, adoption, phase, asked, starting,
                 handle, watched>>

\* The stop is not repeated: its failure is reported as the worker's.
KillFails(u) ==
  /\ u \in killed
  /\ killed' = killed \ {u}
  /\ IF lease.state \in Serving THEN Fail(u) ELSE UNCHANGED <<lease, proc>>
  /\ asked' = IF asked = "stopping" THEN "no" ELSE asked
  /\ UNCHANGED <<unit, fits, restarts, mishaps, reclaimer, adoption, phase, starting, handle, watched>>

\* A watchdog or the startup timer gives the worker up.
WorkerGivenUp ==
  /\ handle # None /\ handle \notin killed
  /\ lease.unit = handle /\ lease.state \in Serving \cup {"draining"}
  /\ Fail(handle) /\ Kill
  /\ UNCHANGED <<unit, fits, restarts, mishaps, reclaimer, adoption, phase, asked, starting, handle,
                 watched>>

-----------------------------------------------------------------------------
(* Worker effects *)

\* A retry of the failed start, by an operator or by a policy.
Retry ==
  /\ proc = "error" /\ asked = "no"
  /\ phase # "reconciling"
  /\ proc' = "active" /\ asked' = "yes"
  /\ mishaps' = IF phase = "serving" THEN mishaps ELSE mishaps \cup {"early"}
  /\ UNCHANGED <<unit, lease, fits, restarts, reclaimer, adoption, phase, starting, handle,
                 watched, killed>>

\* restart_worker stops the attached worker before it asks for another.
StopForRestart ==
  /\ asked = "yes" /\ handle # None /\ handle \notin killed
  /\ asked' = "stopping"
  /\ lease' = IF lease.unit = handle
              THEN [lease EXCEPT !.state = Observed(@, "stop_requested")] ELSE lease
  /\ Kill
  /\ UNCHANGED <<unit, proc, fits, restarts, mishaps, reclaimer, adoption, phase, starting, handle,
                 watched>>

SpawnUnguarded ==  \* mutant: pending removals are not asserted
  /\ asked # "no" /\ handle = None /\ starting = None /\ lease.unit < MaxUnits
  /\ asked' = "no"
  /\ lease' = [unit |-> lease.unit + 1, state |-> "spawning"]
  /\ fits' = TRUE /\ starting' = lease.unit + 1
  /\ UNCHANGED <<unit, proc, restarts, mishaps, reclaimer, adoption, phase, handle, watched, killed>>

\* spawnWorkerNow, up to runner.start
Spawn ==
  /\ asked # "no" /\ handle = None /\ starting = None /\ pending = {} /\ lease.unit < MaxUnits
  /\ asked' = "no"
  /\ lease' = [unit |-> lease.unit + 1, state |-> "spawning"]
  /\ fits' = TRUE /\ starting' = lease.unit + 1
  /\ UNCHANGED <<unit, proc, restarts, mishaps, reclaimer, adoption, phase, handle, watched, killed>>

\* assertProcessReclaimed throws: the reaction fails, the start stays active.
SpawnRefused ==
  /\ asked # "no" /\ handle = None /\ pending # {}
  /\ asked' = "no"
  /\ UNCHANGED <<durable, reclaimer, adoption, phase, starting, handle, watched, killed>>

StartSucceeds ==
  /\ starting # None
  /\ unit' = [unit EXCEPT ![starting] = "running"]
  /\ handle' = starting /\ watched' = watched \cup {starting} /\ starting' = None
  /\ UNCHANGED <<lease, proc, fits, restarts, mishaps, reclaimer, adoption, phase, asked, killed>>

\* A failed start may leave a unit that was created and does not run, or one that
\* runs although the answer of the runtime got lost; nobody reclaims it.
StartFails ==
  /\ starting # None
  /\ \E left \in {unit[starting], "dead", "running"} :
       /\ unit' = [unit EXCEPT ![starting] = left]
       /\ mishaps' = IF left = "running" THEN mishaps \cup {"unanswered"} ELSE mishaps
  /\ lease' = IF lease.unit = starting THEN [lease EXCEPT !.state = "exited"] ELSE lease
  /\ proc' = IF lease.unit = starting THEN "error" ELSE proc
  /\ starting' = None
  /\ UNCHANGED <<fits, restarts, reclaimer, adoption, phase, asked, handle, watched, killed>>

\* worker.ready, or the first heartbeat of an adopted worker that was ready
WorkerReports ==
  /\ handle # None /\ unit[handle] = "running" /\ lease.unit = handle
  /\ lease.state \in Serving
  /\ lease' = [lease EXCEPT !.state = "idle"]
  /\ awaited' = FALSE
  /\ UNCHANGED <<unit, proc, fits, restarts, mishaps, reclaimer, listed, adopting, failed, supervisor>>

-----------------------------------------------------------------------------
(* Restart and adoption *)

\* The server stops or crashes; a unit being started may come up, one being
\* removed may go.  The configuration may have changed.
Restart ==
  /\ restarts < MaxRestarts
  /\ restarts' = restarts + 1
  /\ \E up \in BOOLEAN, gone \in SUBSET (killed \cup {u \in Units : tries[u] > 0}) :
       unit' = [u \in Units |-> IF u = starting /\ up THEN "running"
                                ELSE IF u \in gone THEN "removed" ELSE unit[u]]
  /\ fits' \in BOOLEAN
  /\ phase' = "booting" /\ asked' = "no" /\ starting' = None /\ handle' = None
  /\ watched' = {} /\ killed' = {} /\ pending' = {} /\ backlog' = {} /\ notify' = {}
  /\ tries' = [u \in Units |-> 0] /\ loop' = Off
  /\ listed' = {} /\ adopting' = None /\ failed' = {} /\ awaited' = FALSE
  /\ UNCHANGED <<lease, proc, mishaps>>

\* adoptRegisteredWorkers: runner.list
ListUnits ==
  /\ phase = "booting"
  /\ phase' = "adopting"
  /\ listed' = {u \in Units : Exists(u)}
  /\ UNCHANGED <<durable, reclaimer, adopting, failed, awaited, asked, starting, handle,
                 watched, killed>>

\* classifyWorkerDescriptor; a runner may list an exited unit as running.
Stale(u) ==
  \/ lease.unit # u
  \/ lease.state \in {"absent", "failed", "exited"}
  \/ ~fits

Visit(u) ==
  /\ phase = "adopting" /\ adopting = None /\ u \in listed
  /\ listed' = listed \ {u}
  /\ \/ /\ Stale(u) \/ unit[u] # "running" \/ handle \notin {None, u}
        /\ failed' = failed \cup {u} /\ UNCHANGED adopting
     \/ /\ ~Stale(u) /\ handle = u
        /\ UNCHANGED <<failed, adopting>>
     \/ /\ ~Stale(u) /\ handle = None
        /\ adopting' = u /\ UNCHANGED failed
  /\ UNCHANGED <<durable, reclaimer, awaited, supervisor>>

AdoptSucceeds ==
  /\ adopting # None /\ unit[adopting] = "running"
  /\ handle' = adopting /\ watched' = watched \cup {adopting}
  /\ awaited' = TRUE /\ adopting' = None
  /\ UNCHANGED <<durable, reclaimer, listed, failed, phase, asked, starting, killed>>

\* An early envelope broke: the worker is detached, its exit still observed.
AdoptBreaks ==
  /\ adopting # None /\ unit[adopting] = "running"
  /\ mishaps' = mishaps \cup {"broken"}
  /\ handle' = None /\ watched' = watched \cup {adopting}
  /\ awaited' = FALSE /\ adopting' = None /\ failed' = failed \cup {adopting}
  /\ Fail(adopting)
  /\ UNCHANGED <<unit, fits, restarts, reclaimer, listed, phase, asked, starting, killed>>

\* Every attempt to adopt failed.
AdoptFails ==
  /\ adopting # None
  /\ failed' = failed \cup {adopting} /\ adopting' = None
  /\ UNCHANGED <<durable, reclaimer, listed, awaited, supervisor>>

\* What could not be adopted is reclaimed in the background.
FinishAdoption ==
  /\ phase = "adopting" /\ adopting = None /\ listed = {}
  /\ Attempt(failed) /\ failed' = {}
  /\ phase' = "reconciling"
  /\ UNCHANGED <<durable, backlog, notify, loop, listed, adopting, awaited, asked, starting,
                 handle, watched, killed>>

\* The timer of an adopted worker that did not report.
AdoptionTimesOut ==
  /\ awaited /\ handle # None
  /\ awaited' = FALSE
  /\ IF lease.unit = handle THEN Fail(handle) /\ Kill /\ UNCHANGED handle
     ELSE handle' = None /\ UNCHANGED <<lease, proc, killed>>
  /\ UNCHANGED <<unit, fits, restarts, mishaps, reclaimer, listed, adopting, failed, phase, asked,
                 starting, watched>>

\* reconcileProcessesOnStartup: a lease without its worker has exited; an
\* active process without a worker is given one.
ReconcileOnStartup ==
  /\ phase = "reconciling"
  /\ phase' = "serving"
  /\ lease' = IF handle = lease.unit THEN lease
              ELSE [lease EXCEPT !.state = Observed(@, "process_exited")]
  /\ asked' = IF proc = "active" /\ handle = None THEN "yes" ELSE asked
  /\ UNCHANGED <<unit, proc, fits, restarts, mishaps, reclaimer, adoption, starting, handle, watched,
                 killed>>

-----------------------------------------------------------------------------

UnitsInit ==
  /\ unit = [u \in Units |-> "none"] /\ lease = [unit |-> None, state |-> "absent"]
  /\ proc = "active" /\ fits = TRUE /\ restarts = 0 /\ mishaps = {}
  /\ phase = "serving" /\ asked = "yes" /\ starting = None /\ handle = None
  /\ watched = {} /\ killed = {} /\ pending = {} /\ backlog = {} /\ notify = {}
  /\ tries = [u \in Units |-> 0] /\ loop = Off
  /\ listed = {} /\ adopting = None /\ failed = {} /\ awaited = FALSE

ReclaimerStep ==
  \/ \E u \in Units : AttemptSucceeds(u) \/ AttemptFails(u)
  \/ LoopWakes \/ LoopAttempts \/ LoopSucceeds \/ LoopFails

StartupStep ==
  \/ ListUnits \/ \E u \in Units : Visit(u)
  \/ AdoptSucceeds \/ AdoptBreaks \/ AdoptFails \/ FinishAdoption \/ ReconcileOnStartup

UnitsNext ==
  \/ ReclaimerStep \/ StartupStep
  \/ \E u \in Units : UnitDies(u) \/ ExitObserved(u) \/ KillCompletes(u) \/ KillFails(u)
  \/ WorkerGivenUp \/ Retry \/ StopForRestart \/ Spawn \/ SpawnRefused
  \/ StartSucceeds \/ StartFails \/ WorkerReports \/ Restart \/ AdoptionTimesOut

UnitsSpec == UnitsInit /\ [][UnitsNext]_unitVars

\* Every attempt ends, the retry loop goes on, and a removal that is repeated
\* succeeds in the end.
UnitsFairness ==
  /\ WF_unitVars(\E u \in Units : AttemptSucceeds(u) \/ AttemptFails(u))
  /\ WF_unitVars(LoopWakes \/ LoopAttempts) /\ SF_unitVars(LoopSucceeds)

FairUnitsSpec == UnitsSpec /\ UnitsFairness

-----------------------------------------------------------------------------

(* The state of the units, the reclaimer and the adoption is well formed. *)
UnitsTypeOK ==
  /\ unit \in [Units -> {"none", "running", "dead", "removed"}]
  /\ lease \in [unit : 0..MaxUnits, state : LeaseStates]
  /\ proc \in {"active", "error"} /\ restarts \in 0..MaxRestarts
  /\ {fits, awaited} \subseteq BOOLEAN /\ mishaps \subseteq {"broken", "early", "unanswered"}
  /\ asked \in {"no", "yes", "stopping"}
  /\ phase \in {"booting", "adopting", "reconciling", "serving"}
  /\ {starting, handle, adopting} \subseteq 0..MaxUnits
  /\ UNION {watched, killed, pending, backlog, notify, listed, failed} \subseteq Units
  /\ tries \in [Units -> 0..2]
  /\ loop \in [on : BOOLEAN, refs : SUBSET Units, cur : 0..MaxUnits]

(* The process volume has one user: no two units of a process run at once,   *)
(* whatever restarts, failed adoptions and failed removals come in between.  *)
(* An adoption that broke after it attached is an exception: its listener    *)
(* stays, and the late exit takes the handle of the unit that replaced it.   *)
(* So is a retry served before adoption listed the units that survived, and  *)
(* a start whose unit runs although it was reported as failed.               *)
OneRunningUnit ==
  mishaps = {} => \A u, v \in Units : unit[u] = "running" /\ unit[v] = "running" => u = v

(* The supervisor finalizes a physical exit only when the unit is removed,   *)
(* and never drops the handle of a unit that runs, with the same exceptions. *)
HandleOutlivesUnit ==
  [][handle # None /\ handle' # handle /\ restarts' = restarts /\ mishaps = {} =>
       unit'[handle] = "removed"]_unitVars

(* A removal that failed is in the backlog of a running retry loop.          *)
FailedRemovalIsRetried ==
  \A u \in pending : tries[u] > 0 \/ loop.cur = u \/ (u \in backlog /\ loop.on)

(* Again and again no removal is pending: each one the server queued          *)
(* completes, and the process is free for a replacement.                     *)
RemovalsComplete == []<>(pending = {})

(* Two units of the process never run at once, and no failed removal is       *)
(* forgotten.                                                                 *)
UnitsInvariant == UnitsTypeOK /\ OneRunningUnit /\ FailedRemovalIsRetried
=============================================================================
