--------------------------- MODULE WorkerAdmission ---------------------------
(***************************************************************************)
(* Worker admission: how the committed decisions of the process engine     *)
(* become physical workers.                                                *)
(*                                                                         *)
(* Every engine operation commits under the process lock and only then     *)
(* dispatches its reactions.  The worker reaction of one process runs      *)
(* through a per-process tail (effects/post-commit-runner.ts); a reaction  *)
(* that wants a worker asks the supervisor, whose FIFO capacity queue      *)
(* (supervisor/worker-capacity-queue.ts) either starts the allocation at   *)
(* once or parks the request.  Allocation (spawnWorkerNow), physical exit  *)
(* (handleProcessExit) and the queue's timer run concurrently with new     *)
(* commits.                                                                *)
(*                                                                         *)
(* The durable side is reduced to what admission reads of it: the current  *)
(* worker start of a process and whether that start is still wanted (the   *)
(* queue's isCurrent).  The engine itself is module ProcessEngine.         *)
(***************************************************************************)
EXTENDS Naturals, Sequences, FiniteSets

CONSTANTS
    Procs,       \* process instances
    Limit,       \* config.workers.max_parallel_processes
    Budget       \* bound: worker starts committed, per process

ASSUME ProcsAssumption == IsFiniteSet(Procs)
ASSUME LimitAssumption == Limit \in Nat \ {0}
ASSUME BudgetAssumption == Budget \in [Procs -> Nat]

VARIABLES
    cur,        \* id of the process's current worker start, 0 when it has none
    made,       \* worker starts committed for the process so far
    closed,     \* processes aborted: no start follows
    live,       \* lifecycle active and that start starting, or accepted and running
    undelivered,\* worker reactions committed but not yet on the process's tail
    tail,       \* workerEffectTails: the first effect is the running one
    pc,         \* where the running effect is suspended
    waiting,    \* the queue's Map, in insertion order
    starting,   \* the keys of the queue's starting Map: allocations in flight
    scheduled,  \* the queue's setTimeout(0) is armed
    sweeping,   \* its callback is running
    stopped,    \* the queue was stopped by shutdown
    workers,    \* processes with a registered worker handle
    bound,      \* turnStartRecordId of the process's newest lease
    greeted,    \* processes whose worker said worker.hello
    served,     \* start its worker.start carried, 0 when none was sent
    accepted,   \* processes whose current start was accepted
    draining,   \* processes whose worker was asked to stop
    reports     \* failures observed, their WorkerFailure not yet committed

durable == <<cur, made, closed, live, accepted>>
effects == <<undelivered, tail, pc>>
queue == <<waiting, starting, scheduled, sweeping, stopped>>
units == <<workers, bound, greeted, served, draining, reports>>
unitsButBound == <<workers, greeted, served, draining, reports>>
vars == <<durable, effects, queue, units>>

\* restart_worker and a reconciliation towards a worker turn ("enter"), a
\* reconciliation towards anything else ("leave"), stop_with_reason ("stop").
EffectKinds == {"enter", "leave", "stop"}
Starts == Nat
Entry == [p : Procs, s : Starts]

TypeOK ==
    /\ cur \in [Procs -> Starts]
    /\ made \in [Procs -> Starts]
    /\ closed \in SUBSET Procs
    /\ live \in [Procs -> BOOLEAN]
    /\ undelivered \in [Procs -> Seq(EffectKinds)]
    /\ tail \in [Procs -> Seq(EffectKinds)]
    /\ pc \in [Procs -> {"ready", "cancelling", "stopping", "exited", "spawning"}]
    /\ waiting \in Seq(Entry)
    /\ starting \in SUBSET Procs
    /\ scheduled \in BOOLEAN
    /\ sweeping \in BOOLEAN
    /\ stopped \in BOOLEAN
    /\ workers \in SUBSET Procs
    /\ bound \in [Procs -> Starts]
    /\ greeted \in SUBSET Procs
    /\ served \in [Procs -> Starts]
    /\ accepted \in SUBSET Procs
    /\ draining \in SUBSET Procs
    /\ reports \in SUBSET Entry

Init ==
    /\ cur = [p \in Procs |-> 0]
    /\ made = [p \in Procs |-> 0]
    /\ closed = {}
    /\ live = [p \in Procs |-> FALSE]
    /\ undelivered = [p \in Procs |-> <<>>]
    /\ tail = [p \in Procs |-> <<>>]
    /\ pc = [p \in Procs |-> "ready"]
    /\ waiting = <<>>
    /\ starting = {}
    /\ scheduled = FALSE
    /\ sweeping = FALSE
    /\ stopped = FALSE
    /\ workers = {}
    /\ bound = [p \in Procs |-> 0]
    /\ served = [p \in Procs |-> 0]
    /\ greeted = {}
    /\ accepted = {}
    /\ draining = {}
    /\ reports = {}

-----------------------------------------------------------------------------
(* The capacity queue *)

hasCapacityOffByOne == Cardinality(workers) + Cardinality(starting) <= Limit  \* mutant

hasCapacity == Cardinality(workers) + Cardinality(starting) < Limit

isCurrent(e) == live[e.p] /\ cur[e.p] = e.s

Queued(p) == \E i \in 1..Len(waiting) : waiting[i].p = p

\* The sequence q without its i-th element.
Drop(q, i) == [j \in 1..(Len(q) - 1) |-> IF j < i THEN q[j] ELSE q[j + 1]]

\* Map.delete: a key occurs once.
MapDelete(p) ==
    IF Queued(p)
    THEN Drop(waiting, CHOOSE i \in 1..Len(waiting) : waiting[i].p = p)
    ELSE waiting

\* wake(): arms the timer unless stopped or nothing waits.
wake(w) == scheduled' = (scheduled \/ (~stopped /\ w # <<>>))

\* Mutants: every request gets a new entry; the entry forgets its start.
MapSetAppends(p, s) == Append(waiting, [p |-> p, s |-> s])
MapSetWithoutStart(p, s) == Append(waiting, [p |-> p])

\* Map.set keeps the position of a key that is already there.
MapSet(p, s) ==
    LET e == [p |-> p, s |-> s] IN
    IF Queued(p)
    THEN [i \in 1..Len(waiting) |-> IF waiting[i].p = p THEN e ELSE waiting[i]]
    ELSE Append(waiting, e)

AdmitsBarging == hasCapacity  \* mutant: newcomers overtake the queue

\* request() launches at once only when nobody waits.
AdmitsAtOnce == waiting = <<>> /\ hasCapacity

\* launch(): reserve before yielding; spawnWorkerNow opens the lease for the
\* start that is current at this moment.
Launch(p) ==
    /\ starting' = starting \cup {p}
    /\ bound' = [bound EXCEPT ![p] = cur[p]]

\* The timer callback deletes stale heads, launches current ones while there
\* is capacity, and stops at the first current one it cannot launch.  One
\* iteration per step; nothing else runs until the callback returns.
TimerFires ==
    /\ scheduled /\ ~sweeping
    /\ scheduled' = FALSE
    /\ sweeping' = TRUE
    /\ UNCHANGED <<durable, effects, waiting, starting, stopped, units>>

SweepDropsStale ==
    /\ sweeping /\ waiting # <<>>
    /\ ~isCurrent(Head(waiting))
    /\ waiting' = Tail(waiting)
    /\ UNCHANGED <<durable, effects, starting, scheduled, sweeping, stopped, units>>

SweepLaunches ==
    /\ sweeping /\ waiting # <<>>
    /\ LET e == Head(waiting) IN
         /\ isCurrent(e)
         /\ hasCapacity /\ e.p \notin starting
         /\ Launch(e.p)
    /\ waiting' = Tail(waiting)
    /\ UNCHANGED <<durable, effects, scheduled, sweeping, stopped, unitsButBound>>

SweepEnds ==
    /\ sweeping
    /\ waiting # <<>> => LET e == Head(waiting) IN
                           isCurrent(e) /\ (~hasCapacity \/ e.p \in starting)
    /\ sweeping' = FALSE
    /\ UNCHANGED <<durable, effects, waiting, starting, scheduled, stopped, units>>

-----------------------------------------------------------------------------
(* The reaction tail of a process *)

Pop(p) ==
    /\ tail' = [tail EXCEPT ![p] = Tail(@)]
    /\ pc' = [pc EXCEPT ![p] = "ready"]

\* supervisor.spawnWorker: rejects a registered worker and a process without a
\* worker start; otherwise asks the queue.  The effect waits for an allocation
\* it started or joined, and finishes at once when the request is queued.
SpawnForEffect(p) ==
    \/ /\ p \in workers \/ cur[p] = 0 \/ stopped
       /\ Pop(p)
       /\ UNCHANGED <<waiting, starting, scheduled, bound>>
    \/ /\ p \notin workers /\ cur[p] # 0 /\ ~stopped
       /\ p \in starting
       /\ pc' = [pc EXCEPT ![p] = "spawning"]
       /\ UNCHANGED <<tail, waiting, starting, scheduled, bound>>
    \/ /\ p \notin workers /\ cur[p] # 0 /\ ~stopped
       /\ p \notin starting /\ AdmitsAtOnce
       /\ Launch(p)
       /\ pc' = [pc EXCEPT ![p] = "spawning"]
       /\ UNCHANGED <<tail, waiting, scheduled>>
    \/ /\ p \notin workers /\ cur[p] # 0 /\ ~stopped
       /\ p \notin starting /\ ~AdmitsAtOnce
       /\ waiting' = MapSet(p, cur[p])
       /\ wake(waiting')
       /\ Pop(p)
       /\ UNCHANGED <<starting, bound>>

\* runWorkerEffect / reconcileWorkerForProcessTurnSelection up to their first
\* await.  Only stop_with_reason cancels an admission without a handle.
BeginEffect(p) ==
    /\ ~sweeping /\ pc[p] = "ready" /\ tail[p] # <<>>
    /\ LET kind == Head(tail[p]) IN
         \/ /\ kind = "stop" \/ p \in workers
            /\ waiting' = MapDelete(p)
            /\ wake(waiting')
            /\ pc' = [pc EXCEPT ![p] = "cancelling"]
            /\ UNCHANGED <<tail, starting, bound>>
         \/ /\ kind = "leave" /\ p \notin workers
            /\ Pop(p)
            /\ UNCHANGED <<waiting, starting, scheduled, bound>>
         \/ /\ kind = "enter" /\ p \notin workers
            /\ SpawnForEffect(p)
    /\ UNCHANGED <<durable, undelivered, sweeping, stopped, unitsButBound>>

\* stopWorker after cancel(): an allocation in flight has settled.
StopRegistered(p) ==
    /\ ~sweeping /\ pc[p] = "cancelling" /\ p \notin starting /\ p \in workers
    /\ draining' = draining \cup {p}
    /\ pc' = [pc EXCEPT ![p] = "stopping"]
    /\ UNCHANGED <<durable, undelivered, tail, queue,
                   workers, bound, greeted, served, reports>>

\* Nothing (left) to stop, or the stopped worker has exited.
EffectContinues(p) ==
    /\ ~sweeping
    /\ \/ pc[p] = "exited"
       \/ pc[p] = "cancelling" /\ p \notin starting /\ p \notin workers
    /\ IF Head(tail[p]) = "enter"
       THEN SpawnForEffect(p)
       ELSE Pop(p) /\ UNCHANGED <<waiting, starting, scheduled, bound>>
    /\ UNCHANGED <<durable, undelivered, sweeping, stopped, unitsButBound>>

\* spawnWorker throws as long as an old unit of the process is not removed; the
\* effect fails and nothing is queued.
SpawnRefused(p) ==
    /\ ~sweeping /\ tail[p] # <<>> /\ Head(tail[p]) = "enter" /\ p \notin workers
    /\ pc[p] \in {"ready", "exited"} \/ (pc[p] = "cancelling" /\ p \notin starting)
    /\ Pop(p)
    /\ UNCHANGED <<durable, undelivered, queue, units>>

\* stopWorker rejects when the unit cannot be killed; the effect fails without
\* having waited for the exit, and a restart does not go on to its spawn.
StopFails(p) ==
    /\ ~sweeping /\ pc[p] = "stopping"
    /\ Pop(p)
    /\ UNCHANGED <<durable, undelivered, queue, units>>

-----------------------------------------------------------------------------
(* Durable commits of the engine, as admission sees them *)

\* Mutant: only a new start derives a worker reaction.
CommitWithoutLeave(p, start, wanted, kind) ==
    /\ cur' = [cur EXCEPT ![p] = start]
    /\ live' = [live EXCEPT ![p] = wanted]
    /\ accepted' = accepted \ {p}
    /\ undelivered' = IF kind = "enter" THEN [undelivered EXCEPT ![p] = Append(@, kind)]
                      ELSE undelivered

Commit(p, start, wanted, kind) ==
    /\ cur' = [cur EXCEPT ![p] = start]
    /\ live' = [live EXCEPT ![p] = wanted]
    /\ accepted' = accepted \ {p}
    /\ undelivered' = [undelivered EXCEPT ![p] = Append(@, kind)]

\* A new worker start: a launch, an action, an outcome or a retry, whose
\* reaction replaces the worker.
CommitStart(p) ==
    /\ ~sweeping /\ ~stopped /\ p \notin closed
    /\ made[p] < Budget[p]
    /\ made' = [made EXCEPT ![p] = @ + 1]
    /\ Commit(p, made[p] + 1, TRUE, "enter")
    /\ UNCHANGED <<closed, tail, pc, queue, units>>

\* The turn of an accepted start ends: an outcome that needs no worker clears
\* the start, a failure keeps it; both leave the worker to reconciliation.  A
\* process-level action may also leave a worker turn that is still starting.
CommitLeave(p) ==
    /\ ~sweeping /\ ~stopped /\ live[p]
    /\ \E kept \in {0, cur[p]} : Commit(p, kept, FALSE, "leave")
    /\ UNCHANGED <<made, closed, tail, pc, queue, units>>

\* AbortProcess, in any state: the worker is left to reconciliation.
CommitAbort(p) ==
    /\ ~sweeping /\ ~stopped /\ p \notin closed
    /\ closed' = closed \cup {p}
    /\ Commit(p, 0, FALSE, "leave")
    /\ UNCHANGED <<made, tail, pc, queue, units>>

\* An observation interrupts the process and stops its worker by name.
CommitInterrupt(p) ==
    /\ ~sweeping /\ ~stopped /\ live[p]
    /\ Commit(p, 0, FALSE, "stop")
    /\ UNCHANGED <<made, closed, tail, pc, queue, units>>

\* WorkerFailure for a reported lease: ignored unless the lease was opened for
\* the start that is current now.
CommitFailure(e) ==
    /\ ~sweeping /\ e \in reports
    /\ reports' = reports \ {e}
    /\ IF isCurrent(e)
       THEN Commit(e.p, cur[e.p], FALSE, "stop")
       ELSE UNCHANGED <<cur, live, accepted, undelivered>>
    /\ UNCHANGED <<made, closed, tail, pc, queue,
                   workers, bound, greeted, served, draining>>

\* deriveReactions puts a reconciliation before the list's extension events and
\* the other worker effects after them: while those handlers are awaited, the
\* reaction of a later operation of the same process may overtake.
MayOvertake(p, i) == \A j \in 1..(i - 1) : undelivered[p][j] # "leave"

DeliverNth(p, i) ==
    /\ ~sweeping
    /\ tail' = [tail EXCEPT ![p] = Append(@, undelivered[p][i])]
    /\ undelivered' = [undelivered EXCEPT ![p] = Drop(@, i)]
    /\ UNCHANGED <<durable, pc, queue, units>>

\* The reaction list of a committed operation reaches its worker effect.
Deliver(p) == undelivered[p] # <<>> /\ DeliverNth(p, 1)
Overtake(p) == \E i \in 2..Len(undelivered[p]) : MayOvertake(p, i) /\ DeliverNth(p, i)

-----------------------------------------------------------------------------
(* Allocation, the registered worker, its exit *)

ReportLost(p) == reports  \* mutant: the failed lease is not reported

Report(p) == reports \cup {[p |-> p, s |-> bound[p]]}

\* Mutant: a settled allocation does not wake the queue.
SettleSilently(p) ==
    /\ starting' = starting \ {p}
    /\ scheduled' = scheduled
    /\ IF pc[p] = "spawning" THEN Pop(p) ELSE UNCHANGED <<tail, pc>>

\* launch()'s finally: release the reservation, wake the queue.  An effect that
\* waited for this allocation is done, whatever its result.
Settle(p) ==
    /\ starting' = starting \ {p}
    /\ wake(waiting)
    /\ IF pc[p] = "spawning" THEN Pop(p) ELSE UNCHANGED <<tail, pc>>

\* The runner delivered a unit: the handle is registered.
Register(p) ==
    /\ ~sweeping /\ p \in starting
    /\ workers' = workers \cup {p}
    /\ Settle(p)
    /\ UNCHANGED <<durable, undelivered, waiting, sweeping, stopped,
                   bound, greeted, served, draining, reports>>

\* The runner failed, or the unit exited before it was registered: both report
\* a failure of the lease, and neither registers a handle.
AllocationFails(p) ==
    /\ ~sweeping /\ p \in starting
    /\ reports' = Report(p)
    /\ Settle(p)
    /\ UNCHANGED <<durable, undelivered, waiting, sweeping, stopped,
                   workers, bound, greeted, served, draining>>

\* spawnWorkerNow throws before it opened a lease: an old unit is not removed or
\* the lease is refused.  Nothing is reported.
SpawnThrows(p) ==
    /\ ~sweeping /\ p \in starting
    /\ Settle(p)
    /\ UNCHANGED <<durable, undelivered, waiting, sweeping, stopped, units>>

\* routeEnvelope(worker.hello): the start message is built from the start that
\* is current at that moment; a process that wants none sends none.
Hello(p) ==
    /\ ~sweeping /\ p \in workers /\ p \notin greeted
    /\ greeted' = greeted \cup {p}
    /\ served' = [served EXCEPT ![p] = IF live[p] THEN cur[p] ELSE 0]
    /\ UNCHANGED <<durable, effects, queue, workers, bound, draining, reports>>

\* AcceptWorkerTurnStart, for the start the worker was sent.
AcceptStart(p) ==
    /\ ~sweeping /\ p \in workers /\ p \in greeted
    /\ live[p] /\ served[p] = cur[p] /\ p \notin accepted
    /\ accepted' = accepted \cup {p}
    /\ UNCHANGED <<cur, made, closed, live, effects, queue, units>>

\* handleProcessExit, after the unit is reclaimed: natural, killed, crashed or
\* timed out.  A worker that was not asked to stop has failed; one that was has
\* failed only when it owned an accepted turn that is still running.
Exit(p) ==
    /\ ~sweeping /\ p \in workers
    /\ workers' = workers \ {p}
    /\ greeted' = greeted \ {p}
    /\ served' = [served EXCEPT ![p] = 0]
    /\ draining' = draining \ {p}
    /\ reports' = IF p \notin draining \/ (live[p] /\ p \in accepted)
                  THEN Report(p) ELSE reports
    /\ pc' = [pc EXCEPT ![p] = IF @ = "stopping" THEN "exited" ELSE @]
    /\ wake(waiting)
    /\ UNCHANGED <<durable, undelivered, tail, waiting, starting, sweeping, stopped, bound>>

\* dispatch_inputs with spawnIfMissing: asks the supervisor outside the tail.
InputSpawns(p) ==
    /\ ~sweeping /\ ~stopped
    /\ p \notin workers /\ p \notin starting /\ cur[p] # 0
    /\ \/ /\ AdmitsAtOnce
          /\ Launch(p)
          /\ UNCHANGED <<waiting, scheduled>>
       \/ /\ ~AdmitsAtOnce
          /\ waiting' = MapSet(p, cur[p])
          /\ wake(waiting')
          /\ UNCHANGED <<starting, bound>>
    /\ UNCHANGED <<durable, effects, sweeping, stopped, unitsButBound>>

\* capacityQueue.stop(): requests are refused from now on.
Shutdown ==
    /\ ~sweeping /\ ~stopped
    /\ stopped' = TRUE
    /\ waiting' = <<>>
    /\ scheduled' = FALSE
    /\ UNCHANGED <<durable, effects, starting, sweeping, units>>

-----------------------------------------------------------------------------
Sweep == TimerFires \/ SweepDropsStale \/ SweepLaunches \/ SweepEnds

RunEffects(p) == Deliver(p) \/ BeginEffect(p) \/ StopRegistered(p) \/ EffectContinues(p)

RunUnit(p) ==
    \/ Register(p) \/ AllocationFails(p)
    \/ Hello(p) \/ AcceptStart(p) \/ Exit(p)

\* The start of a process is replaced by the outcome of the worker that runs it,
\* unless it is not live any more.
Settled(p) == live[p] => p \in workers \cap accepted

Usual ==
    \/ Sweep
    \/ \E p \in Procs : \/ Settled(p) /\ (CommitStart(p) \/ CommitLeave(p))
                        \/ CommitAbort(p) \/ CommitInterrupt(p)
                        \/ RunEffects(p) \/ RunUnit(p)
    \/ \E e \in reports : CommitFailure(e)
    \/ Shutdown

\* A process-level action, or an outcome committed after the exit of its worker,
\* replaces a live start; reactions change their order; inputs ask for a worker;
\* the supervisor throws.
Unusual(p) ==
    \/ ~Settled(p) /\ (CommitStart(p) \/ CommitLeave(p))
    \/ Overtake(p) \/ InputSpawns(p)
    \/ StopFails(p) \/ SpawnRefused(p) \/ SpawnThrows(p)

Next == Usual \/ \E p \in Procs : Unusual(p)

Spec == Init /\ [][Next]_vars

\* The server and the runner do not rest while a timer, a reaction, a spawn or
\* an exit is due; a worker does not run for ever.  What the operator or the
\* engine commits next is not promised.
Progress ==
    \/ Sweep
    \/ \E p \in Procs : RunEffects(p) \/ Register(p) \/ AllocationFails(p) \/ Exit(p)

Fairness == WF_vars(Progress)

FairSpec == Spec /\ Fairness

-----------------------------------------------------------------------------
(* Properties *)

\* The configured limit counts registered workers and allocations in flight:
\* together they never exceed it, whatever is queued, stopped or retried.
CapacityRespected == Cardinality(workers \cup starting) <= Limit

\* No lost wakeup: while a request waits and a slot is free, the queue's timer
\* is armed (or its callback is running).
NoLostWakeup ==
    waiting # <<>> /\ hasCapacity /\ ~stopped => scheduled \/ sweeping

\* A process holds at most one place: it is never queued twice, nor queued
\* while its own allocation is in flight.
OnePlacePerProcess ==
    /\ \A i, j \in 1..Len(waiting) : waiting[i].p = waiting[j].p => i = j
    /\ \A i \in 1..Len(waiting) : waiting[i].p \notin starting

HasEffect(p, K) ==
    \/ \E i \in 1..Len(undelivered[p]) : undelivered[p][i] \in K
    \/ \E i \in 1..Len(tail[p]) : tail[p][i] \in K

\* Somebody is responsible for the live start of p: a worker that runs it or
\* will be sent it, an allocation, a queue entry, a reaction that will ask for
\* a worker, or a failure report that will park the process.
Served(p) ==
    \/ p \in starting
    \/ p \in workers /\ (p \in greeted => served[p] = cur[p])
    \/ [p |-> p, s |-> cur[p]] \in reports
    \/ \E i \in 1..Len(waiting) : waiting[i] = [p |-> p, s |-> cur[p]]
    \/ HasEffect(p, {"enter"})

\* A worker the process no longer wants is on its way out: a reaction will stop
\* it, it is draining or its failure is reported, or it was never sent a start
\* and the startup timer is left armed.
UnwantedWorkerLeaves ==
    \A p \in workers : ~live[p] =>
        \/ p \in draining
        \/ HasEffect(p, EffectKinds)
        \/ p \notin greeted \/ served[p] = 0

\* FIFO: an allocation never overtakes an earlier request that is still wanted.
NoOvertaking ==
    [][\A p \in Procs : p \in starting' /\ p \notin starting =>
         \A i \in 1..Len(waiting) :
            isCurrent(waiting[i]) /\ waiting[i].p \notin starting' =>
               \E j \in 1..Len(waiting) : j < i /\ waiting[j].p = p]_vars

\* A wanted request is eventually admitted, unless it stops being wanted.
QueuedIsAdmitted ==
    \A p \in Procs :
        (Queued(p) /\ live[p]) ~> (p \in starting \/ ~live[p] \/ stopped)
=============================================================================
