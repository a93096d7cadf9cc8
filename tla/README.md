# Leitwerk: verification of processes, workers and what lies between them

Leitwerk is a process-centric control plane around AI workers. A process
instance walks a graph of turns (LLM turns, automatic turns, human turns); a
server keeps its durable state in SQLite, and every LLM or automatic turn runs in
a worker, a separate runtime that talks to the server over a WebSocket. This
directory holds TLA+ specifications of the parts where the order of events
decides whether a process is lost: the durable state machine of a process, the
way committed decisions become workers, the worker's own lifecycle, the protocol
and the connection between the two, and the services that act on a process from
outside: gates, schedules, model availability, questions and approvals.

Paths below are relative to `src/packages/server/src/` unless they say otherwise;
`worker/` is `src/packages/worker/src/`.

## 1. Inventory

| Component | State | Operations | What makes it correct | Module |
|---|---|---|---|---|
| Process engine (`process-engine/`) | lifecycle status, selected turn, current execution, turn starts and records | `ops/*`, each one transaction under the process lock (`runner.ts`) | one current execution; attempts count failures; terminal facts are final; ended processes stay ended; an error is retryable | `ProcessEngine` |
| Post-commit reactions (`effects/`, `recorder.ts`, `writes/commit-writes.ts`) | a tail of promises per process | worker effect, reconciliation, input dispatch, extension events | reactions act in a sensible order although they run after the lock is released | `WorkerAdmission` |
| Worker capacity queue (`supervisor/worker-capacity-queue.ts`) | `waiting`, `starting`, one timer | request, cancel, wake, launch, stop | limit respected, FIFO, no lost wake-up, nobody waits for ever | `WorkerAdmission` |
| Worker supervisor (`supervisor/worker-supervisor.ts`) | handles, timers | spawn, stop, route, exit, shutdown | a wanted start has somebody responsible for it; an unwanted worker leaves | `WorkerAdmission`, `TurnProtocol`, `WorkerUnits` |
| Worker leases (`domain-logic/worker-lease-lifecycle.ts`) | one row per physical worker | observations | a lease only moves forward | `WorkerLease` |
| Report recording (`supervisor/ipc-handler.ts`, `worker-turn-ipc-recorder.ts`) | none of its own | acceptance, outcome, failure, park, repetition | a report counts once, and only for its execution | `ProcessEngine`, `TurnProtocol` |
| Worker runtime (`worker/runtime/`) | phase, publication, acknowledgements, inputs, credentials | one reducer over messages, timers and results | executes only what was accepted, once; holds its outcome until recorded; always gets out | `WorkerRuntime` |
| Heartbeat watchdog (`supervisor/stale-heartbeat-watchdog.ts`) | idle clocks | replay, give up, forget | never gives up a worker that executes | `TurnProtocol` |
| Adoption, unit reclaimer (`supervisor/`) | listed units, removals under way, backlog | adopt, time out, reclaim, retry | units that outlive a server are adopted or removed, never doubled | `WorkerUnits` |
| Worker link (`supervisor/worker-websocket-ipc.ts`, `worker/ipc.ts`) | sockets, buffers | connect, authenticate, send, close | order kept; a wanted worker finds its server again | `WorkerLink` |
| Turn waits, mapped turns (`process-engine/turn-wait-state.ts`, `mapped-turns.ts`, `turn-wait-service.ts`) | the wait, the runs and their items | arm, check, resolve; next item | a late check starts nothing else; an item succeeds once | `GatedTurns` |
| Future execution (`future-execution/`) | scheduled rows, two kinds of locks | schedule, revise, cancel, run now, tick | an occurrence runs once; a schedule fences the process | `FutureExecution` |
| Model availability (`process-model-availability-*.ts`, `future-execution/reconciliation.ts`) | status cache, blocks of rows | refresh, apply, recover | no block outlives its reason | `ModelBlocks` |
| Questions, approvals, tools (`process-question-service.ts`, `tool-approval-gate.ts`, `integration-tool-registry.ts`) | request rows, calls under way | ask, answer, decide, cancel, repeat | an answer returns; no unapproved write | `WorkerRequests` |
| External writes (`src/packages/external-writes`) | a log | `ensure` | a write is made once | `WorkerRequests` |
| Startup reconciliation, retry policy | none; derived | reclaim, resume; schedule, retry, give up | a crash loses no active process; three starts per episode | `ProcessEngine`, `WorkerUnits` |
| Sources, watchers, sessions, runners, UI, integrations | foreign services, files, views | I/O | see "Not modelled" | - |

How they interact. A command or a worker report becomes an engine operation. The
operation takes the process lock, loads the process, decides, commits one
transaction and releases the lock. Its reactions run afterwards: a reconciliation
or a worker effect joins the process's tail and asks the supervisor to stop or to
spawn a worker; the supervisor asks the capacity queue, and refuses while a unit
of the process is still being removed. The worker connects, says hello, is sent
the start that is current *then*, prepares, reports `worker.ready`, asks for
acceptance, runs, and reports a terminal fact until it is acknowledged. During the
turn it asks questions and calls tools through requests it repeats after every
reconnection. Reports reach the engine through the same lock, after any command
that took it first. Gates, the scheduler and the model cache read a process
outside its lock and commit under it later.

What is hard: everything between a commit and its reaction; reports that wait for
the lock while the process is retried; allocations and containers that outlive
what they were made for; messages lost with a connection that one end still
believes in; restarts between a write and its record; checks that answer after
the process moved on; one slot shared by many processes. The list with the lines
where each bites is `hazards` in `PROJECT.json`.

## 2. Modules

### `WorkerAdmission`, `WorkerAdmissionHistory` (model `MCWorkerAdmission`, proofs `WorkerAdmissionProofs`)

Several processes share `Limit` slots. The durable side of a process is reduced to
what admission reads: its current start (`cur`), whether it is still wanted
(`live`, the queue's `isCurrent`) and whether it was accepted. The other
variables are the code's own:

| TLA+ | Code |
|---|---|
| `waiting`, `starting`, `scheduled`, `stopped` | the queue's Maps (insertion order kept), timer and flag; `sweeping` is its callback in progress |
| `undelivered`, `tail`, `pc` | reactions not yet on the tail; `workerEffectTails`; the `await` at which the running effect is suspended |
| `workers`, `bound`, `greeted`, `served`, `draining` | registered handles; the start of the newest lease; hello received; start sent; stop requested |
| `reports` | failures routed to the engine, their `WorkerFailure` not yet committed |

JavaScript runs to completion between awaits, so an action is the code between
two awaits. The timer callback is a loop without awaits: it is one step per
iteration, and `~sweeping` in every other guard keeps everything else out.
`Commit...` actions are the engine's operations as seen from here: which start is
current afterwards, whether it is wanted, and the reaction that is derived.
`Deliver` puts the first reaction on the tail; `Overtake` takes a later one, which may pass
worker effects that stand behind awaited extension events. A live start is replaced by the
outcome of the worker that runs it (`Settled`), or by an action or an outcome committed after
that worker's exit. An effect fails without a report when its worker cannot be killed
(`StopFails`) or an old unit is still being removed (`SpawnRefused`), and so does an
allocation that throws before it has a lease (`SpawnThrows`). Idle timers, startup timeouts,
pre-emptive kills and crashes of a worker are all `Exit`, which may happen at any time. A
shutdown ends admission; what it then does to workers is not followed.

`Unusual` collects the steps of one process that only mishaps or operators cause: the
replacement of an unsettled start, `Overtake`, `InputSpawns` and the three failures.
`WorkerAdmissionHistory` adds two history variables. `unusual` counts these steps, so that a
run can bound them. `astray` holds the processes whose current start was hit by one of four
defects: it joined the allocation of an earlier start, a stop ran after the restart that was
derived behind it, or its last reaction or its allocation failed without a report. A new start
takes its process out. All of these behaviours are part of `Next` and of the theorems;
`ActiveStartIsServed` exempts the starts in `astray` and no others.

### `ProcessEngine`, `ProcessEngineHistory` (model `MCProcessEngine`, proofs `ProcessEngineProofs`)

One process. A worker start reserves the turn record of the same number, so start
`s` has its `TurnStartRecord` in `starts[s]` and its record in `status[s]` and
`attempt[s]`. `inbox` holds reports that the IPC handler accepted and that wait for
the lock, first come first served; commands take the lock in between. Each
operation of `ops/` is one action:

| Action | Code |
|---|---|
| `StartProcess`, `HumanAction`, `ProcessAction` | `start-process.ts`, `execute-action.ts` (turn-scoped and process-level) |
| `AbortProcess`, `ObservationEnds` | `abort-process.ts`, `process-observation.ts` with a lifecycle status |
| `RetryStartup`, `AutomaticRetryStartup`, `RetryFailedTurn`, `ContinueFailedTurn` | `retry-startup.ts`, `automatic-retry-startup.ts`, `retry-failed-turn.ts`, `continue-failed-turn.ts` |
| `AcceptWorkerTurnStart`, `TurnOutcome`, `TurnFailed`, `WorkerFailure`, `ParkProcess` | the operations of the same names |
| `SpawnLease`, `Hello`, `Ready`, `TurnStarted`, `Terminal`, `LifecycleParked`, `FailLease`, `Drain`, `Exit` | the supervisor and the IPC handler around a lease |
| `Crash` | the server dies and `reconcileProcessesOnStartup` runs |

`Reserve`, `Select`, `Supersede`, `End` and `Fail` are the write builders. A preparation
that fails at commit (`turn-start-preflight.ts`) is the nondeterministic choice of
`Preflight`; an automatic turn needs none. A mapping has one range per definition:
`AutomaticRetryStartup` also stands for the bound of `startup-retry-policy.ts`,
`TurnOutcome` for `writes/build-turn-outcome-writes.ts`, `Reserve` for the recovery
builders, and `ParkProcess` for `ops/park-process.ts`, which allows any lifecycle. A human turn's own record is written
succeeded in the operation that leaves it and never read again, so it is not kept.
Abstractions that only add behaviours: a lease drains whenever its start is no
longer wanted or its worker is connected; automatic retries happen at any time and
for any error class; an outcome may be rejected by planning although it is
correlated. Left out: `waitFor` gates and mapped turns (module `GatedTurns`), `AbortTurn` (an event and a
message to the worker), deferred activation, queued inputs other than as a reason
to spawn, the observation that interrupts into a wait, the restart branch of
`StartProcess`, and the boot path for a missing local resource bundle.
`ProcessEngineHistory` adds the variable `strayed`, which remembers a process-level action
that left a worker turn or a park recorded on its own, and the properties of an engine
that did not stray.

### `WorkerRuntime` (model `MCWorkerRuntime`, proofs `WorkerRuntimeProofs`)

The reducer of `worker/runtime/lifecycle-reducer.ts`, event by event. `w` is the
reducer's state; its asynchronous commands are `w.jobs`, each of which ends in any
way its handler knows, at any time; `w.out` holds the protocol facts of a step.
The runtime's queue is never re-entered, so an event is one action: messages
(`FromServer`), completed jobs (`JobEnds`), timers, transport and stops (`Local`).
The sorted and deduplicated input queue is a set of sequence numbers; `overtaken`
remembers that a batch was dispatched before one with earlier inputs. Identities
of starts and turns do not appear, since a worker serves one. Left out: the
`invariant_failed` event (the event bus swallows what a handler throws, and
`NeverThrows` shows that the reducer does not), a session snapshot that fails with
an error instead of a result, the flag that an LLM is streaming, and
`worker.cleanup_started`, which the server only logs.

### `TurnLedger`, `WorkerLease`, `TurnProtocol` (model `MCTurnProtocol`, proofs `TurnProtocolProofs`)

`TurnLedger` is the abstract promise of a turn: one execution, after acceptance,
one terminal record, success only with an outcome. `WorkerLease` is the table of
lease observations. `TurnProtocol` EXTENDS `WorkerRuntime` and `WorkerLease` and
composes the reducer with the server's side of one start: the handlers of
`ipc-handler.ts`, the recorder, its acknowledgements and its fallback, the startup timer, the
stop with its grace period, the watchdog and the exit of the process, over a link
of two queues and two buffers that may be cut. `ImplementsLedger` instantiates
`TurnLedger` with the durable record and the worker's execution. An assumed failure
may give way to an outcome that arrives later, as in the code. An outcome that the server
cannot record becomes a failure of the worker and is acknowledged all the same
(`HandleRefusedOutcome`); when that failure cannot be written either, nothing is written or
acknowledged, and the report is repeated (`HandleUnwritten`). A rejected readiness or acceptance
is also told to a callback `onWorkerFailed`, which the server leaves unset (`createIpcHandler`
in `app.ts:862`), so it has no effect here. The watchdog's timeouts are long against the link, so
it acts when nothing is in flight (`Delivered`), with a connection or without.

### `WorkerUnits` (proofs in `ComponentProofs`)

The containers or pods of one process, as seen by the reclaimer, the adoption
coordinator and the supervisor: spawn, exit, kill, removal attempts and the retry
loop, listing and classification at boot, adoption that succeeds, breaks, times
out or is refused, and the exit that is finalised only after removal. A local
child process needs no removal and is not in this module. A start that fails may leave no
unit, a dead one, or one that runs although the runner threw. `mishaps` remembers that, an
adoption that broke after attaching, and a retry served before the listing.

### `WorkerLink` (proofs `WorkerLinkProofs`)

Both ends of the socket between one worker and the server. A cut is noticed by
each end in its own time; the worker reconnects and buffers, the server
authenticates one socket per worker, bounds its buffer and closes with the codes
the worker acts upon. What travels is numbered, so that order and loss show.

### `GatedTurns` (model `MCGatedTurns`, proofs in `ComponentProofs`)

Turns with `waitFor` and with `forEach` of one process: every operation that would
start a gated turn leaves a wait; the polling service arms and checks it outside the
lock (`CheckBegins`, `CheckEnds`) and resolves it under the lock; a mapped turn
freezes its items and runs them one start at a time, with failure, retry,
interruption and abort of the run. A start whose contract, profile or provider options are
not valid any more is refused at commit, and the wait stays as it is; `valid` is the
configuration it depends on, which the environment changes. The engine's operations appear with what they do
to waits and runs; workers and reports are left to `ProcessEngine`.

### `FutureExecution` (proofs `FutureExecutionProofs`) and `ModelBlocks` (proofs in `ComponentProofs`)

`FutureExecution` has the rows of scheduled launches and actions, the tick, and users
who schedule, revise, cancel, run now, act and abort. `queue` is `runExclusive`: a
FIFO lock per row and one for the process, and each request is a task that goes from
await to await. Time is a counter. What a model evaluation answers is a free choice
there; `ModelBlocks` looks inside: the status cache with expiry and refresh, the
application of its changes to rows (evaluate, compare the revision, park a stale
evaluation), rows that throw, and the recovery of starts parked for want of a model. An
action is stored with the block of that moment; a launch is prepared (`PrepareLaunch`) and
stored later (`PersistLaunch`), and `dated` has the rows whose block was outdated by then.

### `WorkerRequests` (model `MCWorkerRequests`, proofs `WorkerRequestsProofs`)

What a worker asks of the server during a turn, over two attempts: questions,
reviewed writes and plain tool calls, each repeated after a reconnection. Rows of
requests, waiters (`run`), operators who answer, accept, give feedback, decline,
abort, leave and retry, the abort that follows a decline, and `ensure` with its look
before the write, its look after an error and its log. A provider request that is in
flight at a crash took effect or never will. An abort ends the record of the current execution;
one that a process-level action left before (status `left`) stays open with its question, as in
the code. `logOnly` writes are left out.

## 3. Properties and runs

One run per question; `expect` is pass for all but `engine_late_park`. Several
invariants of a module are conjoined under one name (`...Invariant`), whose parts are
defined separately, each with its own comment.

| Run | Bounds | Shows |
|---|---|---|
| `admission_safety` | 2 processes with 1 start each, 1 slot, 1 unusual step of the first, fair | `NoOvertaking` (first come first served), `QueuedIsAdmitted` (nobody waits for ever) |
| `admission_mishaps` | 2 processes, 1 slot, 2+1 starts, 1 unusual step of the first, 2 pending reactions per process | `ActiveStartIsServed`: every wanted start has a worker, an allocation, a place, a reaction or a failure report of its own, but for the defects of section 4; `UnwantedWorkerLeaves`; `CapacityRespected`, `OnePlacePerProcess`, `NoLostWakeup` |
| `engine_safety` | 4 starts, 2 leases, 2 reports, 1 crash, process-level actions, parks | `ExecutionIsAccounted` (the current execution is anchored, an error is recoverable, a running turn has a worker), `AttemptsFollowFailures`, `LateReportsAreIgnored`, `TerminalFactsAreFinal`, `EndedStaysEnded` |
| `engine_late_park` | 3 starts, 2 leases | **violated** `LateReportsIgnored`, see section 4 |
| `runtime` | 3 inputs, the second targeted, LLM and automatic turns, refreshable credentials | `ReducerInvariant` (never throws, executes once and accepted, retains its outcome, cleans up last), `InputsFlow`, `ExitIsUnderWay`: a worker on its way out never waits for nothing |
| `protocol` | 1 start, 1 lost connection, 1 message per direction in flight, 2 troubles (a drop, a defect, an eviction, a refused or an unwritten report) | `ImplementsLedger`, `AckedOutcomeIsRecorded`, `ExecutingWorkerIsNotGivenUp`, `ProtocolInvariant` (a parked turn can be retried), `EverythingSettles` |
| `units` | 3 units, 1 restart | `UnitsInvariant` (one running unit, no failed removal forgotten), `HandleOutlivesUnit`, `RemovalsComplete` |
| `link` | 2 sockets, 2 messages each way, buffer of 1, 2 cuts, 1 restart | `LinkInvariant` (order, one bound socket, bounded buffer), `OnlyUnwantedWorkersGiveUp`, `LinkHeals` |
| `gated` | 4 turns, 2 items, 3 starts, 2 runs, 1 change of the gate or the configuration, 1 timeout, 1 restart | `GatedInvariant`, `ChecksStartNothingElse`, `ReadyTurnStarts` |
| `future` | 1 launch, 2 actions, 2 users, 2 requests, time 0..2, 1 failure, 1 restart | `OccurrencesRunOnce`, `ScheduleInvariant` (one scheduled action, which fences ordinary ones and ends with an abort), `ScheduleProgresses` (due work is taken, no request is stuck) |
| `blocks` | 1 model, 1 row, 2 overlapping applications, 3 changes, 1 lapse, 1 throw, 1 park, 1 restart | `BlocksInvariant`, `ReturnedModelIsUsed` |
| `requests` | 2 attempts with one call each (question, reviewed write or plain write), 1 mishap | `RequestsInvariant`, `WrittenOnce`, `DecisionsAreObeyed`, `CallsAreAnswered` |

Why the bounds are enough to be interesting: one slot and two processes make
every second request wait, and a second start of one process makes replaced
allocations and stale entries possible. Every unusual step of admission, alone, meets every
interleaving of the usual ones; two pending reactions are what one can overtake. The run
with mishaps looks at states before a shutdown, after which its invariants say little. Four starts reach a failed turn, its failed
recovery start, the retry of that and a further turn; two leases are a worker and its
replacement, two reports make one wait behind another. Three inputs allow a delivery
under way, one queued and one that overtakes both. In the protocol one message in
flight and one buffered already separate every send from its receipt, and one cut
loses any of them; two troubles pair a cut with a defect, an eviction or a refusal.
Three units are the survivor of a restart, its replacement and the
replacement of that. Two actions and two users make both locks contended; time up to
2 gives a row a second occurrence and a deferral. Two applications overlap on a row; a
model changes and changes back. Two items and two runs make an item of an aborted run
possible. Two attempts let a request, a decision or an abort of the first meet the
second; the mishap is a lost connection, a provider error, a dead worker or a restart.
No run checks for deadlock: a process may end, a worker may have exited, and the
bounds stop the rest.

Fairness. Commits, operators, faults and mishaps are never fair. What is fair:

* `WorkerAdmission`, `WorkerRequests`: one weak condition on `Progress`, all the steps
  of the event loop, timers, workers and links; the event loop runs every callback
  that is due. In `WorkerAdmission` it includes `Exit`: a turn ends, and idle and
  heartbeat limits remove the worker of one that does not.
* `TurnProtocol`: weak for `Bounded` (steps that happen a bounded number of times), for the
  worker that reads its link and for the server's handlers; strong for `Retries`, the
  worker's repetition timers, and for the watchdog's replay and verdict, which are disabled
  for a while by lost connections and other reports but come back with every interval.
* `WorkerUnits`: weak for every attempt's end and the retry loop; strong for
  `LoopSucceeds`, the assumption that a removal that is repeated for ever succeeds once.
* `WorkerLink`: weak for each step of a connection, for reconnecting and for the end of
  adoption.
* `GatedTurns`: weak for arming, the beginning and the end of a check, and time.
* `FutureExecution`: weak for the scheduler and for every request that was begun.
* `ModelBlocks`: weak for the refresh timer and for each application.

## 4. Where the code and its documents part ways

`engine_late_park` shows one case as a counterexample. The others were met while
modelling; the properties exempt them by name, so that the rest of the behaviour is
checked with them still in the model.

| Code | What happens | Says otherwise | Exempted by |
|---|---|---|---|
| `writes/build-process-park-writes.ts:25` | `lifecycle_parked` names only its turn; behind a retry of that turn it parks the new start, which no retry accepts | `docs/server-worker-lifecycle.md:209` | run `engine_late_park`; `strayed` in `ExecutionIsAccounted`; `LateReportsAreIgnored` leaves parks out |
| `supervisor/worker-capacity-queue.ts:49` | a start replaced while no worker runs it shares the pending allocation; if that fails, the failure names the old start. A retry does it, and so does the outcome of a turn that was assumed failed | `docs/server-worker-lifecycle.md:398` | `astray` (`JoinsAnother`) in `ActiveStartIsServed` |
| `writes/commit-writes.ts:403` | a stop dispatched after awaited extension handlers is overtaken by a restart and removes the newer worker | `docs/server-worker-lifecycle.md:201` | `astray` (`LeavesStopBehind`) in `ActiveStartIsServed` |
| `supervisor/worker-shutdown-controller.ts:77` | a worker that cannot be killed makes its stop reject; a restart does not go on to its spawn, and the start has only the worker that should be gone | `docs/server-worker-lifecycle.md:201` | `astray` (`FailsSilently`) in `ActiveStartIsServed` |
| `supervisor/worker-supervisor.ts:882`, `:1034` | a spawn that throws before it has a lease, because an old unit is still being removed, reports no failure of the start; after a restart this refuses a worker to a resumed start, and nothing asks again | `docs/server-worker-lifecycle.md:397`, `:398` | `astray` (`FailsSilently`) in `ActiveStartIsServed` |
| `supervisor/worker-supervisor.ts:660` | a turn resumed on a new lease names the old one; the exit of the draining worker fails nobody | `docs/server-worker-lifecycle.md:406` | `crashes = 0` in `OwnedByItsLease` |
| `process-engine/ops/execute-action.ts:145` | a process-level action leaves the record of the turn it abandons running, and its open question open | `docs/ubiquitous_language.md:41` | `strayed`; status `left` of `WorkerRequests` |
| `worker/runtime/lifecycle-reducer.ts:1126`, `:830` | after a broken activation or turn a stop waits for a completion that came before it | `docs/server-worker-lifecycle.md:150` | `StopNotesBroken` in `ExitIsUnderWay` |
| `worker/runtime/lifecycle-reducer.ts:1148` | a batch that overtook an earlier one changes the head of the queue under delivery; nothing is delivered again | `docs/ubiquitous_language.md:71` | `overtaken` in `InputsFlow`, `ExitIsUnderWay` |
| `worker/runtime/lifecycle-reducer.ts:1293` | `worker.turn_failed` whose mandatory snapshot failed is sent once and not kept | `docs/server-worker-lifecycle.md:147` | `OutcomeIsRetained` speaks of outcomes only |
| `supervisor/ipc-handler.ts:258` | a state report lost with its connection is not repeated; the watchdog gives up a worker that executes | `docs/server-worker-lifecycle.md:203` | `drops = 0` in `ExecutingWorkerIsNotGivenUp` |
| `process-engine/ops/retry-failed-turn.ts:31` | a defect parks the process and leaves the record running, which no retry accepts | `docs/server-worker-lifecycle.md:201` | `"defect"` in `ParkedTurnCanBeRetried`, `StartSettles` |
| `supervisor/worker-supervisor.ts:655` | the exit of a worker evicted before acceptance counts as expected; its start stays active | `docs/server-worker-lifecycle.md:168` | `"eviction"` in `StartSettles` |
| `supervisor/worker-turn-ipc-recorder.ts:170` | a failure report whose record and whose fallback both fail is neither recorded nor acknowledged; a park recorded meanwhile leaves the record running, which no retry accepts | `docs/server-worker-lifecycle.md:201` | `"unwritten"` in `ParkedTurnCanBeRetried`, `StartSettles` (`Whole`) |
| `src/packages/worker-runners/src/docker-worker-runner.ts:275` | a start may throw after its container runs; the start is reported failed, and a retry may run beside it | `docs/server-worker-lifecycle.md:86` | `"unanswered"` in `OneRunningUnit`, `HandleOutlivesUnit` |
| `server-bootstrap/app-lifecycle.ts:83` | a retry served before adoption listed the units runs beside a survivor | `docs/server-worker-lifecycle.md:86` | `"early"` in `OneRunningUnit` |
| `supervisor/worker-adoption-coordinator.ts:139` | an adoption that breaks after attaching keeps its exit listener, which later takes the handle of the replacement | `docs/server-worker-lifecycle.md:86` | `mishaps = {}` in `HandleOutlivesUnit`, `"broken"` in `OneRunningUnit` |
| `future-execution/reconciliation.ts:48` | a row whose evaluation was overtaken twice by another model is freed only by a change of its own | comment at `process-model-availability-transitions.ts:3` | `Lifted` |
| `future-execution/reconciliation.ts:55` | one row that throws ends the loop and the recovery of processes after it | the same comment | `Thrown` |
| `future-execution/launch-lifecycle.ts:385`, `:424` | the block of a launch is computed when it is prepared and stored after awaits; a status that changed in between is applied to the other rows only | the same comment | `dated` in `BlocksAgreeWithCache`, `BlockIsLifted` |
| `supervisor/worker-websocket-ipc.ts:258` | a worker that reconnects before the server noticed the cut is turned away for good | `docs/server-worker-lifecycle.md:167` | the close codes in `OnlyUnwantedWorkersGiveUp` |
| `process-engine/turn-wait-state.ts:99` | an interruption aborts a mapped run and then takes up a wait that names an item of it | `docs/llm-turn.md:36` | `interrupted` in `AdmittedItemIsCurrent` |
| `turn-wait-service.ts:171` | a resolution that is refused, of a mapped or an ordinary gated turn, is not recorded, and the gate is checked at every poll | `docs/process-sdk.md:466` | `valid` in `ReadyTurnStarts` |
| `process-question-service.ts:107` | a question of a turn resumed on a new lease is dropped | `docs/agent-tools.md:109` | equal leases in `CallReachesOperator` |
| `integration-tool-registry.ts:444` | a turn ended by its worker's exit leaves the signal of its tool call alone | `docs/agent-tools.md:78` | no property is about the signal |

## 5. Proofs

A theorem holds for every value of the constants under the named assumptions of the
modules: a finite set of processes, a positive limit, a well-formed turn graph, natural
bounds, at least one attempt of a turn (`MaxTurns`), row names other than the name of
the process lock (`FutureAssumption`), and names for "nothing" that name nothing: `NoConn` is
not a connection, `NoTurn` and `Done` are not turns (`GatedAssumption`), `Nothing` is neither a
model nor a row (`ModelBlocksAssumption`). TLC evaluates
each of them in the runs. Every proof has the same outline: an inductive invariant
(`IInv`, `FInv`, `PInv`), one lemma per part of it or per event, and a last step that draws the
property from it.

| Module | Theorems (property) |
|---|---|
| `WorkerAdmissionProofs` | `TypeTheorem`, `CapacityTheorem` (`CapacityRespected`), `PlacesTheorem` (`OnePlacePerProcess`), `WakeupTheorem` (`NoLostWakeup`), `FifoTheorem` (`NoOvertaking`), `ExitsTheorem` (`UnwantedWorkerLeaves`), `ServedTheorem` (`ActiveStartIsServed`) |
| `ProcessEngineProofs` | `TypeTheorem`, `AttemptsTheorem` (`AttemptsFollowFailures`), `EndedTheorem` (`EndedStaysEnded`), `FactsTheorem` (`TerminalFactsAreFinal`), `LateReportsTheorem` (`LateReportsAreIgnored`), `AccountedTheorem` (`ExecutionIsAccounted`) |
| `WorkerRuntimeProofs` | `ReducerIsSafe` (`ReducerInvariant`), `InputsAreConsumedInOrder` (`InputsFlow`), `ExitsAreUnderWay` (`ExitIsUnderWay`) |
| `TurnProtocolProofs` | `TurnKeepsLedger` (`ImplementsLedger`), `AckedOutcomesAreRecorded` (`AckedOutcomeIsRecorded`), `ExecutingWorkersAreKept` (`ExecutingWorkerIsNotGivenUp`), `ParkedTurnsCanBeRetried` (`ProtocolInvariant`) |
| `WorkerLinkProofs` | `LinkIsConsistent` (`LinkInvariant`), `WantedWorkersComeBack` (`OnlyUnwantedWorkersGiveUp`) |
| `FutureExecutionProofs` | `ScheduleIsConsistent` (`ScheduleInvariant`), `OccurrencesCommitOnce` (`OccurrencesRunOnce`) |
| `WorkerRequestsProofs` | `RequestsAreConsistent` (`RequestsInvariant`), `CallsWriteOnce` (`WrittenOnce`), `DecisionsBind` (`DecisionsAreObeyed`) |
| `ComponentProofs`, part 1 | `UnitsAreExclusive` (`UnitsInvariant`), `HandlesOutliveUnits` (`HandleOutlivesUnit`) of `WorkerUnits` |
| `ComponentProofs`, part 2 | `GatedTurnsAgree` (`GatedInvariant`), `LateChecksStartNothing` (`ChecksStartNothingElse`) of `GatedTurns` |
| `ComponentProofs`, part 3 | `BlocksAgree` (`BlocksInvariant`) of `ModelBlocks` |

`WorkerAdmissionProofs`. The inductive invariant adds `SuspendedHasEffect` (an effect that
is suspended is still the head of its tail, without which `Pop` would not be typed).
`CapacityRespected` needs finiteness and the fact that a slot is taken only under
`hasCapacity` and handed on by `Register`; the cardinality facts are two lemmas
(`LaunchFits`, `ShrinkFits`). `OnePlacePerProcess` is preserved because `MapSet` and
`MapDelete` keep keys distinct and a launch takes the head out. `NoLostWakeup` follows from
one observation: every action that frees a slot or adds a waiter calls `wake`, and the
callback ends only with the queue empty or its head unlaunchable, for which
`OnePlacePerProcess` is needed. `NoOvertaking` follows from the two places that reserve.
`UnwantedWorkerLeaves` holds for every order of reactions: a commit that makes a worker
unwanted leaves a reaction that stops it, and only that reaction or the exit removes it.
`ServedTheorem` is a theorem of `HistorySpec` without further hypotheses: all orders of
reactions, replacements, spawns for inputs and failures are in it. Its invariant says, for
every start that did not go astray, which reaction, place, allocation or report stands for it
at each await of an effect (`StartsAreCovered`), and what an effect, an allocation or a stop
made for an earlier start leaves behind (`Stale`, `Replaced`, `Held`). Each of the defects that
`astray` remembers is needed: without any one of them TLC finds a start that nobody knows of.

`ProcessEngineProofs`. None of its properties is inductive alone. `IInv` adds: an ended
process has no current execution and no selection (`EndedIsClear`), so that no report
finds anything to act on; the current start is the newest (`NewestIsCurrent`) and later
numbers are blank (`UnmadeAreBlank`), so that a new start cannot hit an old record; an
accepted current start is running or failed (`CurrentIsOpen`), so that a report can only
close an open record. Attempts stay right although an outcome may revive a failed
record, because only the current record can be revived and a recovery start replaces it
as current.

`LateReportsAreIgnored` needs to know what the reports that wait for the lock can name:
`LeaseFacts` (a lease was sent no start beyond the newest, and its receipt is for what it was
sent) and `InboxNames` (a report names what its worker was sent). `ExecutionIsAccounted` is
about the history, so `AccountedTheorem` is a theorem of `StraySpec`. `HistoryInv` adds to `IInv`
what holds as long as the engine did not stray: `Straight` (the current execution is anchored,
an error can be retried, an executing worker executes the current start), and, before a
restart and while no lease serves a later start than its own (`Settled`), that a worker that
failed with the current start has its failure in the inbox (`FailedIsQueued`) and that the
worker of a running record is there, or its failure is (`OwnerIsThere`). Without
`FailedIsQueued` the acceptance of a start could hand the record to a worker already gone.

`WorkerRuntimeProofs`. The reducer's state is one record, and an event is a change of it
followed by `advance`. `Good(s)` says phase by phase which jobs, publications and stages go
together (the turn's job only while it executes and nothing is published; a snapshot of
each kind only in its phases); it is what makes a second publication, and so the
exception of `beginSnapshot`, impossible. `Hist` ties the history to it: `ran` counts the
launch, and an outcome that is owed is held. The helpers have a lemma each on what they
change; `AdvanceMoves` shows that `advance` keeps the invariant and says nothing of the
turn's end; then there is one lemma per event (`...Pre`). They also prove `Tale`, what an
event may say of the turn: an outcome or a failure is sent with the publication that
holds it, and a park comes after the failure it stands for unless a command broke. And they
prove `Voice`, what an event says of the reported state: a worker that goes on reports every
change of it, as the last fact of the step; one that exits reports none, and launches
nothing on the way out.

The two theorems on inputs and exits need more, `FInv`. `Way`: whatever the worker waits for
is under way (a publication that takes a snapshot has its job, a cleanup has its job or
its snapshot, a delivery has its job unless a batch was overtaken). `Queued`: the inputs the
worker knows of are an initial segment of all, the queue is what is not consumed of them,
and a delivery is the beginning of the queue; this is what a batch that overtakes an
earlier one destroys, and why both properties exclude it. `Told`: no report of a consumed
input is above `consumed`, and the reports of the last step come after the earlier ones, in
order. And after every event `advance` has left no worker that could already clean up
(`~NoActiveWork`). `AdvanceReady` shows that `advance` keeps `Ready`, the part of this that
holds in the middle of an event, `FlowStep` that the history follows, and each event has a
lemma (`...Ready`) that it leaves `advance` such a state.

`TurnProtocolProofs` uses `After`, with `Tale` and `Voice`, as the whole interface of the
worker, so that its own cases are few: a step is a worker event (`Spoken`) or a server step
(`Serves`). `PInv` adds what the two sides and the queues know of each other: a grant that was received or is in
flight is on record (`Granted`); a turn ends once (`Ending`) and its outcome is spoken of only
if it was produced (`Produced`); nothing terminal is in flight before the worker publishes
it (`Untold`); an acknowledgement in flight while an outcome is held is that outcome's
(`HeldOutcome`), from which `AckedOutcomeIsRecorded` follows (an outcome that was refused is
answered by the failure that stands in its place); the record has succeeded exactly
when the process moved on (`Moved`); and without a defect a park in a queue comes behind
its failure (`Parks`), which gives `ParkedTurnCanBeRetried`. For `ImplementsLedger` each
worker event is `Execute`, `Finish` or a stutter of `TurnLedger`, each server step `Accept`,
a terminal record or a stutter. No invariant on the length of the queues or the number
of drops is needed. `ParkedTurnCanBeRetried` exempts a defect and a report that could not be written
at all (`Whole`). A park counts as a defect when it is not paired with a failure that
is held until recorded.

`ExecutingWorkersAreKept` needs `HInv`, which speaks of the time before the first drop. Both
ends are connected; the first message of a worker is its hello (`Greeting`); a start that is
accepted was received, and was sent only to a worker that had left its bootstrap
(`Bootstrapped`); and a worker that reports anything but idle is `Heard`: its lease is out of
use, or is busy with no report in flight, or the last report in flight says that it is not
idle. Without `Greeting` and `Bootstrapped` a report could reach a lease that ignores it, and
`Heard` would break there. A drop ends all this: the last report may be lost with its
connection and is not repeated (section 4).

`WorkerLinkProofs`. `Ends` relates both ends of each socket to the worker's and the server's
choice of one; `Upward` and `Downward` say that what was received, is in flight and is
buffered, in this order, increases and stays below what was sent; `Knowledge` says who can
have been told "unknown", the one final close code that a wanted worker must not see.

`FutureExecutionProofs`. Its main part is the FIFO locks (`Locks`: a task is once in the
queue of each lock it wants, and one that went on holds its locks), for any number of
tasks. On it rest `Schedule` (at most one scheduled action, none after an abort, and no
ordinary action beside it), `FenceOK` (what a request found under the lock of the process
still holds when it commits) and `HistoryOK` (the occurrences that were committed lie before
the one the row has). `Fifo` says that an occurrence that is executed before a request for
its row was due when the request was made, so that a revision never brings back an
occurrence that ran.

`WorkerRequestsProofs`. `KeyInv` speaks of each call: a request is open only while its
record runs, a waiter waits for an open request, a reviewed write that was cleared holds
its approval, and what is about to be written was looked for and not found.
`AbortFollowsDecline` ties an abort under way to the decline it follows.

`ComponentProofs` has a part for each of three components that share nothing.

`WorkerUnits`. `UnitsIInv` has the types, `FreshUnits` (a unit not yet spawned is known to
nobody), `Removals` (a removal under way is tried, or waits in the backlog of a running
loop), `Debts` (how many attempts to remove a unit can still come, which bounds them),
`Attachment` (the exits that are watched are those of the attached worker) and `Order`
(without mishap a unit that runs is attached, being removed or still to be adopted, and
is the only one). `HandleOutlivesUnit` speaks of runs without a mishap: after a retry that
was served before the listing, or an adoption that broke, an exit listener may take
another unit's handle.

`GatedTurns`. `Ledger(starts, runs)` is about the two histories alone: at most one run is
active, a start of a mapped turn names an item of a run of that turn, and each item
before a run's next one was collected by exactly one attempt, the others by none
(`Once`). What an operation does to the two sequences is a lemma each. `GatedIInv` ties the
ledger to the process: `WaitInPlace` (a process that waits does so for its selected turn and
executes nothing), `StartInPlace` (an open attempt is of the selected turn, its item the
current one of an active run, or its run was interrupted), `RunInPlace` (an active run is
of the selected turn) and `Held` (the same of the start that a wait holds). Without `Held`
the resolution of a wait could start an item that was collected already.
`ChecksStartNothingElse` follows from the same invariant, operation by operation.

`ModelBlocks`. `BlocksAgreeWithCache` speaks of quiet states, which says nothing of a step.
What is inductive is `Owed`: as long as no row threw, a row not in `dated` that is blocked although its
model is available (`Stuck`) is still to be visited by an application, or is under an
evaluation that can still free it. `Works` is what makes it last: an application whose
revision is the cache's has the cache's statuses in its snapshot (`Informed`), so that an
evaluation that is not overtaken decides rightly; a refresh that brings a model back
advances the revision and begins an application with every row of that model. With a
single model an overtaken evaluation was overtaken by its own model, whose rows the newer
application owes (`Doomed`); with several it may be another's, and the row then stays
blocked, which is why `Lifted` exempts it. `Revisions` bounds the revision by the changes and
lapses spent: the revision lags behind the providers by what `Lag` counts.

Only model-checked. Liveness under fairness, and with it `ENABLED`, is beyond the proof
system: `QueuedIsAdmitted`, `EverythingSettles`, `RemovalsComplete`, `LinkHeals`,
`ScheduleProgresses`, `CallsAreAnswered`, `ReadyTurnStarts` and `ReturnedModelIsUsed` stay with
TLC. Every invariant and every action property of the passing runs is a theorem.

## 6. Plan

Done: the modules above, their runs, the refinement of `TurnLedger`, the theorems of
section 5. Left, in order:

1. The durable input queue of the server (`process-input-dispatch.ts`), composed with
   `WorkerRuntime`, and launch runs with their replay (`launch-coordinator.ts`).
2. `External sources` and the watcher utilities, for overlapping polls.

## 7. Not modelled

* External sources and watcher utilities: integration services that poll trackers; what
  they do to a process is the observations and actions of `ProcessEngine`.
* Session transfer: import and export of archives, file and database I/O without
  concurrent actors of its own.
* Worker runners and the choice of a runner: calls to Docker, Kubernetes or the
  operating system; `WorkerUnits` has what their units do. Local child processes end
  with their exit and need no removal.
* The idle-stop timer: in `WorkerAdmission` a worker may exit at any time.
* The process SDK (`flow`, `defineProcess`): builders that turn a definition into the
  turn graph, which is a constant of the models.
* User interface, HTTP contracts, the Telegram bridge and the other integrations:
  presentation, data formats and foreign services.
* Launch runs, traces, progress reports, usage accounting, archives, titles and
  previews: data that no modelled decision reads.
