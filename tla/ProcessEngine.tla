---------------------------- MODULE ProcessEngine ----------------------------
(***************************************************************************)
(* The durable state machine of one process instance.                      *)
(*                                                                         *)
(* Every operation of process-engine/ops loads the process, decides and    *)
(* commits one transaction under the process lock (runner.ts), so an       *)
(* operation is one action.  Worker reports are accepted by the IPC        *)
(* handler while their lease is active and then wait for the lock, in      *)
(* FIFO order, in inbox; operator commands, retries and observations may   *)
(* take the lock between any two of them.  Leases come and go with the     *)
(* physical workers; a server crash loses the inbox and every worker.      *)
(*                                                                         *)
(* A worker start s reserves the turn record of the same number: starts[s] *)
(* is the TurnStartRecord, status[s] and attempt[s] the ProcessTurnRecord  *)
(* that acceptance creates.  waitFor gates and mapped (forEach) turns are  *)
(* left out.  How reactions become workers is module WorkerAdmission; here *)
(* a lease may open at any time after its start, and drain at any time.    *)
(***************************************************************************)
EXTENDS Naturals, Sequences

CONSTANTS
    Turns,      \* turns of the process graph
    Kind,       \* turn type: "llm", "automatic" or "human"
    Entry,      \* entry turn
    Edges,      \* transitions of outcomes and of turn-scoped actions
    Overrides,  \* transitions of process-level actions
    Done,       \* target of a transition that completes the process
    None,       \* no selected turn
    MaxStarts,  \* bound: worker starts
    MaxLeases,  \* bound: worker leases
    MaxInbox,   \* bound: reports waiting for the process lock
    MaxCrashes, \* bound: server crashes
    LateParks,  \* TRUE: worker.lifecycle_parked is a report of its own
    InputsSpawn \* TRUE: queued inputs may find an active process without a worker

MAX_STARTUP_STARTS == 3

Targets == Turns \cup {Done}

ASSUME GraphAssumption ==
    /\ Kind \in [Turns -> {"llm", "automatic", "human"}]
    /\ Entry \in Turns
    /\ Edges \subseteq Turns \X Targets
    /\ Overrides \subseteq Turns \X Targets
    /\ Done \notin Turns /\ None \notin Turns /\ Done # None
ASSUME BoundAssumption ==
    /\ MaxStarts \in Nat /\ MaxLeases \in Nat /\ MaxInbox \in Nat /\ MaxCrashes \in Nat
    /\ LateParks \in BOOLEAN /\ InputsSpawn \in BOOLEAN

VARIABLES
    life,     \* lifecycleStatus
    sel,      \* selectedTurnId
    cur,      \* currentExecution: the worker start, 0 for null
    made,     \* worker starts created
    starts,   \* TurnStartRecords
    status,   \* status of the turn record a start reserved
    attempt,  \* its attemptNumber
    opened,   \* worker leases created
    leases,   \* worker leases, with what their worker was sent and reported
    inbox,    \* worker reports waiting for the process lock
    resuming, \* boot reconciliation still has to spawn this process's worker
    crashes

engine == <<life, sel, cur, made, starts, status, attempt>>
vars == <<engine, opened, leases, inbox, resuming, crashes>>

StartIds == 1..MaxStarts
LeaseIds == 1..MaxLeases
Lives == {"discovered", "active", "waiting", "error", "completed", "aborted"}
StartStates == {"none", "preparation_failed", "starting", "bootstrap_failed",
                "accepted", "superseded"}
Start == [turn : Turns, state : StartStates, parent : 0..MaxStarts,
          owner : 0..MaxLeases, tries : 1..MAX_STARTUP_STARTS]
Statuses == {"none", "running", "succeeded", "failed", "superseded"}
Lease == [start : 0..MaxStarts, state : {"none", "live", "failed", "draining", "exited"},
          sent : 0..MaxStarts, receipt : 0..MaxStarts,
          verdict : {"none", "outcome", "failed"}]
\* Only a failure names its lease alone.
Report == [kind : {"accept", "outcome", "failed", "failure", "park"},
           lease : LeaseIds, start : StartIds]
          \cup [kind : {"failure"}, lease : LeaseIds, start : {0}]

TypeOK ==
    /\ life \in Lives
    /\ sel \in Turns \cup {None}
    /\ cur \in 0..MaxStarts
    /\ made \in 0..MaxStarts
    /\ starts \in [StartIds -> Start]
    /\ status \in [StartIds -> Statuses]
    /\ attempt \in [StartIds -> Nat]
    /\ opened \in 0..MaxLeases
    /\ leases \in [LeaseIds -> Lease]
    /\ inbox \in Seq(Report)
    /\ resuming \in BOOLEAN
    /\ crashes \in 0..MaxCrashes

Init ==
    /\ life = "discovered"
    /\ sel = None
    /\ cur = 0
    /\ made = 0
    /\ starts = [s \in StartIds |-> [turn |-> Entry, state |-> "none", parent |-> 0,
                                     owner |-> 0, tries |-> 1]]
    /\ status = [s \in StartIds |-> "none"]
    /\ attempt = [s \in StartIds |-> 0]
    /\ opened = 0
    /\ leases = [l \in LeaseIds |-> [start |-> 0, state |-> "none", sent |-> 0,
                                     receipt |-> 0, verdict |-> "none"]]
    /\ inbox = <<>>
    /\ resuming = FALSE
    /\ crashes = 0

-----------------------------------------------------------------------------
(* What the decisions read *)

CurrentIs(state) == cur # 0 /\ starts[cur].state = state

CurrentRuns == CurrentIs("accepted") /\ status[cur] = "running"

\* The lease repository's getByInstance: exitedAt is null.
Active(l) == leases[l].state \in {"live", "failed", "draining"}

RequiresWorker == sel # None /\ life = "active" /\ Kind[sel] # "human"

canAbort == life \notin {"completed", "aborted"}

-----------------------------------------------------------------------------
(* What the decisions write *)

\* prepareCreatedTurnStarts: an LLM start that cannot be prepared is committed
\* as failed and parks the process; an automatic one needs no preparation.
Preflight(t) ==
    {"starting"} \cup (IF Kind[t] = "automatic" THEN {} ELSE {"preparation_failed"})

\* reserveSelectedTurnStart and the recovery builders.
Reserve(t, parent, tries) ==
    /\ made < MaxStarts
    /\ \E state \in Preflight(t) :
         /\ starts' = [starts EXCEPT ![made + 1] =
                         [turn |-> t, state |-> state, parent |-> parent, owner |-> 0,
                          tries |-> tries]]
         /\ life' = IF state = "starting" THEN "active" ELSE "error"
    /\ made' = made + 1
    /\ cur' = made + 1
    /\ sel' = t

\* buildTurnSelectionWrites.
Select(t) ==
    IF t \in Turns /\ Kind[t] # "human"
    THEN Reserve(t, 0, 1)
    ELSE /\ sel' = IF t = Done THEN None ELSE t
         /\ life' = IF t = Done THEN "completed" ELSE "waiting"
         /\ cur' = 0
         /\ UNCHANGED <<made, starts>>

\* Mutant: the running record is not fenced.
SupersedeOnlyStart ==
    /\ starts' = IF CurrentIs("starting")
                 THEN [starts EXCEPT ![cur].state = "superseded"] ELSE starts
    /\ status' = status

\* supersedeExecution: fences a start that is starting and a record that runs.
Supersede ==
    /\ starts' = IF CurrentIs("starting")
                 THEN [starts EXCEPT ![cur].state = "superseded"] ELSE starts
    /\ status' = IF CurrentRuns THEN [status EXCEPT ![cur] = "superseded"] ELSE status

\* Mutant: the current execution is not cleared.
EndKeepingCurrent(outcome) ==
    /\ Supersede
    /\ life' = outcome
    /\ sel' = None
    /\ UNCHANGED <<cur, made, attempt>>

\* The process ends: the current execution is fenced, nothing stays selected.
End(outcome) ==
    /\ Supersede
    /\ life' = outcome
    /\ sel' = None
    /\ cur' = 0
    /\ UNCHANGED <<made, attempt>>

-----------------------------------------------------------------------------
(* Operations of operators, schedules, extensions and integrations *)

Physical == <<opened, leases, inbox, resuming, crashes>>

StartProcess ==
    /\ life = "discovered" /\ sel = None
    /\ Select(Entry)
    /\ UNCHANGED <<status, attempt, Physical>>

\* A turn-scoped action of the selected human turn; its own record is written
\* succeeded and never read again.
HumanAction ==
    /\ sel # None /\ Kind[sel] = "human"
    /\ \E t \in Targets : <<sel, t>> \in Edges /\ Select(t)
    /\ UNCHANGED <<status, attempt, Physical>>

\* A process-level action may leave a worker turn; it supersedes nothing.
ProcessAction ==
    /\ sel # None
    /\ \E t \in Targets : <<sel, t>> \in Overrides /\ Select(t)
    /\ UNCHANGED <<status, attempt, Physical>>

AbortProcess ==
    /\ canAbort
    /\ End("aborted")
    /\ UNCHANGED Physical

\* ProcessObservation with a lifecycle status.
ObservationEnds ==
    /\ life \notin {"completed", "aborted"}
    /\ \E outcome \in {"completed", "aborted"} : End(outcome)
    /\ UNCHANGED Physical

StartupFailed == life = "error" /\ (CurrentIs("preparation_failed") \/ CurrentIs("bootstrap_failed"))

\* Mutant: a failed start is recovered as if it had been a failed attempt.
RetryStartupAsTurn ==
    /\ StartupFailed
    /\ Reserve(starts[cur].turn, cur, 1)
    /\ UNCHANGED <<status, attempt, Physical>>

\* An operator's retry opens a new episode of automatic retries.
RetryStartup ==
    /\ StartupFailed
    /\ Reserve(starts[cur].turn, starts[cur].parent, 1)
    /\ UNCHANGED <<status, attempt, Physical>>

\* Mutant: the episode is not bounded.
AutomaticRetryUnbounded ==
    /\ StartupFailed
    /\ Reserve(starts[cur].turn, starts[cur].parent, starts[cur].tries + 1)
    /\ UNCHANGED <<status, attempt, Physical>>

\* automaticStartupRecovery: bounded per episode.
AutomaticRetryStartup ==
    /\ StartupFailed
    /\ starts[cur].tries < MAX_STARTUP_STARTS
    /\ Reserve(starts[cur].turn, starts[cur].parent, starts[cur].tries + 1)
    /\ UNCHANGED <<status, attempt, Physical>>

\* buildRecoveryStartWrites: the new start recovers the failed record.
RecoverFailedTurn ==
    /\ life = "error" /\ CurrentIs("accepted") /\ status[cur] = "failed"
    /\ Reserve(starts[cur].turn, cur, 1)
    /\ UNCHANGED <<status, attempt, Physical>>

RetryFailedTurn == RecoverFailedTurn

\* Only a failed LLM turn can be continued.
ContinueFailedTurn == cur # 0 /\ Kind[starts[cur].turn] = "llm" /\ RecoverFailedTurn

-----------------------------------------------------------------------------
(* Worker reports, in the order the process lock takes them *)

\* buildTurnFailedWrites: the record fails, the process parks on its turn.
Fail(s) ==
    /\ status' = [status EXCEPT ![s] = "failed"]
    /\ sel' = starts[s].turn
    /\ life' = "error"

AcceptWorkerTurnStart ==
    /\ inbox # <<>> /\ Head(inbox).kind = "accept"
    /\ LET s == Head(inbox).start
           l == Head(inbox).lease IN
       IF /\ life = "active" /\ cur = s
          /\ starts[s].turn = sel
          /\ Active(l) /\ leases[l].receipt = s
          /\ starts[s].state = "starting"
       THEN /\ starts' = [starts EXCEPT ![s].state = "accepted", ![s].owner = l]
            /\ status' = [status EXCEPT ![s] = "running"]
            /\ attempt' = [attempt EXCEPT ![s] =
                 1 + (IF starts[s].parent = 0 THEN 0 ELSE attempt[starts[s].parent])]
       ELSE UNCHANGED <<starts, status, attempt>>
    /\ inbox' = Tail(inbox)
    /\ UNCHANGED <<life, sel, cur, made, opened, leases, resuming, crashes>>

\* recoverRecordingFailure: a terminal fact that could not be recorded becomes
\* a worker failure of the lease that reported it, unless it was recorded.
Recover(r, recorded) ==
    IF status[r.start] = recorded THEN Tail(inbox)
    ELSE Append(Tail(inbox), [r EXCEPT !.kind = "failure"])

\* Mutant: the terminal fact is matched by the turn, not by the attempt.
CorrelatedByTurn(r) == cur # 0 /\ starts[r.start].turn = sel

\* The reported record is the one of the accepted current start.
Correlated(r) == CurrentIs("accepted") /\ cur = r.start

\* TurnOutcome, for the record of the accepted current start; planning may
\* still reject it.  There is no check of the record's status: the outcome of
\* a turn already failed by somebody else is recorded, and revives the process.
TurnOutcome ==
    /\ inbox # <<>> /\ Head(inbox).kind = "outcome"
    /\ LET r == Head(inbox) IN
       \/ /\ Correlated(r)
          /\ \E t \in Targets : <<starts[cur].turn, t>> \in Edges /\ Select(t)
          /\ status' = [status EXCEPT ![r.start] = "succeeded"]
          /\ inbox' = Tail(inbox)
       \/ /\ inbox' = Recover(r, "succeeded")
          /\ UNCHANGED <<life, sel, cur, made, starts, status>>
    /\ UNCHANGED <<attempt, opened, leases, resuming, crashes>>

TurnFailed ==
    /\ inbox # <<>> /\ Head(inbox).kind = "failed"
    /\ LET r == Head(inbox) IN
       IF Correlated(r)
       THEN Fail(cur) /\ inbox' = Tail(inbox)
       ELSE inbox' = Recover(r, "failed") /\ UNCHANGED <<life, sel, status>>
    /\ UNCHANGED <<cur, made, starts, attempt, opened, leases, resuming, crashes>>

StaleNever(l) == cur = 0  \* mutant: the failing lease is not compared

\* The lease that failed was not opened for the current start.
Stale(l) == cur = 0 \/ leases[l].start # cur

\* WorkerFailure: a start that was starting failed to boot, a running record
\* fails; anything else parks a process that still wants a worker.
WorkerFailure ==
    /\ inbox # <<>> /\ Head(inbox).kind = "failure"
    /\ \/ /\ Stale(Head(inbox).lease)
          /\ UNCHANGED <<life, sel, starts, status>>
       \/ /\ ~Stale(Head(inbox).lease) /\ CurrentIs("starting")
          /\ IF life = "active"
             THEN /\ starts' = [starts EXCEPT ![cur].state = "bootstrap_failed"]
                  /\ life' = "error"
             ELSE UNCHANGED <<starts, life>>
          /\ UNCHANGED <<sel, status>>
       \/ /\ ~Stale(Head(inbox).lease) /\ CurrentRuns
          /\ Fail(cur)
          /\ UNCHANGED starts
       \/ /\ ~Stale(Head(inbox).lease) /\ ~CurrentIs("starting") /\ ~CurrentRuns
          /\ life' = IF RequiresWorker THEN "error" ELSE life
          /\ UNCHANGED <<sel, starts, status>>
    /\ inbox' = Tail(inbox)
    /\ UNCHANGED <<cur, made, attempt, opened, leases, resuming, crashes>>

\* ParkProcess: correlated by the selected turn only, in any lifecycle.
ParkProcess ==
    /\ inbox # <<>> /\ Head(inbox).kind = "park"
    /\ life' = IF starts[Head(inbox).start].turn = sel THEN "error" ELSE life
    /\ inbox' = Tail(inbox)
    /\ UNCHANGED <<sel, cur, made, starts, status, attempt, opened, leases, resuming, crashes>>

-----------------------------------------------------------------------------
(* Leases and what their workers report *)

\* Room for one more report: MaxInbox bounds the model, not the code.
Room == Len(inbox) < MaxInbox

Enqueue(k, l, s) == inbox' = Append(inbox, [kind |-> k, lease |-> l, start |-> s])

\* spawnWorkerNow: the lease is opened for the current start, by the reaction
\* that follows its commit, by boot reconciliation or by dispatched inputs.
SpawnLease ==
    /\ opened < MaxLeases
    /\ life = "active" /\ cur # 0
    /\ \A l \in LeaseIds : ~Active(l)
    /\ \/ \A l \in LeaseIds : leases[l].start # cur
       \/ resuming \/ InputsSpawn
    /\ opened' = opened + 1
    /\ leases' = [leases EXCEPT ![opened + 1].start = cur, ![opened + 1].state = "live"]
    /\ resuming' = FALSE
    /\ UNCHANGED <<engine, inbox, crashes>>

\* worker.hello: buildStartMessage sends the start that is current now, if it
\* is starting, or accepted with a running record (a resumed turn).
Hello(l) ==
    /\ leases[l].state = "live" /\ leases[l].sent = 0
    /\ CurrentIs("starting") \/ CurrentRuns
    /\ leases' = [leases EXCEPT ![l].sent = cur]
    /\ UNCHANGED <<engine, opened, inbox, resuming, crashes>>

\* worker.ready: the receipt is stored if it names the current start.
Ready(l) ==
    /\ Active(l) /\ leases[l].sent # 0
    /\ leases[l].receipt = 0 /\ leases[l].sent = cur
    /\ leases' = [leases EXCEPT ![l].receipt = cur]
    /\ UNCHANGED <<engine, opened, inbox, resuming, crashes>>

\* worker.turn_started, repeated until acknowledged.
TurnStarted(l) ==
    /\ Active(l) /\ leases[l].sent # 0 /\ Room
    /\ starts[leases[l].sent].state = "accepted" => starts[leases[l].sent].owner = l
    /\ Enqueue("accept", l, leases[l].sent)
    /\ UNCHANGED <<engine, opened, leases, resuming, crashes>>

\* worker.turn_outcome or worker.turn_failed, repeated until acknowledged; what
\* is recorded already is acknowledged at once.
Terminal(l, verdict) ==
    /\ Active(l) /\ leases[l].sent # 0 /\ Room
    /\ starts[leases[l].sent].state = "accepted"
    /\ leases[l].verdict \in {"none", verdict}
    /\ status[leases[l].sent] # (IF verdict = "outcome" THEN "succeeded" ELSE "failed")
    /\ leases' = [leases EXCEPT ![l].verdict = verdict]
    /\ Enqueue(verdict, l, leases[l].sent)
    /\ UNCHANGED <<engine, opened, resuming, crashes>>

\* worker.lifecycle_parked follows worker.turn_failed and every repetition of it.
LifecycleParked(l) ==
    /\ LateParks /\ Active(l) /\ leases[l].sent # 0 /\ Room
    /\ leases[l].verdict = "failed"
    /\ Enqueue("park", l, leases[l].sent)
    /\ UNCHANGED <<engine, opened, leases, resuming, crashes>>

\* worker.failed, or a failure the supervisor observes.
FailLease(l) ==
    /\ leases[l].state \in {"live", "draining"} /\ Room
    /\ leases' = [leases EXCEPT ![l].state = "failed"]
    /\ Enqueue("failure", l, 0)
    /\ UNCHANGED <<engine, opened, resuming, crashes>>

\* stopWorker, after the engine left the start the lease was opened for (or by
\* the idle limit), or a connected runtime that was told to terminate.
Drain(l) ==
    /\ leases[l].state = "live"
    /\ \/ life # "active" \/ leases[l].start # cur
       \/ leases[l].sent # 0
    /\ leases' = [leases EXCEPT ![l].state = "draining"]
    /\ UNCHANGED <<engine, opened, inbox, resuming, crashes>>

\* The worker that is leaving was accepted for the turn that still runs.
OwnsRunningTurn(l) == life = "active" /\ CurrentRuns /\ starts[cur].owner = l

\* handleProcessExit.
Exit(l) ==
    /\ Active(l)
    /\ IF leases[l].state = "live" \/ (leases[l].state = "draining" /\ OwnsRunningTurn(l))
       THEN Room /\ Enqueue("failure", l, 0)
       ELSE UNCHANGED inbox
    /\ leases' = [leases EXCEPT ![l].state = "exited"]
    /\ UNCHANGED <<engine, opened, resuming, crashes>>

\* The server dies and boots: queued reports are lost, persisted leases are
\* reclaimed, and an active process with a usable start is resumed.
Crash ==
    /\ crashes < MaxCrashes
    /\ crashes' = crashes + 1
    /\ inbox' = <<>>
    /\ leases' = [l \in LeaseIds |->
                    IF Active(l) THEN [leases[l] EXCEPT !.state = "exited"] ELSE leases[l]]
    /\ resuming' = (life = "active" /\ (CurrentIs("starting") \/ CurrentRuns))
    /\ UNCHANGED <<engine, opened>>

-----------------------------------------------------------------------------
Command ==
    \/ StartProcess \/ HumanAction \/ ProcessAction \/ AbortProcess \/ ObservationEnds
    \/ RetryStartup \/ AutomaticRetryStartup
    \/ RetryFailedTurn \/ ContinueFailedTurn

Record ==
    AcceptWorkerTurnStart \/ TurnOutcome \/ TurnFailed \/ WorkerFailure \/ ParkProcess

Work(l) ==
    \/ Hello(l) \/ Ready(l) \/ TurnStarted(l)
    \/ \E verdict \in {"outcome", "failed"} : Terminal(l, verdict)
    \/ LifecycleParked(l) \/ FailLease(l) \/ Drain(l) \/ Exit(l)

Next == Command \/ Record \/ SpawnLease \/ (\E l \in LeaseIds : Work(l)) \/ Crash

Spec == Init /\ [][Next]_vars

-----------------------------------------------------------------------------
(* Properties *)

\* The current execution is the start of the selected turn, the process is
\* active or in error while it has one, and only the current start can be
\* waiting for a worker or own a running record.
CurrentExecutionIsAnchored ==
    /\ cur # 0 => sel = starts[cur].turn /\ life \in {"active", "error"}
    /\ \A s \in StartIds :
         starts[s].state = "starting" \/ status[s] = "running" => s = cur

\* An active process has a start that waits for a worker or runs; a process in
\* error has one that retryProcess can recover: a failed start or an accepted
\* start with a failed record.
ErrorIsRecoverable ==
    /\ life = "active" => CurrentIs("starting") \/ CurrentRuns
    /\ life = "error" =>
         StartupFailed \/ (CurrentIs("accepted") /\ status[cur] = "failed")

\* Acceptance creates one attempt: a record exists exactly for an accepted
\* start, and recovery counts from the failed record it recovers, which stays
\* failed although a late outcome may revive a failed turn.
AttemptsFollowFailures ==
    \A s \in StartIds :
        /\ (status[s] # "none") = (starts[s].state = "accepted")
        /\ LET p == starts[s].parent IN
             /\ p # 0 => /\ p < s /\ status[p] = "failed"
                         /\ starts[p].turn = starts[s].turn
             /\ status[s] # "none" =>
                  attempt[s] = 1 + (IF p = 0 THEN 0 ELSE attempt[p])

\* A running turn is never abandoned: its worker is there, its failure is
\* queued, or boot reconciliation will resume it.
RunningTurnHasWorker ==
    CurrentRuns /\ life = "active" =>
        \/ \E l \in LeaseIds : /\ leases[l].state \in {"live", "draining"}
                               /\ leases[l].sent = cur \/ (leases[l].sent = 0 /\ leases[l].start = cur)
        \/ \E i \in 1..Len(inbox) :
              /\ inbox[i].kind \in {"failure", "outcome", "failed"}
              /\ leases[inbox[i].lease].start = cur
        \/ resuming

Given(l, s) == s # 0 /\ s \in {leases[l].start, leases[l].sent}

HandlesReport == inbox # <<>> /\ inbox' = Tail(inbox) /\ engine' # engine

\* A worker's report moves the process only while the current start is the one
\* that worker was opened for or was sent.  A replaced worker is harmless.
LateReportsIgnored ==
    [][HandlesReport => Given(Head(inbox).lease, cur)]_vars

\* Terminal facts are final: a succeeded or superseded record never changes, a
\* failed one only while its start is still current, and no start leaves a
\* terminal state.
TerminalFactsAreFinal ==
    [][\A s \in StartIds :
         /\ status[s] \in {"succeeded", "superseded"} => status'[s] = status[s]
         /\ status[s] = "failed" /\ status'[s] # "failed" => s = cur
         /\ starts[s].state \notin {"none", "starting"} => starts'[s] = starts[s]]_vars

\* Completed and aborted processes stay so, whatever workers still report.
EndedStaysEnded ==
    [][~canAbort => engine' = engine]_vars
=============================================================================
