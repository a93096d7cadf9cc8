-------------------------- MODULE FutureExecution --------------------------
(***************************************************************************)
(* Scheduled launches and scheduled actions: the rows of                   *)
(* future_executions, the scheduler that runs them when they are due, the  *)
(* requests that schedule, revise, cancel and run them now, and the        *)
(* process operations that take a row away (abort) or are kept out by it   *)
(* (an ordinary action).  Two FIFO locks order them: one per row, one for  *)
(* the process; an operation that needs both takes the row's first.        *)
(*                                                                         *)
(* Time is a small counter.  A cron row recurs every Period; what a model  *)
(* evaluation answers is a free choice here (ModelBlocks is about it).     *)
(***************************************************************************)
EXTENDS Integers, Sequences, FiniteSets

CONSTANTS
    Launches,       \* ids a scheduled launch may get
    Acts,           \* ids a scheduled action of the process may get
    Users,          \* concurrent requests
    MaxTime,        \* bound on the clock
    Period,         \* distance of two occurrences of a cron row
    Delay,          \* ONE_TIME_FAILURE_RETRY_DELAY_MS
    MaxRequests,    \* bound on the requests users make
    MaxFailures,    \* bound on transient execution failures
    MaxRestarts,    \* bound on server restarts
    Blocks          \* whether models may be unavailable

ASSUME FutureAssumption ==
    /\ Launches \cap Acts = {} /\ "process" \notin Launches \cup Acts
    /\ {MaxTime, MaxRequests, MaxFailures, MaxRestarts} \subseteq Nat
    /\ {Period, Delay} \subseteq Nat \ {0}
    /\ Blocks \in BOOLEAN
    /\ "tick" \notin Users

VARIABLES
    now,        \* the clock
    rows,       \* the table: row id -> row
    used,       \* ids given out so far
    status,     \* the process: open, finished or aborted
    queue,      \* runExclusive: key -> tasks in arrival order, the holder first
    task,       \* what the scheduler and each request are doing
    runs,       \* history: row id -> the occurrences whose work was committed
    intruded,   \* history: an ordinary action ran beside a scheduled one
    budget      \* what is left of the bounds
vars == <<now, rows, used, status, queue, task, runs, intruded, budget>>

Ids   == Launches \cup Acts
Keys  == Ids \cup {"process"}
Tasks == Users \cup {"tick"}
Times == 0 .. (MaxTime + Period + Delay)
Row   == [cron : BOOLEAN, next : Times, blocked : BOOLEAN]

\* nextCronOccurrenceUtc: the first occurrence strictly after t.
CronAfter(t) == (t \div Period + 1) * Period

Scheduled == DOMAIN rows \cap Acts
Without(id) == [i \in DOMAIN rows \ {id} |-> rows[i]]
With(id, row) == [i \in DOMAIN rows \cup {id} |-> IF i = id THEN row ELSE rows[i]]
Evaluations == IF Blocks THEN BOOLEAN ELSE {FALSE}

Idle == [op |-> "idle", id |-> "none", seen |-> 0, todo |-> {}, stage |-> "idle", asOf |-> 0]
Boot == [Idle EXCEPT !.stage = "boot"]

Init ==
    /\ now = 0
    /\ rows = <<>>
    /\ used = {}
    /\ status = "open"
    /\ queue = [k \in Keys |-> <<>>]
    /\ task = [t \in Tasks |-> IF t = "tick" THEN Boot ELSE Idle]
    /\ runs = [id \in Ids |-> <<>>]
    /\ intruded = FALSE
    /\ budget = [requests |-> MaxRequests, failures |-> MaxFailures, restarts |-> MaxRestarts]

(***************************************************************************)
(* The locks.  Holds(t, k) is having reached the head of k's queue.        *)
(***************************************************************************)
Holds(t, k) == queue[k] # <<>> /\ Head(queue[k]) = t
Enter(t, k) == queue' = [queue EXCEPT ![k] = Append(@, t)]
Leave(ks) == queue' = [k \in Keys |-> IF k \in ks THEN Tail(queue[k]) ELSE queue[k]]
Go(t, op) == task' = [task EXCEPT ![t].op = op]

\* The end of one item: the scheduler goes on with its list, a request is over.
Ends(t) == task' = [task EXCEPT ![t] = IF t = "tick" THEN [@ EXCEPT !.op = "idle", !.id = "none", !.seen = 0]
                                                     ELSE Idle]
Finish(t, ks) == Leave(ks) /\ Ends(t)

(***************************************************************************)
(* applyFutureExecutionTransitionPlan: a plan made for the occurrence      *)
(* `seen` of a row applies only while the row still has that occurrence.   *)
(***************************************************************************)
Current(id, seen) == id \in DOMAIN rows /\ rows[id].next = seen
Consumed(id, seen) == IF Current(id, seen) THEN Without(id) ELSE rows
Moved(id, seen, next) == IF Current(id, seen) THEN [rows EXCEPT ![id].next = next] ELSE rows

(***************************************************************************)
(* The scheduler: at boot the cron occurrences missed while the server was *)
(* down are skipped; then, tick after tick, blocked cron rows are advanced *)
(* and the runnable due rows are executed, one at a time.                  *)
(***************************************************************************)
Due(asOf) == {id \in DOMAIN rows : rows[id].next <= asOf}
Missed(asOf) == {id \in Due(asOf) : rows[id].cron /\ (rows[id].blocked \/ rows[id].next < asOf)}
BlockedCronDue(asOf) == {id \in Due(asOf) : rows[id].cron /\ rows[id].blocked}
RunnableDueLate(asOf) == {id \in Due(asOf) : ~rows[id].blocked /\ rows[id].next < asOf}
RunnableDue(asOf) == {id \in Due(asOf) : ~rows[id].blocked}

TickSets(stage, asOf, todo) ==
    task' = [task EXCEPT !["tick"] = [Idle EXCEPT !.stage = stage, !.asOf = asOf, !.todo = todo]]

\* start() and tick(): a list is read when the stage before it is done.
TickStage ==
    LET me == task["tick"] IN
    /\ me.op = "idle" /\ me.todo = {}
    /\ \/ me.stage = "boot" /\ TickSets("missed", now, Missed(now))
       \/ me.stage = "missed" /\ TickSets("blocked", now, BlockedCronDue(now))
       \/ me.stage = "idle" /\ Due(now) # {} /\ TickSets("blocked", now, BlockedCronDue(now))
       \/ me.stage = "blocked" /\ TickSets("runnable", me.asOf, RunnableDue(me.asOf))
       \/ me.stage = "runnable" /\ TickSets("idle", 0, {})
    /\ UNCHANGED <<now, rows, used, status, queue, runs, intruded, budget>>

\* The next item of the list.  A blocked cron row is looked at once more
\* before its lock is asked for.
TickItem(id) ==
    LET me == task["tick"] IN
    /\ me.op = "idle" /\ id \in me.todo
    /\ IF me.stage = "blocked" /\ id \notin BlockedCronDue(me.asOf)
         THEN UNCHANGED queue /\ task' = [task EXCEPT !["tick"].todo = @ \ {id}]
         ELSE /\ Enter("tick", id)
              /\ task' = [task EXCEPT !["tick"].todo = @ \ {id}, !["tick"].id = id,
                            !["tick"].op = IF me.stage = "runnable" THEN "execute" ELSE "advance"]
    /\ UNCHANGED <<now, rows, used, status, runs, intruded, budget>>

\* advanceCronRows, under the row's lock; that the row is still blocked is
\* not asked again.
AdvanceCron ==
    LET me == task["tick"] IN
    /\ me.op = "advance" /\ Holds("tick", me.id)
    /\ rows' = IF me.id \in Due(me.asOf) /\ rows[me.id].cron
                 THEN Moved(me.id, rows[me.id].next, CronAfter(me.asOf)) ELSE rows
    /\ Finish("tick", {me.id})
    /\ UNCHANGED <<now, used, status, runs, intruded, budget>>

\* executeDueItem up to the execution: the row is read under its lock, and a
\* model that is not available blocks it.
ExecuteDue ==
    LET me == task["tick"] IN
    /\ me.op = "execute" /\ Holds("tick", me.id)
    /\ IF me.id \notin RunnableDue(me.asOf)
         THEN Finish("tick", {me.id}) /\ UNCHANGED rows
         ELSE \E blocked \in Evaluations :
              IF blocked
                THEN /\ rows' = [rows EXCEPT ![me.id].blocked = TRUE,
                                   ![me.id].next = IF rows[me.id].cron THEN CronAfter(me.asOf) ELSE @]
                     /\ Finish("tick", {me.id})
                ELSE /\ task' = [task EXCEPT !["tick"].seen = rows[me.id].next,
                                   !["tick"].op = IF me.id \in Acts THEN "act" ELSE "launch"]
                     /\ IF me.id \in Acts THEN Enter("tick", "process") ELSE UNCHANGED queue
                     /\ UNCHANGED rows
    /\ UNCHANGED <<now, used, status, runs, intruded, budget>>

\* The disposition of an execution that failed for now: a cron row goes on
\* from the time of the tick, another row is tried again after the delay.
RetryLater(id, seen, asOf) ==
    Moved(id, seen, IF Current(id, seen) /\ rows[id].cron THEN CronAfter(asOf) ELSE asOf + Delay)

(***************************************************************************)
(* Executing a launch: the process, the launch run and the row's next      *)
(* state are one transaction, which fails when the row has changed.        *)
(***************************************************************************)
CommitLaunchOnly(id, seen, consumes) ==
    /\ Current(id, seen)
    /\ runs' = [runs EXCEPT ![id] = Append(@, [at |-> seen, last |-> consumes \/ ~rows[id].cron])]
    /\ UNCHANGED rows

CommitLaunch(id, seen, consumes) ==
    /\ Current(id, seen)
    /\ runs' = [runs EXCEPT ![id] = Append(@, [at |-> seen, last |-> consumes \/ ~rows[id].cron])]
    /\ rows' = IF rows[id].cron /\ ~consumes THEN Moved(id, seen, CronAfter(seen)) ELSE Consumed(id, seen)

LaunchCommits(t) ==
    /\ task[t].op = "launch"
    /\ CommitLaunch(task[t].id, task[t].seen, t # "tick")
    /\ Go(t, "launched")
    /\ UNCHANGED <<now, used, status, queue, intruded, budget>>

\* The pipeline's last update of the launch run succeeds, or throws: then the
\* scheduler is told of a failure although the launch is committed.
LaunchReported(t) ==
    LET me == task[t] IN
    /\ me.op = "launched"
    /\ \/ UNCHANGED <<rows, budget>>
       \/ /\ t = "tick" /\ budget.failures > 0
          /\ budget' = [budget EXCEPT !.failures = @ - 1]
          /\ rows' = RetryLater(me.id, me.seen, me.asOf)
    /\ Finish(t, {me.id})
    /\ UNCHANGED <<now, used, status, runs, intruded>>

\* Resolution, preparation or the commit fails before anything is written; a
\* payload that cannot be read removes the row.
LaunchFails(t) ==
    LET me == task[t] IN
    /\ me.op = "launch" /\ budget.failures > 0
    /\ budget' = [budget EXCEPT !.failures = @ - 1]
    /\ \/ t = "tick" /\ rows' \in {RetryLater(me.id, me.seen, me.asOf), Consumed(me.id, me.seen)}
       \/ t # "tick" /\ UNCHANGED rows
    /\ Finish(t, {me.id})
    /\ UNCHANGED <<now, used, status, runs, intruded>>

(***************************************************************************)
(* Executing an action, under the process lock: ExecuteAction decides, and *)
(* commits together with the consumption of the row it was scheduled by.   *)
(***************************************************************************)
\* evaluateScheduledActionLock refuses: the process has another scheduled
\* action, or the one to run is gone.  A process that has ended shows no action.
Refused(id) == id \notin Scheduled \/ status # "open"

ActionRefused(t) ==
    LET me == task[t] IN
    /\ me.op = "act" /\ Holds(t, "process")
    /\ Refused(me.id)
    /\ rows' = IF t = "tick" THEN Consumed(me.id, me.seen) ELSE rows
    /\ Finish(t, {me.id, "process"})
    /\ UNCHANGED <<now, used, status, runs, intruded, budget>>

ActionCommits(t) ==
    LET me == task[t] IN
    /\ me.op = "act" /\ Holds(t, "process")
    /\ ~Refused(me.id)
    /\ runs' = [runs EXCEPT ![me.id] = Append(@, [at |-> rows[me.id].next, last |-> TRUE])]
    /\ rows' = Without(me.id)
    /\ status' \in {"open", "finished"}
    /\ Finish(t, {me.id, "process"})
    /\ UNCHANGED <<now, used, intruded, budget>>

ActionFails(t) ==
    LET me == task[t] IN
    /\ me.op = "act" /\ Holds(t, "process") /\ budget.failures > 0
    /\ ~Refused(me.id)
    /\ budget' = [budget EXCEPT !.failures = @ - 1]
    /\ rows' = IF t = "tick" THEN RetryLater(me.id, me.seen, me.asOf) ELSE rows
    /\ Finish(t, {me.id, "process"})
    /\ UNCHANGED <<now, used, status, runs, intruded>>

(***************************************************************************)
(* Requests.  One that waits for a lock was validated when it was made;    *)
(* task.asOf keeps its operation time.                                     *)
(***************************************************************************)
Ask(u, op, id, key) ==
    /\ task[u].op = "idle" /\ budget.requests > 0
    /\ budget' = [budget EXCEPT !.requests = @ - 1]
    /\ task' = [task EXCEPT ![u] = [Idle EXCEPT !.op = op, !.id = id, !.asOf = now]]
    /\ Enter(u, key)
    /\ UNCHANGED <<now, rows, used, status, runs, intruded>>

AskProcess(u) == \E op \in {"schedule", "ui", "abort"} : Ask(u, op, "none", "process")
AskRow(u) == \E id \in used :
    \E op \in {"cancel", "now", "revise"} : Ask(u, op, id, id)

\* The rows a request for a schedule made at time t may ask for.
Wanted(id, t) ==
    {[cron |-> c, next |-> IF c THEN CronAfter(t) ELSE now + 1, blocked |-> b] :
        c \in IF id \in Launches THEN BOOLEAN ELSE {FALSE}, b \in Evaluations}

\* commitPreparedLaunch with a schedule: a new row, no lock.
CreateLaunch(u, id) ==
    /\ task[u].op = "idle" /\ budget.requests > 0 /\ now < MaxTime
    /\ id \in Launches \ used
    /\ budget' = [budget EXCEPT !.requests = @ - 1]
    /\ used' = used \cup {id}
    /\ \E row \in Wanted(id, now) : rows' = With(id, row)
    /\ UNCHANGED <<now, status, queue, task, runs, intruded>>

\* scheduleAction, under the process lock: refused beside another scheduled
\* action, then validated against the process, then created.
ScheduleAction(u) ==
    /\ task[u].op = "schedule" /\ Holds(u, "process")
    /\ IF Scheduled # {} \/ status # "open" \/ Acts \ used = {}
         THEN Finish(u, {"process"})
         ELSE Go(u, "create") /\ UNCHANGED queue
    /\ UNCHANGED <<now, rows, used, status, runs, intruded, budget>>

CreateAction(u) ==
    /\ task[u].op = "create"
    /\ \E id \in Acts \ used :
        /\ used' = used \cup {id}
        /\ \E b \in Evaluations :
            rows' = With(id, [cron |-> FALSE, next |-> task[u].asOf + 1, blocked |-> b])
    /\ Finish(u, {"process"})
    /\ UNCHANGED <<now, status, runs, intruded, budget>>

\* cancel, under the row's lock.
Cancel(u) ==
    LET me == task[u] IN
    /\ me.op = "cancel" /\ Holds(u, me.id)
    /\ rows' = Without(me.id)
    /\ Finish(u, {me.id})
    /\ UNCHANGED <<now, used, status, runs, intruded, budget>>

\* reviseScheduledLaunch and reviseScheduledAction to "now": the row is read
\* under its lock and executed as a due row would be.
RunNow(u) ==
    LET me == task[u] IN
    /\ me.op = "now" /\ Holds(u, me.id)
    /\ IF me.id \notin DOMAIN rows
         THEN Finish(u, {me.id})
         ELSE /\ task' = [task EXCEPT ![u].seen = rows[me.id].next,
                            ![u].op = IF me.id \in Acts THEN "act" ELSE "launch"]
              /\ IF me.id \in Acts THEN Enter(u, "process") ELSE UNCHANGED queue
    /\ UNCHANGED <<now, rows, used, status, runs, intruded, budget>>

\* reviseScheduledLaunch to another schedule; a launch needs no other lock.
ReviseLaunch(u) ==
    LET me == task[u] IN
    /\ me.op = "revise" /\ me.id \in Launches /\ Holds(u, me.id)
    /\ rows' \in IF me.id \in DOMAIN rows THEN {With(me.id, row) : row \in Wanted(me.id, me.asOf)} ELSE {rows}
    /\ Finish(u, {me.id})
    /\ UNCHANGED <<now, used, status, runs, intruded, budget>>

\* reviseScheduledAction to another time: the row's lock, then the process
\* lock, and the row is read again under both.
ReviseAction(u) ==
    LET me == task[u] IN
    /\ me.op = "revise" /\ me.id \in Acts /\ Holds(u, me.id)
    /\ IF me.id \notin DOMAIN rows
         THEN Finish(u, {me.id})
         ELSE /\ Enter(u, "process")
              /\ task' = [task EXCEPT ![u].op = "reschedule", ![u].seen = now + 1]
    /\ UNCHANGED <<now, rows, used, status, runs, intruded, budget>>

Reschedule(u) ==
    LET me == task[u] IN
    /\ me.op = "reschedule" /\ Holds(u, "process")
    /\ IF Refused(me.id) THEN UNCHANGED rows
         ELSE \E b \in Evaluations : rows' = [rows EXCEPT ![me.id].next = me.seen, ![me.id].blocked = b]
    /\ Finish(u, {me.id, "process"})
    /\ UNCHANGED <<now, used, status, runs, intruded, budget>>

OrdinaryActionUnfenced(u) ==
    /\ task[u].op = "ui" /\ Holds(u, "process")
    /\ IF status # "open"
         THEN Finish(u, {"process"})
         ELSE Go(u, "uiCommit") /\ UNCHANGED queue
    /\ UNCHANGED <<now, rows, used, status, runs, intruded, budget>>

\* An ordinary action: refused while a scheduled one is pending; what it
\* decides is committed later, still under the process lock.
OrdinaryAction(u) ==
    /\ task[u].op = "ui" /\ Holds(u, "process")
    /\ IF Scheduled # {} \/ status # "open"
         THEN Finish(u, {"process"})
         ELSE Go(u, "uiCommit") /\ UNCHANGED queue
    /\ UNCHANGED <<now, rows, used, status, runs, intruded, budget>>

OrdinaryCommits(u) ==
    /\ task[u].op = "uiCommit"
    /\ intruded' = (intruded \/ Scheduled # {})
    /\ status' \in {"open", "finished"}
    /\ Finish(u, {"process"})
    /\ UNCHANGED <<now, rows, used, runs, budget>>

\* AbortProcess: the scheduled actions it read must still be there when it
\* commits, or the transaction fails.
Abort(u) ==
    /\ task[u].op = "abort" /\ Holds(u, "process")
    /\ IF status # "open" THEN Finish(u, {"process"})
         ELSE /\ task' = [task EXCEPT ![u].op = "abortCommit", ![u].todo = Scheduled]
              /\ UNCHANGED queue
    /\ UNCHANGED <<now, rows, used, status, runs, intruded, budget>>

AbortCommits(u) ==
    LET gone == task[u].todo IN
    /\ task[u].op = "abortCommit"
    /\ IF gone \subseteq DOMAIN rows
         THEN rows' = [i \in DOMAIN rows \ gone |-> rows[i]] /\ status' = "aborted"
         ELSE UNCHANGED <<rows, status>>
    /\ Finish(u, {"process"})
    /\ UNCHANGED <<now, used, runs, intruded, budget>>

(***************************************************************************)
(* The rest of the server.                                                 *)
(***************************************************************************)
\* A worker's outcome ends the process; it does not look at the schedule.
ProcessFinishes ==
    /\ status = "open" /\ queue["process"] = <<>>
    /\ status' = "finished"
    /\ UNCHANGED <<now, rows, used, queue, task, runs, intruded, budget>>

\* reconcileFutureExecutionModelBlocks on one row, under its lock.
ReconcileModel(id) ==
    /\ Blocks /\ id \in DOMAIN rows /\ queue[id] = <<>>
    /\ rows' = [rows EXCEPT ![id].blocked = ~@]
    /\ UNCHANGED <<now, used, status, queue, task, runs, intruded, budget>>

TimePasses ==
    /\ now < MaxTime
    /\ now' = now + 1
    /\ UNCHANGED <<rows, used, status, queue, task, runs, intruded, budget>>

\* The server stops anywhere between two commits; only the tables survive.
Restart ==
    /\ budget.restarts > 0
    /\ budget' = [budget EXCEPT !.restarts = @ - 1]
    /\ queue' = [k \in Keys |-> <<>>]
    /\ task' = [t \in Tasks |-> IF t = "tick" THEN Boot ELSE Idle]
    /\ UNCHANGED <<now, rows, used, status, runs, intruded>>

Executes(t) ==
    \/ LaunchCommits(t) \/ LaunchReported(t) \/ LaunchFails(t)
    \/ ActionRefused(t) \/ ActionCommits(t) \/ ActionFails(t)

SchedulerStep ==
    \/ TickStage
    \/ \E id \in Ids : TickItem(id)
    \/ AdvanceCron \/ ExecuteDue \/ Executes("tick")

RequestStep(u) ==
    \/ ScheduleAction(u) \/ CreateAction(u)
    \/ Cancel(u) \/ RunNow(u) \/ ReviseLaunch(u) \/ ReviseAction(u) \/ Reschedule(u)
    \/ OrdinaryAction(u) \/ OrdinaryCommits(u) \/ Abort(u) \/ AbortCommits(u)
    \/ Executes(u)

Next ==
    \/ SchedulerStep
    \/ \E u \in Users :
        \/ AskProcess(u) \/ AskRow(u)
        \/ \E id \in Launches : CreateLaunch(u, id)
        \/ RequestStep(u)
    \/ ProcessFinishes
    \/ \E id \in Ids : ReconcileModel(id)
    \/ TimePasses
    \/ Restart

Spec == Init /\ [][Next]_vars
FairSpec == Spec /\ WF_vars(SchedulerStep) /\ \A u \in Users : WF_vars(RequestStep(u))

-----------------------------------------------------------------------------
\* Type correctness; no row is ever given a time out of range.
FutureTypeOK ==
    /\ now \in 0 .. MaxTime
    /\ DOMAIN rows \subseteq used /\ used \subseteq Ids
    /\ \A id \in DOMAIN rows : rows[id] \in Row /\ (rows[id].cron => id \in Launches)
    /\ status \in {"open", "finished", "aborted"}
    /\ \A k \in Keys : \A i, j \in DOMAIN queue[k] : queue[k][i] = queue[k][j] => i = j
    /\ intruded \in BOOLEAN

\* Whatever crashes, retries, revisions and late failure reports happen, an
\* occurrence commits its work at most once, the occurrences of a row commit in
\* order, and none follows the one that used the row up.
OccurrencesRunOnce ==
    \A id \in Ids : \A i, j \in DOMAIN runs[id] :
        i < j => runs[id][i].at < runs[id][j].at /\ ~runs[id][i].last

\* A process has at most one scheduled action: the check and the creation are
\* apart, and only the process lock keeps two requests from both passing it.
OneScheduledAction == Cardinality(Scheduled) <= 1

\* No ordinary action commits on a process that has a scheduled action when
\* the action commits, however the two requests interleave.
ScheduleLocksProcess == ~intruded

\* An aborted process keeps and gets no scheduled action.
AbortClearsSchedule == status = "aborted" => Scheduled = {}

\* A due row that no unavailable model blocks does not stay so: it is executed,
\* deferred, advanced, blocked or removed.
DueAndFree(id) == id \in DOMAIN rows /\ rows[id].next <= now /\ ~rows[id].blocked
DueWorkIsTaken == \A id \in Ids : DueAndFree(id) ~> ~DueAndFree(id)

\* No request waits forever: the two locks are always taken in one order, and
\* every path releases what it holds.
RequestsEnd == \A u \in Users : (task[u].op # "idle") ~> (task[u].op = "idle")

\* The table of rows and the process agree: one scheduled action at most, which
\* fences ordinary actions, and none after an abort.
ScheduleInvariant ==
    FutureTypeOK /\ OneScheduledAction /\ ScheduleLocksProcess /\ AbortClearsSchedule

\* The scheduler and its users make progress: due work is taken, and no request
\* waits forever.
ScheduleProgresses == DueWorkIsTaken /\ RequestsEnd
=============================================================================
