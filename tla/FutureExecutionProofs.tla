----------------------- MODULE FutureExecutionProofs -----------------------
(***************************************************************************)
(* Theorems about FutureExecution, for any ids, requests, period, delay    *)
(* and bounds.                                                             *)
(***************************************************************************)
EXTENDS FutureExecution, FiniteSetTheorems, TLAPS

RowOps == {"advance", "execute", "launch", "launched", "act", "cancel", "now", "revise", "reschedule"}
ProcessOps == {"schedule", "ui", "abort", "create", "uiCommit", "abortCommit", "act", "reschedule"}
TickOps == {"idle", "advance", "execute", "launch", "launched", "act"}
Run == [at : Nat, last : BOOLEAN]
TaskRecord == [op : {"idle"} \cup RowOps \cup ProcessOps, id : Ids \cup {"none"}, seen : Nat,
               todo : SUBSET Ids, asOf : 0..MaxTime,
               stage : {"boot", "missed", "blocked", "runnable", "idle"}]

TableType ==
    /\ rows \in [DOMAIN rows -> Row]
    /\ \A id \in DOMAIN rows : rows[id].cron => id \in Launches
    /\ DOMAIN rows \subseteq used /\ used \subseteq Ids

ClockType ==
    /\ now \in 0..MaxTime /\ status \in {"open", "finished", "aborted"}
    /\ runs \in [Ids -> Seq(Run)]

\* What a task m of t is at: its row, the occurrence it saw, and its time.
MeOK(t, m) ==
    /\ m \in TaskRecord /\ m.asOf <= now
    /\ t = "tick" => m.op \in TickOps
    /\ m.op \in RowOps => m.id \in Ids
    /\ m.op \in {"launch", "launched"} => m.id \in Launches
    /\ m.op \in {"act", "reschedule"} => m.id \in Acts
    /\ t = "tick" /\ m.op \in {"launch", "launched", "act"} => m.seen <= m.asOf
    /\ m.op = "reschedule" => m.seen <= now + 1
TaskOK(t) == MeOK(t, task[t])

\* The locks a task holds or waits for, and those it surely holds.
Wants(m, k) ==
    \/ m.op \in RowOps /\ k = m.id
    \/ m.op \in ProcessOps /\ k = "process"
Keeps(m, k) ==
    \/ m.op \in {"launch", "launched", "act", "reschedule"} /\ k = m.id
    \/ m.op \in {"create", "uiCommit", "abortCommit"} /\ k = "process"

Waits(t, k) == \E i \in DOMAIN queue[k] : queue[k][i] = t
Before(t, u, k) == \E i, j \in DOMAIN queue[k] : i < j /\ queue[k][i] = t /\ queue[k][j] = u
NoTwice(k) == \A i, j \in DOMAIN queue[k] : queue[k][i] = queue[k][j] => i = j

\* Every task is once in the queues of the locks it wants, and a task that went
\* on holds its locks.
Locks ==
    /\ queue \in [Keys -> Seq(Tasks)]
    /\ \A k \in Keys : NoTwice(k)
    /\ \A t \in Tasks, k \in Keys : Waits(t, k) <=> Wants(task[t], k)
    /\ \A t \in Tasks, k \in Keys : Keeps(task[t], k) => Holds(t, k)

\* First come, first served: an occurrence that will be executed before a
\* request for its row is handled was due when the request was made.
Fifo ==
    \A u \in Users, id \in Ids : Before("tick", u, id) => task["tick"].asOf <= task[u].asOf

\* What a request found under the lock of the process still holds when it
\* commits.
FenceOK(u) ==
    /\ task[u].op \in {"create", "uiCommit"} => Scheduled = {} /\ status = "open"
    /\ task[u].op = "abortCommit" => Scheduled \subseteq task[u].todo

Schedule ==
    /\ \A a, b \in Scheduled : a = b
    /\ status = "aborted" => Scheduled = {}
    /\ intruded = FALSE

\* The occurrences of a row that were committed lie before the one it has.
HistoryOK(id) ==
    /\ \A i, j \in DOMAIN runs[id] : i < j => runs[id][i].at < runs[id][j].at /\ ~runs[id][i].last
    /\ \A i \in DOMAIN runs[id] :
         /\ id \in used
         /\ id \in Acts => runs[id][i].last
         /\ id \in DOMAIN rows =>
              /\ ~runs[id][i].last
              /\ runs[id][i].at < rows[id].next /\ runs[id][i].at <= now
              /\ \A u \in Users : task[u].op = "revise" /\ task[u].id = id
                                    => runs[id][i].at <= task[u].asOf

IInv ==
    /\ TableType /\ ClockType
    /\ task \in [Tasks -> TaskRecord] /\ \A t \in Tasks : TaskOK(t)
    /\ Locks /\ Fifo
    /\ Schedule /\ \A u \in Users : FenceOK(u)
    /\ \A id \in Ids : HistoryOK(id)

-----------------------------------------------------------------------------
(* Time *)

\* nextCronOccurrenceUtc answers a later time, at most a period away.
LEMMA CronAfterFacts ==
  ASSUME NEW t \in Nat
  PROVE  CronAfter(t) \in Nat /\ CronAfter(t) > t /\ CronAfter(t) <= t + Period
<1>1. Period \in Nat /\ Period > 0
    BY FutureAssumption
<1>2. t \div Period \in Int /\ (t % Period) \in 0..(Period - 1)
    BY <1>1
<1>4. t = Period * (t \div Period) + (t % Period)
    BY <1>1
<1>3. CronAfter(t) = Period * (t \div Period) + Period
    BY <1>1, <1>2 DEF CronAfter
<1> QED BY <1>1, <1>2, <1>3, <1>4

-----------------------------------------------------------------------------
(* The queues *)

\* A task that enters a queue comes last in it, and disturbs nobody.
LEMMA EnterFacts ==
  ASSUME queue \in [Keys -> Seq(Tasks)], NEW t \in Tasks, NEW k \in Keys, Enter(t, k)
  PROVE  /\ queue' \in [Keys -> Seq(Tasks)]
         /\ \A j \in Keys : j # k => queue'[j] = queue[j]
         /\ ~Waits(t, k) /\ NoTwice(k) => NoTwice(k)'
         /\ \A u \in Tasks : Waits(u, k)' <=> Waits(u, k) \/ u = t
         /\ \A u \in Tasks : Holds(u, k) => Holds(u, k)'
         /\ \A u, v \in Tasks : Before(u, v, k)' => Before(u, v, k) \/ (v = t /\ Waits(u, k))
<1> DEFINE s == queue[k]
<1>1. queue' = [queue EXCEPT ![k] = Append(s, t)] /\ s \in Seq(Tasks)
    BY DEF Enter
<1>2. /\ queue' \in [Keys -> Seq(Tasks)] /\ queue'[k] = Append(s, t)
      /\ \A j \in Keys : j # k => queue'[j] = queue[j]
    BY <1>1
<1>3. /\ Len(s) \in Nat /\ DOMAIN s = 1..Len(s) /\ DOMAIN queue'[k] = 1..(Len(s) + 1)
      /\ \A i \in 1..Len(s) : queue'[k][i] = s[i]
      /\ queue'[k][Len(s) + 1] = t
    BY <1>1, <1>2
<1>4. ~Waits(t, k) /\ NoTwice(k) => NoTwice(k)'
    BY <1>3 DEF Waits, NoTwice
<1>5. \A u \in Tasks : Waits(u, k)' <=> Waits(u, k) \/ u = t
    BY <1>3 DEF Waits
<1>6. \A u \in Tasks : Holds(u, k) => Holds(u, k)'
    BY <1>1, <1>2, <1>3 DEF Holds
<1>7. \A u, v \in Tasks : Before(u, v, k)' => Before(u, v, k) \/ (v = t /\ Waits(u, k))
    BY <1>3 DEF Before, Waits
<1> QED BY <1>2, <1>4, <1>5, <1>6, <1>7

\* A task that leaves locks it holds is gone from their queues, and disturbs
\* nobody.
LEMMA LeaveFacts ==
  ASSUME queue \in [Keys -> Seq(Tasks)], NEW t \in Tasks, NEW ks \in SUBSET Keys, Leave(ks),
         \A k \in ks : Holds(t, k), \A k \in Keys : NoTwice(k)
  PROVE  /\ queue' \in [Keys -> Seq(Tasks)]
         /\ \A k \in Keys : NoTwice(k)'
         /\ \A u \in Tasks, k \in Keys : Waits(u, k)' <=> Waits(u, k) /\ (u # t \/ k \notin ks)
         /\ \A u \in Tasks, k \in Keys : u # t /\ Holds(u, k) => Holds(u, k)'
         /\ \A u, v \in Tasks, k \in Keys : Before(u, v, k)' => Before(u, v, k)
<1>1. ASSUME NEW k \in ks
      PROVE  /\ queue'[k] = Tail(queue[k]) /\ queue[k] \in Seq(Tasks) /\ queue'[k] \in Seq(Tasks)
             /\ Len(queue[k]) \in Nat /\ DOMAIN queue[k] = 1..Len(queue[k]) /\ Len(queue[k]) >= 1
             /\ DOMAIN queue'[k] = 1..(Len(queue[k]) - 1) /\ queue[k][1] = t
             /\ \A i \in 1..(Len(queue[k]) - 1) : queue'[k][i] = queue[k][i + 1]
    BY DEF Leave, Holds
<1>2. \A k \in Keys \ ks : queue'[k] = queue[k]
    BY DEF Leave
<1>3. queue' \in [Keys -> Seq(Tasks)]
    BY <1>1, <1>2 DEF Leave
<1>4. ASSUME NEW k \in Keys PROVE NoTwice(k)'
  <2>1. CASE k \in ks
    <3> SUFFICES ASSUME NEW i \in DOMAIN queue'[k], NEW j \in DOMAIN queue'[k], queue'[k][i] = queue'[k][j]
                 PROVE  i = j
        BY DEF NoTwice
    <3>1. i + 1 \in DOMAIN queue[k] /\ j + 1 \in DOMAIN queue[k] /\ i \in Int /\ j \in Int
        BY <1>1, <2>1
    <3>2. queue[k][i + 1] = queue[k][j + 1]
        BY <1>1, <2>1
    <3>3. i + 1 = j + 1
        BY <3>1, <3>2 DEF NoTwice
    <3> QED BY <3>1, <3>3
  <2>2. CASE k \notin ks
      BY <1>2, <2>2 DEF NoTwice
  <2> QED BY <2>1, <2>2
<1>5. ASSUME NEW u \in Tasks, NEW k \in ks PROVE Waits(u, k)' <=> Waits(u, k) /\ u # t
  <2>1. Waits(u, k)' => Waits(u, k) /\ u # t
      BY <1>1 DEF NoTwice, Waits
  <2>2. ASSUME NEW i \in DOMAIN queue[k], queue[k][i] = u, u # t PROVE Waits(u, k)'
    <3>1. i # 1 /\ i - 1 \in 1..(Len(queue[k]) - 1)
        BY <1>1, <2>2
    <3>2. queue'[k][i - 1] = u
        BY <1>1, <2>2, <3>1
    <3> QED BY <1>1, <3>1, <3>2 DEF Waits
  <2> QED BY <2>1, <2>2 DEF Waits
<1>6. \A u \in Tasks, k \in Keys : Waits(u, k)' <=> Waits(u, k) /\ (u # t \/ k \notin ks)
    BY <1>2, <1>5 DEF Waits
<1>7. \A u \in Tasks, k \in Keys : u # t /\ Holds(u, k) => Holds(u, k)'
    BY <1>2 DEF Holds
<1>8. ASSUME NEW u \in Tasks, NEW v \in Tasks, NEW k \in Keys, Before(u, v, k)' PROVE Before(u, v, k)
  <2>1. CASE k \in ks
    <3>1. PICK i \in DOMAIN queue'[k], j \in DOMAIN queue'[k] : i < j /\ queue'[k][i] = u /\ queue'[k][j] = v
        BY <1>8 DEF Before
    <3>2. DOMAIN queue'[k] = 1..(Len(queue[k]) - 1) /\ DOMAIN queue[k] = 1..Len(queue[k])
        BY <1>1, <2>1
    <3>3. Len(queue[k]) \in Nat /\ \A x \in 1..(Len(queue[k]) - 1) : queue'[k][x] = queue[k][x + 1]
        BY <1>1, <2>1
    <3>4. i + 1 \in DOMAIN queue[k] /\ j + 1 \in DOMAIN queue[k] /\ i + 1 < j + 1
        BY <3>1, <3>2, <3>3
    <3>5. queue[k][i + 1] = u /\ queue[k][j + 1] = v
        BY <3>1, <3>2, <3>3
    <3> QED BY <3>4, <3>5, Zenon DEF Before
  <2>2. CASE k \notin ks
      BY <1>2, <1>8, <2>2 DEF Before
  <2> QED BY <2>1, <2>2
<1> QED BY <1>3, <1>4, <1>6, <1>7, <1>8

-----------------------------------------------------------------------------
(* The table *)

\* A table that differs from rows only in that rows are gone or come later.
Onward(r) ==
    /\ r \in [DOMAIN r -> Row] /\ DOMAIN r \subseteq DOMAIN rows
    /\ \A i \in DOMAIN r : r[i].cron = rows[i].cron /\ r[i].next >= rows[i].next

\* Times are natural numbers, and contain what the clock allows.
LEMMA TimesFacts ==
  /\ Times \subseteq Nat /\ MaxTime \in Nat /\ Delay \in Nat
  /\ \A t \in 0..MaxTime : /\ t \in Times /\ t + 1 \in Times /\ t + Delay \in Times
                          /\ t \in Nat /\ CronAfter(t) \in Times /\ CronAfter(t) > t
<1>1. /\ MaxTime \in Nat /\ Delay \in Nat /\ Period \in Nat /\ Delay > 0 /\ Period > 0
    BY FutureAssumption
<1>2. Times \subseteq Nat
    BY <1>1 DEF Times
<1>3. ASSUME NEW t \in 0..MaxTime
      PROVE  t \in Times /\ t + 1 \in Times /\ t + Delay \in Times /\ t \in Nat
    BY <1>1 DEF Times
<1>4. ASSUME NEW t \in 0..MaxTime PROVE CronAfter(t) \in Times /\ CronAfter(t) > t
  <2>1. CronAfter(t) \in Nat /\ CronAfter(t) > t /\ CronAfter(t) <= t + Period
      BY <1>3, CronAfterFacts
  <2> QED BY <1>1, <2>1 DEF Times
<1> QED BY <1>1, <1>2, <1>3, <1>4

\* What is removed leaves the rest as it was.
LEMMA WithoutFacts ==
  ASSUME TableType, NEW id
  PROVE  Onward(rows) /\ Onward(Without(id)) /\ DOMAIN Without(id) = DOMAIN rows \ {id}
<1>1. \A i \in DOMAIN rows : rows[i].next >= rows[i].next
    BY TimesFacts DEF TableType, Row
<1> QED BY <1>1 DEF TableType, Onward, Without

\* The occurrence of a row moves to a later time.
LEMMA LaterFacts ==
  ASSUME TableType, NEW id \in DOMAIN rows, NEW next \in Times, next >= rows[id].next,
         NEW blocked \in BOOLEAN
  PROVE  /\ Onward([rows EXCEPT ![id].next = next])
         /\ Onward([rows EXCEPT ![id].blocked = blocked, ![id].next = next])
<1>1. \A i \in DOMAIN rows : rows[i].next \in Nat /\ rows[i].next >= rows[i].next /\ rows[i] \in Row
    BY TimesFacts DEF TableType, Row
<1>2. ASSUME NEW r, r = [rows EXCEPT ![id].next = next]
      PROVE  Onward(r)
  <2>1. DOMAIN r = DOMAIN rows /\ r[id] = [rows[id] EXCEPT !.next = next] /\ \A i \in DOMAIN rows : i # id => r[i] = rows[i]
      BY <1>2 DEF TableType
  <2>2. r[id] \in Row /\ r[id].cron = rows[id].cron /\ r[id].next = next
      BY <1>1, <2>1 DEF Row
  <2>3. r \in [DOMAIN r -> Row]
      BY <1>1, <1>2, <2>1, <2>2
  <2> QED BY <1>1, <2>1, <2>2, <2>3 DEF Onward
<1>3. ASSUME NEW r, r = [rows EXCEPT ![id].blocked = blocked, ![id].next = next]
      PROVE  Onward(r)
  <2>1. /\ DOMAIN r = DOMAIN rows /\ \A i \in DOMAIN rows : i # id => r[i] = rows[i]
        /\ r[id] = [rows[id] EXCEPT !.blocked = blocked, !.next = next]
      BY <1>1, <1>3 DEF TableType, Row
  <2>2. r[id] \in Row /\ r[id].cron = rows[id].cron /\ r[id].next = next
      BY <1>1, <2>1 DEF Row
  <2>3. r \in [DOMAIN r -> Row]
      BY <1>1, <1>3, <2>1, <2>2
  <2> QED BY <1>1, <2>1, <2>2, <2>3 DEF Onward
<1> QED BY <1>2, <1>3

\* A plan for an occurrence that is gone does nothing.
LEMMA MovedFacts ==
  ASSUME TableType, NEW id, NEW seen, NEW next \in Times, next >= seen
  PROVE  Onward(Moved(id, seen, next)) /\ Onward(Consumed(id, seen))
<1>1. CASE Current(id, seen)
    BY <1>1, LaterFacts, WithoutFacts DEF Moved, Consumed, Current
<1>2. CASE ~Current(id, seen)
    BY <1>2, WithoutFacts DEF Moved, Consumed
<1> QED BY <1>1, <1>2

\* An execution that failed for now leaves its row to a later time.
LEMMA RetryLaterFacts ==
  ASSUME TableType, NEW id, NEW seen \in Nat, NEW asOf \in 0..MaxTime, seen <= asOf
  PROVE  Onward(RetryLater(id, seen, asOf)) /\ Onward(Consumed(id, seen))
<1>3. /\ CronAfter(asOf) \in Times /\ CronAfter(asOf) > asOf /\ asOf + Delay \in Times
      /\ asOf \in Nat /\ Delay \in Nat /\ Times \subseteq Nat
    BY TimesFacts
<1>4. CronAfter(asOf) \in Nat
    BY <1>3
<1>1. /\ CronAfter(asOf) \in Times /\ CronAfter(asOf) >= seen
      /\ asOf + Delay \in Times /\ asOf + Delay >= seen
    BY <1>3, <1>4
<1>2. \/ RetryLater(id, seen, asOf) = Moved(id, seen, CronAfter(asOf))
      \/ RetryLater(id, seen, asOf) = Moved(id, seen, asOf + Delay)
    BY DEF RetryLater
<1> QED BY <1>1, <1>2, MovedFacts

\* The scheduler, before it executes a row, at most moves it onward.
LEMMA SchedulerOnward ==
  ASSUME IInv, TickStage \/ (\E id \in Ids : TickItem(id)) \/ AdvanceCron \/ ExecuteDue
  PROVE  Onward(rows') /\ UNCHANGED <<used, runs, now, status, intruded>>
<1> DEFINE me == task["tick"]
<1>1. TableType /\ Onward(rows) /\ me \in TaskRecord
    BY WithoutFacts DEF IInv, TaskOK, MeOK, Tasks
<1>2. me.asOf \in 0..MaxTime
    BY <1>1 DEF TaskRecord
<1>6. /\ CronAfter(me.asOf) \in Times /\ CronAfter(me.asOf) > me.asOf
      /\ me.asOf \in Nat /\ Times \subseteq Nat
    BY <1>2, TimesFacts
<1>7. CronAfter(me.asOf) \in Nat
    BY <1>6
<1>3. CASE TickStage \/ \E id \in Ids : TickItem(id)
    BY <1>1, <1>3 DEF TickStage, TickItem
<1>4. CASE AdvanceCron
  <2>1. CASE me.id \in Due(me.asOf) /\ rows[me.id].cron
    <3>1. rows' = Moved(me.id, rows[me.id].next, CronAfter(me.asOf))
        BY <1>4, <2>1 DEF AdvanceCron
    <3>2. me.id \in DOMAIN rows /\ rows[me.id].next <= me.asOf /\ rows[me.id].next \in Nat
        BY <1>1, <2>1, TimesFacts DEF Due, TableType, Row
    <3>3. CronAfter(me.asOf) \in Times /\ CronAfter(me.asOf) >= rows[me.id].next
        BY <1>6, <1>7, <3>2
    <3>4. Onward(rows')
        BY <1>1, <3>1, <3>3, MovedFacts
    <3> QED BY <1>4, <3>4 DEF AdvanceCron
  <2>2. CASE ~(me.id \in Due(me.asOf) /\ rows[me.id].cron)
      BY <1>1, <1>4, <2>2 DEF AdvanceCron
  <2> QED BY <2>1, <2>2
<1>5. CASE ExecuteDue
  <2>1. CASE rows' = rows
      BY <1>1, <1>5, <2>1 DEF ExecuteDue
  <2>2. CASE rows' # rows
    <3> DEFINE n == IF rows[me.id].cron THEN CronAfter(me.asOf) ELSE rows[me.id].next
    <3>1. /\ me.id \in RunnableDue(me.asOf)
          /\ rows' = [rows EXCEPT ![me.id].blocked = TRUE, ![me.id].next = n]
        BY <1>5, <2>2 DEF ExecuteDue
    <3>2. me.id \in DOMAIN rows /\ rows[me.id].next <= me.asOf /\ rows[me.id].next \in Times
        BY <1>1, <3>1 DEF RunnableDue, Due, TableType, Row
    <3>5. rows[me.id].next \in Nat
        BY <1>6, <3>2
    <3>3. n \in Times /\ n >= rows[me.id].next
        BY <1>6, <1>7, <3>2, <3>5
    <3>4. Onward(rows')
        BY <1>1, <3>1, <3>2, <3>3, LaterFacts
    <3> QED BY <1>5, <3>4 DEF ExecuteDue
  <2> QED BY <2>1, <2>2
<1> QED BY <1>3, <1>4, <1>5

\* An execution that does not commit at most moves its row onward.
LEMMA ExecutesOnward ==
  ASSUME IInv, NEW t \in Tasks,
         LaunchReported(t) \/ LaunchFails(t) \/ ActionRefused(t) \/ ActionFails(t)
  PROVE  Onward(rows') /\ UNCHANGED <<used, runs, now, status, intruded>>
<1> DEFINE me == task[t]
<1>1. TableType /\ Onward(rows) /\ TaskOK(t) /\ me \in TaskRecord
    BY WithoutFacts DEF IInv, TaskOK, MeOK
<1>2. me.asOf \in 0..MaxTime /\ me.seen \in Nat
    BY <1>1 DEF TaskRecord
<1>3. me.op \in {"launch", "launched", "act"} /\ UNCHANGED <<used, runs, now, status, intruded>>
    BY DEF LaunchReported, LaunchFails, ActionRefused, ActionFails
<1>4. CASE rows' = rows
    BY <1>1, <1>3, <1>4
<1>5. CASE rows' # rows
  <2>1. t = "tick" /\ rows' \in {RetryLater(me.id, me.seen, me.asOf), Consumed(me.id, me.seen)}
      BY <1>5 DEF LaunchReported, LaunchFails, ActionRefused, ActionFails
  <2>2. me.seen <= me.asOf
      BY <1>1, <1>3, <2>1 DEF TaskOK, MeOK
  <2>3. Onward(RetryLater(me.id, me.seen, me.asOf)) /\ Onward(Consumed(me.id, me.seen))
      BY <1>1, <1>2, <2>2, RetryLaterFacts
  <2> QED BY <1>3, <2>1, <2>3
<1> QED BY <1>4, <1>5

\* So does a request that neither creates nor revises a row, nor runs one.
LEMMA RequestOnward ==
  ASSUME IInv, NEW u \in Users,
         \/ AskProcess(u) \/ AskRow(u) \/ ScheduleAction(u) \/ Cancel(u) \/ RunNow(u)
         \/ ReviseAction(u) \/ OrdinaryAction(u) \/ OrdinaryCommits(u) \/ Abort(u) \/ AbortCommits(u)
  PROVE  Onward(rows') /\ UNCHANGED <<used, runs, now>>
<1>1. UNCHANGED <<used, runs, now>>
    BY DEF AskProcess, AskRow, Ask, ScheduleAction, Cancel, RunNow, ReviseAction, OrdinaryAction,
           OrdinaryCommits, Abort, AbortCommits
<1>2. TableType /\ Onward(rows)
    BY WithoutFacts DEF IInv
<1>3. CASE rows' = rows
    BY <1>1, <1>2, <1>3
<1>4. CASE Cancel(u)
    BY <1>1, <1>2, <1>4, WithoutFacts DEF Cancel
<1>5. CASE AbortCommits(u) /\ rows' # rows
  <2>1. rows' = [i \in DOMAIN rows \ task[u].todo |-> rows[i]]
      BY <1>5 DEF AbortCommits
  <2> QED BY <1>1, <1>2, <2>1 DEF Onward
<1> QED BY <1>3, <1>4, <1>5, ZenonT(60) DEF AskProcess, AskRow, Ask, ScheduleAction, RunNow, ReviseAction,
           OrdinaryAction, OrdinaryCommits, Abort

\* And so does the rest of the server.
LEMMA ServerOnward ==
  ASSUME IInv, ProcessFinishes \/ (\E id \in Ids : ReconcileModel(id)) \/ Restart
  PROVE  Onward(rows') /\ UNCHANGED <<used, runs, now>>
<1>1. TableType /\ Onward(rows)
    BY WithoutFacts DEF IInv
<1>2. CASE ProcessFinishes \/ Restart
    BY <1>1, <1>2 DEF ProcessFinishes, Restart
<1>3. ASSUME NEW id \in Ids, ReconcileModel(id) PROVE Onward(rows') /\ UNCHANGED <<used, runs, now>>
  <2>1. id \in DOMAIN rows /\ rows' = [rows EXCEPT ![id].blocked = ~rows[id].blocked]
      BY <1>3 DEF ReconcileModel
  <2>7. (~rows[id].blocked) \in BOOLEAN
      OBVIOUS
  <2>2. rows[id] \in Row /\ (~rows[id].blocked) \in BOOLEAN
      BY <1>1, <2>1, <2>7 DEF TableType
  <2>3. /\ DOMAIN rows' = DOMAIN rows /\ \A i \in DOMAIN rows : i # id => rows'[i] = rows[i]
        /\ rows'[id] = [rows[id] EXCEPT !.blocked = ~rows[id].blocked]
      BY <1>1, <2>1 DEF TableType
  <2>4. rows'[id] \in Row /\ rows'[id].cron = rows[id].cron /\ rows'[id].next = rows[id].next
      BY <2>2, <2>3 DEF Row
  <2>5. rows' \in [DOMAIN rows' -> Row]
      BY <1>1, <2>1, <2>3, <2>4 DEF TableType
  <2>6. Onward(rows')
      BY <1>1, <2>3, <2>4, <2>5 DEF Onward
  <2> QED BY <1>3, <2>6 DEF ReconcileModel
<1> QED BY <1>2, <1>3

-----------------------------------------------------------------------------
(* The tasks *)

\* A step of t to m that takes no lock, asks for the lock k, or gives back all
\* the locks t has.
Stays(t, m) ==
    /\ queue' = queue
    /\ \A k \in Keys : (Wants(m, k) <=> Wants(task[t], k)) /\ (Keeps(m, k) => Holds(t, k))
    /\ m.asOf = task[t].asOf \/ \A k \in Keys : ~Wants(m, k)
Joins(t, m, k) ==
    /\ Enter(t, k) /\ ~Wants(task[t], k)
    /\ \A j \in Keys : (Wants(m, j) <=> Wants(task[t], j) \/ j = k) /\ (Keeps(m, j) => Holds(t, j))
    /\ k \in Ids /\ t \in Users => m.asOf = now
    /\ m.asOf = task[t].asOf \/ \A j \in Keys : ~Wants(task[t], j)
Parts(t, m, ks) ==
    /\ Leave(ks) /\ \A k \in ks : Holds(t, k)
    /\ \A k \in Keys : (Wants(task[t], k) => k \in ks) /\ ~Wants(m, k) /\ ~Keeps(m, k)

Moves(t, m) ==
    /\ MeOK(t, m) /\ task' = [task EXCEPT ![t] = m] /\ now' = now
    /\ m.op = "revise" => m.asOf = now
    /\ m.op \in {"create", "uiCommit"} => Scheduled = {} /\ status = "open" /\ UNCHANGED <<rows, status>>
    /\ m.op = "abortCommit" => Scheduled \subseteq m.todo /\ UNCHANGED <<rows, status>>
    /\ \/ Stays(t, m)
       \/ \E k \in Keys : Joins(t, m, k)
       \/ \E ks \in SUBSET Keys : Parts(t, m, ks)

\* Only one task holds a lock.
LEMMA OneHolder ==
  ASSUME NEW t, NEW u, NEW k, Holds(t, k), Holds(u, k)
  PROVE  t = u
BY DEF Holds

\* The tasks after a step.
LEMMA MovesTasks ==
  ASSUME IInv, NEW t \in Tasks, NEW m, Moves(t, m)
  PROVE  /\ task' \in [Tasks -> TaskRecord] /\ \A u \in Tasks : TaskOK(u)'
         /\ task'[t] = m /\ \A u \in Tasks : u # t => task'[u] = task[u]
<1>1. /\ task' \in [Tasks -> TaskRecord]
      /\ task'[t] = m /\ \A u \in Tasks : u # t => task'[u] = task[u]
    BY DEF Moves, MeOK, IInv
<1>2. \A u \in Tasks : MeOK(u, task'[u])
    BY <1>1 DEF Moves, IInv, TaskOK
<1>3. ASSUME NEW u \in Tasks PROVE TaskOK(u)'
    BY <1>2 DEF Moves, TaskOK, MeOK
<1> QED BY <1>1, <1>3

\* The locks after a step.
LEMMA MovesLocks ==
  ASSUME IInv, NEW t \in Tasks, NEW m, Moves(t, m)
  PROVE  Locks'
<1>1. task'[t] = m /\ \A u \in Tasks : u # t => task'[u] = task[u]
    BY MovesTasks
<1>2. /\ queue \in [Keys -> Seq(Tasks)] /\ \A k \in Keys : NoTwice(k)
      /\ \A u \in Tasks, k \in Keys : Waits(u, k) <=> Wants(task[u], k)
      /\ \A u \in Tasks, k \in Keys : Keeps(task[u], k) => Holds(u, k)
    BY DEF IInv, Locks
<1>3. ASSUME queue' \in [Keys -> Seq(Tasks)], \A k \in Keys : NoTwice(k)',
             \A u \in Tasks, k \in Keys : Waits(u, k)' <=> Wants(task'[u], k),
             \A u \in Tasks, k \in Keys : Keeps(task'[u], k) => Holds(u, k)'
      PROVE  Locks'
    BY <1>3 DEF Locks, Wants, Keeps
<1>4. CASE Stays(t, m)
  <2>1. queue' = queue
      BY <1>4 DEF Stays
  <2>2. ASSUME NEW u \in Tasks, NEW k \in Keys
        PROVE  (Waits(u, k)' <=> Wants(task'[u], k)) /\ (Keeps(task'[u], k) => Holds(u, k)')
    <3>1. (Waits(u, k)' <=> Waits(u, k)) /\ (Holds(u, k)' <=> Holds(u, k))
        BY <2>1 DEF Waits, Holds
    <3> QED BY <1>1, <1>2, <1>4, <3>1 DEF Stays
  <2> QED BY <1>2, <1>3, <2>1, <2>2 DEF NoTwice
<1>5. ASSUME NEW k \in Keys, Joins(t, m, k) PROVE Locks'
  <2>1. ~Waits(t, k) /\ Enter(t, k) /\ NoTwice(k)
      BY <1>2, <1>5 DEF Joins
  <2>2. /\ queue' \in [Keys -> Seq(Tasks)] /\ NoTwice(k)'
        /\ \A j \in Keys : j # k => queue'[j] = queue[j]
        /\ \A u \in Tasks : Waits(u, k)' <=> Waits(u, k) \/ u = t
        /\ \A u \in Tasks : Holds(u, k) => Holds(u, k)'
      BY <1>2, <2>1, EnterFacts
  <2>3. \A j \in Keys : NoTwice(j)'
      BY <1>2, <2>2 DEF NoTwice
  <2>4. ASSUME NEW u \in Tasks, NEW j \in Keys
        PROVE  (Waits(u, j)' <=> Wants(task'[u], j)) /\ (Keeps(task'[u], j) => Holds(u, j)')
    <3>1. Waits(u, j)' <=> Waits(u, j) \/ (u = t /\ j = k)
        BY <2>2 DEF Waits
    <3>2. Holds(u, j) => Holds(u, j)'
        BY <2>2 DEF Holds
    <3> QED BY <1>1, <1>2, <1>5, <3>1, <3>2 DEF Joins
  <2> QED BY <1>3, <2>2, <2>3, <2>4
<1>6. ASSUME NEW ks \in SUBSET Keys, Parts(t, m, ks) PROVE Locks'
  <2>1. Leave(ks) /\ \A k \in ks : Holds(t, k)
      BY <1>6 DEF Parts
  <2>2. /\ queue' \in [Keys -> Seq(Tasks)] /\ \A k \in Keys : NoTwice(k)'
        /\ \A u \in Tasks, k \in Keys : Waits(u, k)' <=> Waits(u, k) /\ (u # t \/ k \notin ks)
        /\ \A u \in Tasks, k \in Keys : u # t /\ Holds(u, k) => Holds(u, k)'
      BY <1>2, <2>1, LeaveFacts
  <2>3. ASSUME NEW u \in Tasks, NEW k \in Keys
        PROVE  (Waits(u, k)' <=> Wants(task'[u], k)) /\ (Keeps(task'[u], k) => Holds(u, k)')
      BY <1>1, <1>2, <1>6, <2>2 DEF Parts
  <2> QED BY <1>3, <2>2, <2>3
<1> QED BY <1>4, <1>5, <1>6 DEF Moves

\* First come, first served, after a step.
LEMMA MovesFifo ==
  ASSUME IInv, NEW t \in Tasks, NEW m, Moves(t, m)
  PROVE  Fifo'
<1>1. task'[t] = m /\ \A u \in Tasks : u # t => task'[u] = task[u]
    BY MovesTasks
<1>2. /\ queue \in [Keys -> Seq(Tasks)] /\ \A k \in Keys : NoTwice(k)
      /\ \A u \in Tasks, k \in Keys : Waits(u, k) <=> Wants(task[u], k)
    BY DEF IInv, Locks
<1>3. Locks' /\ \A u \in Tasks, k \in Keys : Waits(u, k)' <=> Wants(task'[u], k)
    BY MovesLocks DEF Locks, Wants
<1>4. SUFFICES ASSUME NEW u \in Users, NEW id \in Ids, Before("tick", u, id)'
               PROVE  task'["tick"].asOf <= task'[u].asOf
    BY DEF Fifo
<1>5. /\ u \in Tasks /\ "tick" \in Tasks /\ u # "tick" /\ id \in Keys
      /\ Waits("tick", id)' /\ Waits(u, id)'
    BY <1>4, FutureAssumption DEF Tasks, Keys, Before, Waits
<1>6. Wants(task'["tick"], id) /\ Wants(task'[u], id)
    BY <1>3, <1>5
<1>7. ASSUME Before("tick", u, id) PROVE Wants(task["tick"], id) /\ Wants(task[u], id) /\ task["tick"].asOf <= task[u].asOf
  <2>1. Waits("tick", id) /\ Waits(u, id)
      BY <1>7 DEF Before, Waits
  <2> QED BY <1>2, <1>5, <1>7, <2>1 DEF IInv, Fifo
<1>8. CASE Stays(t, m)
  <2>1. Before("tick", u, id)
      BY <1>4, <1>8 DEF Stays, Before
  <2> QED BY <1>1, <1>5, <1>6, <1>7, <1>8, <2>1 DEF Stays
<1>9. ASSUME NEW k \in Keys, Joins(t, m, k) PROVE task'["tick"].asOf <= task'[u].asOf
  <2>1. /\ \A j \in Keys : j # k => queue'[j] = queue[j]
        /\ \A v, w \in Tasks : Before(v, w, k)' => Before(v, w, k) \/ (w = t /\ Waits(v, k))
      BY <1>2, <1>9, EnterFacts DEF Joins
  <2>2. CASE Before("tick", u, id)
      BY <1>1, <1>5, <1>7, <1>9, <2>2 DEF Joins
  <2>3. CASE ~Before("tick", u, id)
    <3>1. id = k /\ u = t
        BY <1>4, <1>5, <2>1, <2>3 DEF Before
    <3>2. task'[u].asOf = now /\ task'["tick"] = task["tick"]
        BY <1>1, <1>5, <1>9, <3>1 DEF Joins
    <3>3. task["tick"].asOf <= now
        BY <1>5 DEF IInv, TaskOK, MeOK
    <3> QED BY <3>2, <3>3
  <2> QED BY <2>2, <2>3
<1>10. ASSUME NEW ks \in SUBSET Keys, Parts(t, m, ks) PROVE task'["tick"].asOf <= task'[u].asOf
  <2>1. Before("tick", u, id)
      BY <1>2, <1>4, <1>5, <1>10, LeaveFacts DEF Parts
  <2>2. t # u /\ t # "tick"
      BY <1>1, <1>5, <1>6, <1>10 DEF Parts
  <2> QED BY <1>1, <1>5, <1>7, <2>1, <2>2
<1> QED BY <1>8, <1>9, <1>10 DEF Moves

\* What the others found under the lock of the process is changed only by its
\* holder.
LEMMA MovesFence ==
  ASSUME IInv, NEW t \in Tasks, NEW m, Moves(t, m),
         (Scheduled' \subseteq Scheduled /\ status' = status) \/ Holds(t, "process")
  PROVE  \A u \in Users : FenceOK(u)'
<1>1. task'[t] = m /\ \A u \in Tasks : u # t => task'[u] = task[u]
    BY MovesTasks
<1> TAKE u \in Users
<1>2. u \in Tasks /\ "process" \in Keys
    BY DEF Tasks, Keys
<1>3. CASE u = t
    BY <1>1, <1>3 DEF Moves, FenceOK, Scheduled
<1>4. CASE u # t
  <2>1. CASE task[u].op \notin {"create", "uiCommit", "abortCommit"}
      BY <1>1, <1>2, <1>4, <2>1 DEF FenceOK
  <2>2. CASE task[u].op \in {"create", "uiCommit", "abortCommit"}
    <3>1. Holds(u, "process")
        BY <1>2, <2>2 DEF IInv, Locks, Keeps
    <3>2. Scheduled' \subseteq Scheduled /\ status' = status
        BY <1>4, <3>1, OneHolder
    <3> QED BY <1>1, <1>2, <1>4, <3>2 DEF FenceOK, IInv
  <2> QED BY <2>1, <2>2
<1> QED BY <1>3, <1>4

\* An operation that ends gives back the locks it has.
LEMMA FinishMoves ==
  ASSUME IInv, NEW t \in Tasks, NEW ks \in SUBSET Keys, Finish(t, ks), now' = now,
         \A k \in ks : Holds(t, k), \A k \in Keys : Wants(task[t], k) => k \in ks
  PROVE  \E m : Moves(t, m)
<1> DEFINE m == task'[t]
<1>1. task[t] \in TaskRecord /\ task[t].asOf <= now /\ task \in [Tasks -> TaskRecord]
    BY DEF IInv, TaskOK, MeOK
<1>2. /\ now \in 0..MaxTime /\ MaxTime \in Nat /\ Idle \in TaskRecord /\ Idle.asOf <= now /\ Idle.op = "idle"
    BY FutureAssumption DEF IInv, ClockType, Idle, TaskRecord
<1>3. m = IF t = "tick" THEN [task[t] EXCEPT !.op = "idle", !.id = "none", !.seen = 0] ELSE Idle
    BY <1>1 DEF Finish, Ends
<1>9. ASSUME NEW r \in TaskRecord
      PROVE  LET n == [r EXCEPT !.op = "idle", !.id = "none", !.seen = 0]
             IN  n \in TaskRecord /\ n.asOf = r.asOf /\ n.op = "idle"
    BY DEF TaskRecord
<1>4. m \in TaskRecord /\ m.asOf <= now /\ m.op = "idle"
    BY <1>1, <1>2, <1>3, <1>9
<1>5. MeOK(t, m)
    BY <1>4 DEF MeOK, TickOps, RowOps
<1>6. \A k \in Keys : ~Wants(m, k) /\ ~Keeps(m, k)
    BY <1>4 DEF Wants, Keeps, RowOps, ProcessOps
<1>7. Parts(t, m, ks) /\ task' = [task EXCEPT ![t] = m]
    BY <1>1, <1>6 DEF Parts, Finish, Ends
<1>8. Moves(t, m)
    BY <1>4, <1>5, <1>7 DEF Moves
<1> QED BY <1>8

\* The locks of the tasks that are about a row, or about a row and the process.
LEMMA RowLocks ==
  ASSUME IInv, NEW t \in Tasks
  PROVE  /\ task[t].op \in RowOps => task[t].id \in Ids /\ task[t].id \in Keys /\ task[t].id # "process"
         /\ task[t].op \in {"launch", "launched", "act", "reschedule"} => Holds(t, task[t].id)
         /\ task[t].op \in {"create", "uiCommit", "abortCommit"} => Holds(t, "process")
         /\ "process" \in Keys
<1>1. task[t].op \in RowOps => task[t].id \in Ids /\ task[t].id \in Keys /\ task[t].id # "process"
    BY FutureAssumption DEF IInv, TaskOK, MeOK, Ids, Keys
<1>2. "process" \in Keys
    BY DEF Keys
<1>3. \A k \in Keys : Keeps(task[t], k) => Holds(t, k)
    BY DEF IInv, Locks
<1>4. task[t].op \in {"launch", "launched", "act", "reschedule"} => Holds(t, task[t].id)
    BY <1>1, <1>3 DEF Keeps, RowOps
<1> QED BY <1>1, <1>2, <1>3, <1>4 DEF Keeps

\* An operation about a row ends.
LEMMA FinishRow ==
  ASSUME IInv, NEW t \in Tasks, Finish(t, {task[t].id}), now' = now, Holds(t, task[t].id),
         task[t].op \in RowOps \ ProcessOps
  PROVE  \E m : Moves(t, m)
BY FinishMoves, RowLocks DEF Wants

\* An operation about a row and the process ends.
LEMMA FinishBoth ==
  ASSUME IInv, NEW t \in Tasks, Finish(t, {task[t].id, "process"}), now' = now, Holds(t, "process"),
         task[t].op \in {"act", "reschedule"}
  PROVE  \E m : Moves(t, m)
<1>1. task[t].op \in RowOps
    BY DEF RowOps
<1>2. Holds(t, task[t].id) /\ {task[t].id, "process"} \in SUBSET Keys
    BY <1>1, RowLocks
<1> QED BY <1>1, <1>2, FinishMoves DEF Wants

\* An operation about the process ends.
LEMMA FinishProcess ==
  ASSUME IInv, NEW t \in Tasks, Finish(t, {"process"}), now' = now, Holds(t, "process"),
         task[t].op \in ProcessOps \ RowOps
  PROVE  \E m : Moves(t, m)
BY FinishMoves, RowLocks DEF Wants

\* The scheduler.
LEMMA SchedulerMoves ==
  ASSUME IInv, TickStage \/ (\E id \in Ids : TickItem(id)) \/ AdvanceCron \/ ExecuteDue
  PROVE  \E m : Moves("tick", m)
<1> DEFINE me == task["tick"]
<1>1. "tick" \in Tasks /\ TaskOK("tick") /\ me \in TaskRecord /\ me.asOf <= now
    BY DEF IInv, TaskOK, MeOK, Tasks
<1>7. /\ now \in 0..MaxTime /\ MaxTime \in Nat /\ now \in Nat
      /\ task \in [Tasks -> TaskRecord] /\ DOMAIN rows \subseteq Ids
    BY FutureAssumption DEF IInv, ClockType, TableType
<1>8. me.asOf \in 0..MaxTime
    BY <1>1 DEF TaskRecord
<1>9. now' = now
    BY DEF TickStage, TickItem, AdvanceCron, ExecuteDue
<1>2. /\ now' = now /\ now \in 0..MaxTime /\ MaxTime \in Nat /\ now \in Nat
      /\ task \in [Tasks -> TaskRecord] /\ DOMAIN rows \subseteq Ids
      /\ me.asOf \in 0..MaxTime /\ me.asOf \in Nat
    BY <1>7, <1>8, <1>9
<1>3. CASE TickStage
  <2>1. PICK stage \in {"boot", "missed", "blocked", "runnable", "idle"}, asOf \in {0, now, me.asOf}, todo \in SUBSET Ids :
           TickSets(stage, asOf, todo)
      BY <1>2, <1>3 DEF TickStage, Missed, BlockedCronDue, RunnableDue, Due
  <2> DEFINE m == [Idle EXCEPT !.stage = stage, !.asOf = asOf, !.todo = todo]
  <2>2. asOf \in 0..MaxTime /\ asOf <= now
      BY <1>1, <1>2
  <2>3. m \in TaskRecord /\ m.op = "idle" /\ m.asOf <= now
      BY <2>2 DEF Idle, TaskRecord
  <2>4. MeOK("tick", m)
      BY <2>3 DEF MeOK, TickOps, RowOps
  <2>5. \A k \in Keys : ~Wants(m, k) /\ ~Keeps(m, k) /\ ~Wants(me, k)
      BY <1>3, <2>3 DEF Wants, Keeps, RowOps, ProcessOps, TickStage
  <2>6. Stays("tick", m)
      BY <1>3, <2>5 DEF Stays, TickStage
  <2>7. Moves("tick", m)
      BY <1>2, <2>1, <2>3, <2>4, <2>6 DEF Moves, TickSets
  <2> QED BY <2>7
<1>4. ASSUME NEW id \in Ids, TickItem(id) PROVE \E m : Moves("tick", m)
  <2>0. me.op = "idle" /\ \A k \in Keys : ~Wants(me, k)
      BY <1>4 DEF TickItem, Wants, RowOps, ProcessOps
  <2>1. CASE queue' = queue /\ task' = [task EXCEPT !["tick"].todo = @ \ {id}]
    <3> DEFINE m == [me EXCEPT !.todo = @ \ {id}]
    <3>1. task' = [task EXCEPT !["tick"] = m]
        BY <1>1, <1>2, <2>1
    <3>2. m \in TaskRecord /\ m.op = "idle" /\ m.asOf = me.asOf
        BY <1>1, <2>0 DEF TaskRecord
    <3>3. MeOK("tick", m)
        BY <1>1, <3>2 DEF MeOK, TickOps, RowOps
    <3>4. \A k \in Keys : ~Wants(m, k) /\ ~Keeps(m, k)
        BY <3>2 DEF Wants, Keeps, RowOps, ProcessOps
    <3>5. Stays("tick", m)
        BY <2>0, <2>1, <3>4 DEF Stays
    <3>6. Moves("tick", m)
        BY <1>2, <3>1, <3>2, <3>3, <3>5 DEF Moves
    <3> QED BY <3>6
  <2>2. ASSUME NEW op \in {"execute", "advance"}, Enter("tick", id),
               task' = [task EXCEPT !["tick"].todo = @ \ {id}, !["tick"].id = id, !["tick"].op = op]
        PROVE  \E m : Moves("tick", m)
    <3> DEFINE m == [me EXCEPT !.todo = @ \ {id}, !.id = id, !.op = op]
    <3>1. task' = [task EXCEPT !["tick"] = m]
        BY <1>1, <1>2, <2>2
    <3>2. op \in {"idle"} \cup RowOps \cup ProcessOps /\ id \in Ids \cup {"none"}
        BY DEF RowOps
    <3>3. m \in TaskRecord /\ m.op = op /\ m.asOf = me.asOf /\ m.id = id
        BY <1>1, <3>2 DEF TaskRecord
    <3>4. MeOK("tick", m)
        BY <1>1, <3>3 DEF MeOK, TickOps, RowOps
    <3>5. \A k \in Keys : (Wants(m, k) <=> k = id) /\ ~Keeps(m, k)
        BY <3>3 DEF Wants, Keeps, RowOps, ProcessOps
    <3>6. Joins("tick", m, id) /\ id \in Keys
        BY <2>0, <2>2, <3>5, FutureAssumption DEF Joins, Keys
    <3>7. Moves("tick", m)
        BY <1>2, <3>1, <3>3, <3>4, <3>6 DEF Moves
    <3> QED BY <3>7
  <2> QED BY <1>4, <2>1, <2>2 DEF TickItem
<1>5. CASE AdvanceCron
  <2>1. Finish("tick", {me.id}) /\ Holds("tick", me.id) /\ me.op \in RowOps \ ProcessOps
      BY <1>5 DEF AdvanceCron, RowOps, ProcessOps
  <2> QED BY <1>1, <1>2, <2>1, FinishRow
<1>6. CASE ExecuteDue
  <2>0. Holds("tick", me.id) /\ me.op = "execute" /\ me.id \in Ids /\ me.id \in Keys /\ me.id # "process" /\ "process" \in Keys
      BY <1>1, <1>6, RowLocks DEF ExecuteDue, RowOps
  <2>1. CASE Finish("tick", {me.id})
    <3>1. me.op \in RowOps \ ProcessOps
        BY <2>0 DEF RowOps, ProcessOps
    <3> QED BY <1>1, <1>2, <2>0, <2>1, <3>1, FinishRow
  <2>2. CASE ~Finish("tick", {me.id})
    <3> DEFINE op == IF me.id \in Acts THEN "act" ELSE "launch"
               m == [me EXCEPT !.seen = rows[me.id].next, !.op = op]
    <3>1. /\ me.id \in RunnableDue(me.asOf)
          /\ task' = [task EXCEPT !["tick"].seen = rows[me.id].next, !["tick"].op = op]
          /\ IF me.id \in Acts THEN Enter("tick", "process") ELSE queue' = queue
        BY <1>6, <2>2 DEF ExecuteDue
    <3>2. rows[me.id].next \in Nat /\ rows[me.id].next <= me.asOf
        BY <3>1, TimesFacts DEF RunnableDue, Due, IInv, TableType, Row
    <3>3. task' = [task EXCEPT !["tick"] = m]
        BY <1>1, <1>2, <3>1
    <3>4. op \in {"idle"} \cup RowOps \cup ProcessOps
        BY DEF RowOps
    <3>5. m \in TaskRecord /\ m.op = op /\ m.asOf = me.asOf /\ m.id = me.id /\ m.seen = rows[me.id].next
        BY <1>1, <3>2, <3>4 DEF TaskRecord
    <3>6. MeOK("tick", m)
        BY <1>1, <2>0, <3>2, <3>5 DEF MeOK, TickOps, RowOps, Ids
    <3>7. CASE me.id \in Acts
      <4>1. m.op = "act" /\ Enter("tick", "process")
          BY <3>1, <3>5, <3>7
      <4>2. Joins("tick", m, "process")
          BY <2>0, <3>5, <4>1, FutureAssumption DEF Joins, Wants, Keeps, RowOps, ProcessOps, Ids
      <4>3. Moves("tick", m)
          BY <1>2, <2>0, <3>3, <3>5, <3>6, <4>1, <4>2 DEF Moves
      <4> QED BY <4>3
    <3>8. CASE me.id \notin Acts
      <4>1. m.op = "launch" /\ queue' = queue
          BY <3>1, <3>5, <3>8
      <4>2. Stays("tick", m)
          BY <2>0, <3>5, <4>1 DEF Stays, Wants, Keeps, RowOps, ProcessOps
      <4>3. Moves("tick", m)
          BY <1>2, <3>3, <3>5, <3>6, <4>1, <4>2 DEF Moves
      <4> QED BY <4>3
    <3> QED BY <3>7, <3>8
  <2> QED BY <2>1, <2>2
<1> QED BY <1>3, <1>4, <1>5, <1>6

\* A task that goes on to op under the locks it has.
LEMMA GoMoves ==
  ASSUME IInv, NEW t \in Tasks, NEW op, Go(t, op), queue' = queue, now' = now,
         \/ task[t].op = "launch" /\ op = "launched"
         \/ /\ task[t].op \in {"schedule", "ui"} /\ Holds(t, "process") /\ t # "tick"
            /\ op \in {"create", "uiCommit"}
            /\ Scheduled = {} /\ status = "open" /\ UNCHANGED <<rows, status>>
  PROVE  \E m : Moves(t, m)
<1> DEFINE m == [task[t] EXCEPT !.op = op]
<1>1. task[t] \in TaskRecord /\ MeOK(t, task[t]) /\ task \in [Tasks -> TaskRecord]
    BY DEF IInv, TaskOK, MeOK
<1>2. op \in {"idle"} \cup RowOps \cup ProcessOps
    BY DEF RowOps, ProcessOps
<1>3. m \in TaskRecord /\ m.op = op /\ m.asOf = task[t].asOf /\ m.id = task[t].id /\ m.seen = task[t].seen
    BY <1>1, <1>2 DEF TaskRecord
<1>4. task' = [task EXCEPT ![t] = m]
    BY <1>1 DEF Go
<1>5. MeOK(t, m)
    BY <1>1, <1>3 DEF MeOK, TickOps, RowOps, ProcessOps
<1>6. Stays(t, m)
    BY <1>3, RowLocks DEF Stays, Wants, Keeps, RowOps, ProcessOps
<1>7. Moves(t, m)
    BY <1>3, <1>4, <1>5, <1>6 DEF Moves
<1> QED BY <1>7

\* An execution.
LEMMA ExecutesMoves ==
  ASSUME IInv, NEW t \in Tasks, Executes(t)
  PROVE  \E m : Moves(t, m)
<1>1. CASE LaunchCommits(t)
    BY <1>1, GoMoves DEF LaunchCommits
<1>2. CASE LaunchReported(t) \/ LaunchFails(t)
  <2>1. task[t].op \in {"launch", "launched"} /\ Finish(t, {task[t].id}) /\ now' = now
      BY <1>2 DEF LaunchReported, LaunchFails
  <2>2. Holds(t, task[t].id) /\ task[t].op \in RowOps \ ProcessOps
      BY <2>1, RowLocks DEF RowOps, ProcessOps
  <2> QED BY <2>1, <2>2, FinishRow
<1>3. CASE ActionRefused(t) \/ ActionCommits(t) \/ ActionFails(t)
  <2>1. task[t].op = "act" /\ Finish(t, {task[t].id, "process"}) /\ now' = now /\ Holds(t, "process")
      BY <1>3 DEF ActionRefused, ActionCommits, ActionFails
  <2> QED BY <2>1, FinishBoth
<1> QED BY <1>1, <1>2, <1>3 DEF Executes

\* A request is made.
LEMMA AskMoves ==
  ASSUME IInv, NEW u \in Users, AskProcess(u) \/ AskRow(u)
  PROVE  \E m : Moves(u, m)
<1>2. /\ now \in 0..MaxTime /\ now \in Nat /\ u \in Tasks /\ u # "tick" /\ used \subseteq Ids /\ "process" \notin Ids
    BY FutureAssumption DEF IInv, ClockType, TableType, Tasks, Ids
<1> DEFINE Requests == {"schedule", "ui", "abort", "cancel", "now", "revise"}
<1>1. PICK op \in Requests, id \in Ids \cup {"none"}, key \in Keys :
           /\ Ask(u, op, id, key)
           /\ \/ op \in {"schedule", "ui", "abort"} /\ id = "none" /\ key = "process"
              \/ op \in {"cancel", "now", "revise"} /\ id \in Ids /\ key = id
    BY <1>2 DEF AskProcess, AskRow, Keys
<1>3. op \in {"idle"} \cup RowOps \cup ProcessOps
    BY DEF RowOps, ProcessOps
<1> DEFINE m == [Idle EXCEPT !.op = op, !.id = id, !.asOf = now]
<1>10. Idle \in TaskRecord /\ now <= now
    BY <1>2, FutureAssumption DEF TaskRecord, Idle
<1>4. m \in TaskRecord /\ m.op = op /\ m.asOf = now /\ m.id = id /\ now <= now
    BY <1>2, <1>3, <1>10 DEF TaskRecord
<1>5. MeOK(u, m)
    BY <1>1, <1>2, <1>4 DEF MeOK, RowOps
<1>6. \A k \in Keys : ~Wants(task[u], k)
    BY <1>1 DEF Ask, Wants, RowOps, ProcessOps
<1>7. \A k \in Keys : (Wants(m, k) <=> k = key) /\ ~Keeps(m, k)
    BY <1>1, <1>4 DEF Wants, Keeps, RowOps, ProcessOps
<1>8. Joins(u, m, key)
    BY <1>1, <1>3, <1>4, <1>6, <1>7 DEF Joins, Ask
<1>9. Moves(u, m)
    BY <1>1, <1>3, <1>4, <1>5, <1>8 DEF Moves, Ask
<1> QED BY <1>9

\* A request that goes on to an operation on its row, asking for the lock of
\* the process when the row is that of an action.
LEMMA RowMoves ==
  ASSUME IInv, NEW u \in Users, NEW op, NEW seen \in Nat, now' = now,
         task' = [task EXCEPT ![u].seen = seen, ![u].op = op], Holds(u, task[u].id),
         task[u].op \in {"now", "revise"},
         \/ op = "launch" /\ task[u].id \in Launches /\ queue' = queue
         \/ op = "act" /\ task[u].id \in Acts /\ Enter(u, "process")
         \/ op = "reschedule" /\ task[u].id \in Acts /\ Enter(u, "process") /\ seen <= now + 1
  PROVE  \E m : Moves(u, m)
<1> DEFINE m == [task[u] EXCEPT !.seen = seen, !.op = op]
<1>1. u \in Tasks /\ u # "tick"
    BY FutureAssumption DEF Tasks
<1>2. /\ task[u] \in TaskRecord /\ MeOK(u, task[u]) /\ task \in [Tasks -> TaskRecord]
    BY <1>1 DEF IInv, TaskOK, MeOK
<1>3. op \in {"idle"} \cup RowOps \cup ProcessOps
    BY DEF RowOps, ProcessOps
<1>4. m \in TaskRecord /\ m.op = op /\ m.asOf = task[u].asOf /\ m.id = task[u].id /\ m.seen = seen
    BY <1>2, <1>3 DEF TaskRecord
<1>5. task' = [task EXCEPT ![u] = m]
    BY <1>1, <1>2
<1>6. MeOK(u, m)
    BY <1>1, <1>2, <1>4 DEF MeOK, RowOps
<1>7. task[u].id \in Keys /\ task[u].id # "process" /\ "process" \in Keys /\ "process" \notin Ids
    BY <1>1, RowLocks, FutureAssumption DEF RowOps, Ids
<1>8. CASE queue' = queue /\ op = "launch"
  <2>1. Stays(u, m)
      BY <1>4, <1>7, <1>8 DEF Stays, Wants, Keeps, RowOps, ProcessOps
  <2>2. Moves(u, m)
      BY <1>4, <1>5, <1>6, <1>8, <2>1 DEF Moves
  <2> QED BY <2>2
<1>9. CASE op \in {"act", "reschedule"} /\ Enter(u, "process")
  <2>1. Joins(u, m, "process")
      BY <1>4, <1>7, <1>9 DEF Joins, Wants, Keeps, RowOps, ProcessOps
  <2>2. Moves(u, m)
      BY <1>4, <1>5, <1>6, <1>7, <1>9, <2>1 DEF Moves
  <2> QED BY <2>2
<1> QED BY <1>8, <1>9

\* A request is handled.
LEMMA RequestMoves ==
  ASSUME IInv, NEW u \in Users, RequestStep(u)
  PROVE  \E m : Moves(u, m)
<1> DEFINE me == task[u]
<1>1. u \in Tasks /\ u # "tick"
    BY FutureAssumption DEF Tasks
<1>2. CASE Executes(u)
    BY <1>1, <1>2, ExecutesMoves
<1>3. CASE ScheduleAction(u) \/ OrdinaryAction(u)
  <2>1. now' = now /\ Holds(u, "process") /\ me.op \in {"schedule", "ui"} /\ UNCHANGED <<rows, status>>
      BY <1>3 DEF ScheduleAction, OrdinaryAction
  <2>2. me.op \in ProcessOps \ RowOps
      BY <2>1 DEF ProcessOps, RowOps
  <2>3. CASE Finish(u, {"process"})
      BY <1>1, <2>1, <2>2, <2>3, FinishProcess
  <2>4. CASE ~Finish(u, {"process"})
    <3>1. PICK op \in {"create", "uiCommit"} : Go(u, op) /\ queue' = queue /\ Scheduled = {} /\ status = "open"
        BY <1>3, <2>4 DEF ScheduleAction, OrdinaryAction
    <3> QED BY <1>1, <2>1, <3>1, GoMoves
  <2> QED BY <2>3, <2>4
<1>4. CASE CreateAction(u) \/ OrdinaryCommits(u) \/ AbortCommits(u)
  <2>1. now' = now /\ me.op \in {"create", "uiCommit", "abortCommit"} /\ Finish(u, {"process"})
      BY <1>4 DEF CreateAction, OrdinaryCommits, AbortCommits
  <2>2. Holds(u, "process") /\ me.op \in ProcessOps \ RowOps
      BY <1>1, <2>1, RowLocks DEF ProcessOps, RowOps
  <2> QED BY <1>1, <2>1, <2>2, FinishProcess
<1>5. CASE Abort(u)
  <2>1. now' = now /\ Holds(u, "process") /\ me.op = "abort" /\ UNCHANGED <<rows, status>>
      BY <1>5 DEF Abort
  <2>2. CASE Finish(u, {"process"})
    <3>1. me.op \in ProcessOps \ RowOps
        BY <2>1 DEF ProcessOps, RowOps
    <3> QED BY <1>1, <2>1, <2>2, <3>1, FinishProcess
  <2>3. CASE ~Finish(u, {"process"})
    <3> DEFINE m == [me EXCEPT !.op = "abortCommit", !.todo = Scheduled]
    <3>1. /\ task' = [task EXCEPT ![u].op = "abortCommit", ![u].todo = Scheduled]
          /\ queue' = queue
        BY <1>5, <2>3 DEF Abort
    <3>2. me \in TaskRecord /\ MeOK(u, me) /\ task \in [Tasks -> TaskRecord]
        BY <1>1 DEF IInv, TaskOK, MeOK
    <3>3. Scheduled \in SUBSET Ids /\ "abortCommit" \in {"idle"} \cup RowOps \cup ProcessOps
        BY DEF Scheduled, Ids, ProcessOps
    <3>4. m \in TaskRecord /\ m.op = "abortCommit" /\ m.asOf = me.asOf /\ m.todo = Scheduled
        BY <3>2, <3>3 DEF TaskRecord
    <3>5. MeOK(u, m)
        BY <1>1, <3>2, <3>4 DEF MeOK, RowOps
    <3>6. Stays(u, m)
        BY <2>1, <3>1, <3>4 DEF Stays, Wants, Keeps, RowOps, ProcessOps
    <3>7. task' = [task EXCEPT ![u] = m]
        BY <1>1, <3>1, <3>2
    <3>8. Moves(u, m)
        BY <2>1, <3>4, <3>5, <3>6, <3>7 DEF Moves
    <3> QED BY <3>8
  <2> QED BY <2>2, <2>3
<1>6. CASE Cancel(u) \/ ReviseLaunch(u)
  <2>1. now' = now /\ Holds(u, me.id) /\ Finish(u, {me.id}) /\ me.op \in {"cancel", "revise"}
      BY <1>6 DEF Cancel, ReviseLaunch
  <2>2. me.op \in RowOps \ ProcessOps
      BY <2>1 DEF ProcessOps, RowOps
  <2> QED BY <1>1, <2>1, <2>2, FinishRow
<1>7. CASE RunNow(u) \/ ReviseAction(u)
  <2>1. now' = now /\ Holds(u, me.id) /\ me.op \in {"now", "revise"} /\ now \in Nat
      BY <1>7, FutureAssumption DEF RunNow, ReviseAction, IInv, ClockType
  <2>2. me.op \in RowOps \ ProcessOps /\ me.op \in RowOps
      BY <2>1 DEF ProcessOps, RowOps
  <2>3. CASE Finish(u, {me.id})
      BY <1>1, <2>1, <2>2, <2>3, FinishRow
  <2>4. CASE RunNow(u) /\ ~Finish(u, {me.id})
    <3>1. /\ me.id \in DOMAIN rows
          /\ task' = [task EXCEPT ![u].seen = rows[me.id].next, ![u].op = IF me.id \in Acts THEN "act" ELSE "launch"]
          /\ IF me.id \in Acts THEN Enter(u, "process") ELSE queue' = queue
        BY <2>4 DEF RunNow
    <3>2. rows[me.id].next \in Nat
        BY <3>1, TimesFacts DEF IInv, TableType, Row
    <3>3. me.id \in Acts \/ me.id \in Launches
        BY <1>1, <2>2, RowLocks DEF Ids
    <3> QED BY <2>1, <3>1, <3>2, <3>3, RowMoves
  <2>5. CASE ReviseAction(u) /\ ~Finish(u, {me.id})
    <3>1. /\ task' = [task EXCEPT ![u].op = "reschedule", ![u].seen = now + 1]
          /\ Enter(u, "process") /\ me.id \in Acts
        BY <2>5 DEF ReviseAction
    <3>2. task \in [Tasks -> TaskRecord] /\ me \in TaskRecord
        BY <1>1 DEF IInv
    <3>3. task' = [task EXCEPT ![u].seen = now + 1, ![u].op = "reschedule"]
        BY <1>1, <3>1, <3>2 DEF TaskRecord
    <3>4. now + 1 \in Nat /\ now + 1 <= now + 1
        BY <2>1
    <3> QED BY <2>1, <3>1, <3>3, <3>4, RowMoves
  <2> QED BY <1>7, <2>3, <2>4, <2>5
<1>8. CASE Reschedule(u)
  <2>1. me.op = "reschedule" /\ Finish(u, {me.id, "process"}) /\ now' = now /\ Holds(u, "process")
      BY <1>8 DEF Reschedule
  <2> QED BY <1>1, <2>1, FinishBoth
<1> QED BY <1>2, <1>3, <1>4, <1>5, <1>6, <1>7, <1>8 DEF RequestStep

\* Who moves in a step: one task, none, or all of them when the server restarts.
LEMMA WhoMoves ==
  ASSUME IInv, Next
  PROVE  \/ \E t \in Tasks : \E m : Moves(t, m)
         \/ UNCHANGED <<task, queue>>
         \/ Restart
<1>1. "tick" \in Tasks /\ \A u \in Users : u \in Tasks
    BY DEF Tasks
<1>2. CASE SchedulerStep
    BY <1>1, <1>2, SchedulerMoves, ExecutesMoves DEF SchedulerStep
<1>3. CASE \E u \in Users : AskProcess(u) \/ AskRow(u) \/ RequestStep(u)
    BY <1>1, <1>3, AskMoves, RequestMoves
<1>4. CASE (\E u \in Users : \E id \in Launches : CreateLaunch(u, id)) \/ ProcessFinishes \/ TimePasses
           \/ \E id \in Ids : ReconcileModel(id)
    BY <1>4 DEF CreateLaunch, ProcessFinishes, TimePasses, ReconcileModel
<1> QED BY <1>2, <1>3, <1>4 DEF Next

\* What a step does to the table, the ids and the history.
LEMMA WhatChanges ==
  ASSUME IInv, Next
  PROVE  \/ Onward(rows') /\ UNCHANGED <<used, runs, now>>
         \/ \E t \in Tasks : LaunchCommits(t) \/ ActionCommits(t)
         \/ \E u \in Users : \/ CreateAction(u) \/ ReviseLaunch(u) \/ Reschedule(u)
                             \/ \E id \in Launches : CreateLaunch(u, id)
         \/ TimePasses
<1>1. "tick" \in Tasks /\ \A u \in Users : u \in Tasks
    BY DEF Tasks
<1>2. CASE SchedulerStep
    BY <1>1, <1>2, SchedulerOnward, ExecutesOnward DEF SchedulerStep, Executes
<1>3. ASSUME NEW u \in Users,
             \/ AskProcess(u) \/ AskRow(u) \/ RequestStep(u)
             \/ \E id \in Launches : CreateLaunch(u, id)
      PROVE  \/ Onward(rows') /\ UNCHANGED <<used, runs, now>>
             \/ LaunchCommits(u) \/ ActionCommits(u)
             \/ CreateAction(u) \/ ReviseLaunch(u) \/ Reschedule(u)
             \/ \E id \in Launches : CreateLaunch(u, id)
    BY <1>1, <1>3, RequestOnward, ExecutesOnward DEF RequestStep, Executes
<1>4. CASE ProcessFinishes \/ Restart \/ \E id \in Ids : ReconcileModel(id)
    BY <1>4, ServerOnward
<1> QED BY <1>1, <1>2, <1>3, <1>4 DEF Next

\* The holder of a lock is before everybody else in its queue.
LEMMA HolderIsFirst ==
  ASSUME IInv, NEW t \in Tasks, NEW u \in Tasks, t # u, NEW k \in Keys, Holds(t, k), Waits(u, k)
  PROVE  Before(t, u, k)
<1>1. queue[k] \in Seq(Tasks) /\ queue[k] # <<>>
    BY DEF IInv, Locks, Holds
<1>2. 1 \in DOMAIN queue[k] /\ queue[k][1] = t /\ \A i \in DOMAIN queue[k] : i \in Nat /\ i >= 1
    BY <1>1 DEF Holds
<1>3. PICK i \in DOMAIN queue[k] : queue[k][i] = u
    BY DEF Waits
<1>4. i # 1 /\ 1 < i
    BY <1>2, <1>3
<1> QED BY <1>2, <1>3, <1>4 DEF Before

\* A commit adds the occurrence of its row to the history, and the row goes or
\* gets a later one; a request to revise the row that waits for its lock was
\* made when the occurrence was due.
LEMMA CommitFacts ==
  ASSUME IInv, NEW t \in Tasks, LaunchCommits(t) \/ ActionCommits(t)
  PROVE  /\ Onward(rows') /\ UNCHANGED <<used, now>>
         /\ \E id \in DOMAIN rows, last \in BOOLEAN :
              /\ runs' = [runs EXCEPT ![id] = Append(@, [at |-> rows[id].next, last |-> last])]
              /\ id \in Acts => last
              /\ id \in DOMAIN rows' =>
                   /\ ~last /\ rows'[id].next > rows[id].next /\ rows[id].next <= now
                   /\ \A u \in Users : Wants(task[u], id) => u # t /\ rows[id].next <= task[u].asOf
<1> DEFINE me == task[t]
<1>1. TableType /\ TaskOK(t) /\ me \in TaskRecord
    BY DEF IInv, TaskOK, MeOK
<1>2. UNCHANGED <<used, now>>
    BY DEF LaunchCommits, ActionCommits
<1>3. CASE ActionCommits(t)
  <2>1. /\ me.id \in Scheduled /\ rows' = Without(me.id)
        /\ runs' = [runs EXCEPT ![me.id] = Append(@, [at |-> rows[me.id].next, last |-> TRUE])]
      BY <1>3 DEF ActionCommits, Refused
  <2>2. me.id \in DOMAIN rows /\ Onward(rows') /\ me.id \notin DOMAIN rows'
      BY <1>1, <2>1, WithoutFacts DEF Scheduled
  <2> QED BY <1>2, <2>1, <2>2
<1>4. CASE LaunchCommits(t)
  <2> DEFINE id == me.id
             last == t # "tick" \/ ~rows[id].cron
  <2>1. /\ Current(id, me.seen) /\ me.op = "launch"
        /\ runs' = [runs EXCEPT ![id] = Append(@, [at |-> me.seen, last |-> last])]
        /\ rows' = IF rows[id].cron /\ t = "tick" THEN Moved(id, me.seen, CronAfter(me.seen)) ELSE Consumed(id, me.seen)
      BY <1>4, Zenon DEF LaunchCommits, CommitLaunch
  <2>2. /\ id \in DOMAIN rows /\ rows[id].next = me.seen /\ id \in Launches /\ id \notin Acts /\ id \in Ids
        /\ rows[id].next \in Nat
      BY <1>1, <2>1, FutureAssumption, TimesFacts DEF Current, TaskOK, MeOK, Ids, TableType, Row
  <2>3. last \in BOOLEAN
      OBVIOUS
  <2>4. CASE rows[id].cron /\ t = "tick"
    <3>1. rows' = [rows EXCEPT ![id].next = CronAfter(me.seen)] /\ ~last
        BY <2>1, <2>4 DEF Moved
    <3>2. me.seen <= me.asOf /\ me.asOf <= now /\ me.asOf \in 0..MaxTime /\ me.asOf \in Nat
        BY <1>1, <2>1, <2>4, FutureAssumption DEF TaskOK, MeOK, TaskRecord
    <3>3. me.seen \in 0..MaxTime /\ me.seen \in Nat /\ now \in Nat
        BY <2>2, <3>2, FutureAssumption DEF IInv, ClockType
    <3>4. CronAfter(me.seen) \in Times /\ CronAfter(me.seen) > me.seen /\ Times \subseteq Nat
        BY <3>3, TimesFacts
    <3>5. CronAfter(me.seen) >= rows[id].next /\ rows[id].next <= now /\ CronAfter(me.seen) \in Nat
      <4>1. CronAfter(me.seen) \in Nat
          BY <3>4
      <4> QED BY <2>2, <3>2, <3>3, <3>4, <4>1
    <3>6. Onward(rows')
        BY <1>1, <2>2, <3>1, <3>4, <3>5, LaterFacts
    <3>7. rows'[id].next = CronAfter(me.seen)
        BY <1>1, <2>2, <3>1 DEF TableType, Row
    <3>8. ASSUME NEW u \in Users, Wants(task[u], id) PROVE u # t /\ rows[id].next <= task[u].asOf
      <4>1. u # t /\ u \in Tasks /\ id \in Keys
          BY <2>2, <2>4, FutureAssumption DEF Tasks, Keys
      <4>2. Holds(t, id) /\ Waits(u, id)
          BY <2>1, <3>8, <4>1, RowLocks DEF IInv, Locks
      <4>3. me.asOf <= task[u].asOf
          BY <2>2, <2>4, <4>1, <4>2, HolderIsFirst DEF IInv, Fifo
      <4>4. task[u].asOf \in Nat
          BY <4>1, FutureAssumption DEF IInv, TaskRecord
      <4> QED BY <2>2, <3>2, <4>1, <4>3, <4>4
    <3>9. runs' = [runs EXCEPT ![id] = Append(@, [at |-> rows[id].next, last |-> last])]
        BY <2>1, <2>2
    <3>10. rows'[id].next > rows[id].next /\ rows[id].next <= now
        BY <2>2, <3>4, <3>5, <3>7
    <3>11. \A u \in Users : Wants(task[u], id) => u # t /\ rows[id].next <= task[u].asOf
        BY <3>8
    <3> HIDE DEF id, last
    <3> QED BY <1>2, <2>2, <2>3, <3>1, <3>6, <3>9, <3>10, <3>11
  <2>5. CASE ~(rows[id].cron /\ t = "tick")
    <3>1. rows' = Without(id)
        BY <2>1, <2>5 DEF Consumed
    <3>2. Onward(rows') /\ id \notin DOMAIN rows'
        BY <1>1, <3>1, WithoutFacts
    <3> QED BY <1>2, <2>1, <2>2, <2>3, <3>2
  <2> QED BY <2>4, <2>5
<1> QED BY <1>3, <1>4

\* A schedule that is asked for at time t.
LEMMA WantedFacts ==
  ASSUME NEW id \in Launches, NEW t \in 0..MaxTime, now \in 0..MaxTime, NEW row \in Wanted(id, t)
  PROVE  row \in Row /\ (row.next = CronAfter(t) \/ row.next = now + 1)
<1>1. now + 1 \in Times /\ CronAfter(t) \in Times /\ Evaluations \subseteq BOOLEAN
    BY TimesFacts, FutureAssumption DEF Evaluations
<1>2. row \in Row
    BY <1>1 DEF Wanted, Row
<1>4. row.next = CronAfter(t) \/ row.next = now + 1
    BY DEF Wanted
<1> QED BY <1>2, <1>4

\* What is created gets a new id, and a time after that of the request.
LEMMA CreateFacts ==
  ASSUME IInv, NEW u \in Users, CreateAction(u) \/ \E id \in Launches : CreateLaunch(u, id)
  PROVE  /\ UNCHANGED <<runs, now>>
         /\ \E id \in Ids \ used, row \in Row :
              rows' = With(id, row) /\ used' = used \cup {id} /\ (row.cron => id \in Launches)
<1>1. u \in Tasks /\ now \in 0..MaxTime /\ task[u].asOf \in 0..MaxTime
    BY DEF IInv, ClockType, TaskRecord, Tasks
<1>2. now + 1 \in Times /\ CronAfter(now) \in Times /\ task[u].asOf + 1 \in Times
    BY <1>1, TimesFacts
<1>3. Evaluations \subseteq BOOLEAN
    BY FutureAssumption DEF Evaluations
<1>4. CASE CreateAction(u)
  <2>1. PICK id \in Acts \ used, b \in Evaluations :
           used' = used \cup {id} /\ rows' = With(id, [cron |-> FALSE, next |-> task[u].asOf + 1, blocked |-> b])
      BY <1>4 DEF CreateAction
  <2>2. [cron |-> FALSE, next |-> task[u].asOf + 1, blocked |-> b] \in Row
      BY <1>2, <1>3 DEF Row
  <2> QED BY <1>4, <2>1, <2>2 DEF CreateAction, Ids
<1>5. ASSUME NEW id \in Launches, CreateLaunch(u, id)
      PROVE  /\ UNCHANGED <<runs, now>> /\ id \in Ids \ used
             /\ \E row \in Row : rows' = With(id, row) /\ used' = used \cup {id} /\ (row.cron => id \in Launches)
  <2>1. PICK row \in Wanted(id, now) : rows' = With(id, row)
      BY <1>5 DEF CreateLaunch
  <2>2. row \in Row
      BY <1>1, <2>1, WantedFacts
  <2> QED BY <1>5, <2>1, <2>2 DEF CreateLaunch, Ids
<1> QED BY <1>4, <1>5

\* What is revised keeps its id, and gets a time after that of the request.
LEMMA ReviseFacts ==
  ASSUME IInv, NEW u \in Users, ReviseLaunch(u) \/ Reschedule(u), rows' # rows
  PROVE  /\ UNCHANGED <<runs, now, used>>
         /\ \E id \in DOMAIN rows, row \in Row :
              /\ rows' = [rows EXCEPT ![id] = row] /\ (row.cron => id \in Launches)
              /\ id \in Acts \/ (task[u].op = "revise" /\ task[u].id = id /\ (row.next > task[u].asOf \/ row.next > now))
<1> DEFINE me == task[u]
<1>1. u \in Tasks /\ now \in 0..MaxTime /\ me.asOf \in 0..MaxTime /\ TableType /\ TaskOK(u) /\ me \in TaskRecord
    BY DEF IInv, ClockType, TaskRecord, Tasks
<1>2. /\ now + 1 \in Times /\ now + 1 > now
      /\ CronAfter(me.asOf) \in Times /\ CronAfter(me.asOf) > me.asOf
    BY <1>1, TimesFacts
<1>3. Evaluations \subseteq BOOLEAN
    BY FutureAssumption DEF Evaluations
<1>4. CASE ReviseLaunch(u)
  <2>1. PICK row \in Wanted(me.id, me.asOf) : rows' = With(me.id, row)
      BY <1>4 DEF ReviseLaunch
  <2>2. me.id \in DOMAIN rows /\ me.op = "revise" /\ me.id \in Launches
      BY <1>4 DEF ReviseLaunch
  <2>6. row \in Row /\ (row.next = CronAfter(me.asOf) \/ row.next = now + 1)
      BY <1>1, <2>2, WantedFacts
  <2>3. row \in Row /\ (row.next > me.asOf \/ row.next > now)
      BY <1>2, <2>6
  <2>4. rows' = [rows EXCEPT ![me.id] = row]
      BY <1>1, <2>1, <2>2 DEF With, TableType
  <2> QED BY <1>4, <2>2, <2>3, <2>4 DEF ReviseLaunch
<1>5. CASE Reschedule(u)
  <2>1. PICK b \in Evaluations : rows' = [rows EXCEPT ![me.id].next = me.seen, ![me.id].blocked = b]
      BY <1>5 DEF Reschedule
  <2>2. me.id \in DOMAIN rows /\ me.id \in Acts /\ me.op = "reschedule"
      BY <1>5 DEF Reschedule, Refused, Scheduled
  <2>3. me.seen \in Nat /\ me.seen <= now + 1
      BY <1>1, <2>2 DEF TaskOK, MeOK, TaskRecord
  <2>4. me.seen \in Times
      BY <1>1, <2>3, FutureAssumption DEF Times
  <2> DEFINE row == [rows[me.id] EXCEPT !.next = me.seen, !.blocked = b]
  <2>5. rows[me.id] \in Row /\ ~rows[me.id].cron
      BY <1>1, <2>2, FutureAssumption DEF TableType
  <2>6. b \in BOOLEAN
      BY <1>3
  <2>7. row \in Row /\ row.cron = rows[me.id].cron
      BY <2>4, <2>5, <2>6 DEF Row
  <2>8. rows' = [rows EXCEPT ![me.id] = row]
      BY <1>1, <2>1, <2>2 DEF TableType
  <2>9. row.cron => me.id \in Launches
      BY <2>5, <2>7
  <2> QED BY <1>5, <2>2, <2>7, <2>8, <2>9 DEF Reschedule
<1> QED BY <1>4, <1>5

-----------------------------------------------------------------------------
(* The conjuncts of the invariant after a step *)

\* The table.
LEMMA TableStep ==
  ASSUME IInv, Next
  PROVE  TableType'
<1>1. TableType
    BY DEF IInv
<1>2. ASSUME Onward(rows'), used' = used PROVE TableType'
    BY <1>1, <1>2 DEF TableType, Onward
<1>3. CASE \E t \in Tasks : LaunchCommits(t) \/ ActionCommits(t)
    BY <1>2, <1>3, CommitFacts
<1>4. ASSUME NEW u \in Users, CreateAction(u) \/ \E id \in Launches : CreateLaunch(u, id) PROVE TableType'
  <2>1. PICK id \in Ids \ used, row \in Row :
              rows' = With(id, row) /\ used' = used \cup {id} /\ (row.cron => id \in Launches)
      BY <1>4, CreateFacts
  <2>2. DOMAIN rows' = DOMAIN rows \cup {id} /\ rows' \in [DOMAIN rows' -> Row] /\ rows'[id] = row
        /\ \A i \in DOMAIN rows : i # id => rows'[i] = rows[i]
      BY <1>1, <2>1 DEF With, TableType
  <2> QED BY <1>1, <2>1, <2>2 DEF TableType
<1>5. ASSUME NEW u \in Users, ReviseLaunch(u) \/ Reschedule(u) PROVE TableType'
  <2>0. used' = used
      BY <1>5 DEF ReviseLaunch, Reschedule
  <2>1. CASE rows' = rows
      BY <1>1, <2>0, <2>1 DEF TableType
  <2>2. CASE rows' # rows
    <3>1. PICK id \in DOMAIN rows, row \in Row : rows' = [rows EXCEPT ![id] = row] /\ (row.cron => id \in Launches)
        BY <1>5, <2>2, ReviseFacts
    <3>2. DOMAIN rows' = DOMAIN rows /\ rows' \in [DOMAIN rows' -> Row] /\ rows'[id] = row
          /\ \A i \in DOMAIN rows : i # id => rows'[i] = rows[i]
        BY <1>1, <3>1 DEF TableType
    <3> QED BY <1>1, <2>0, <3>1, <3>2 DEF TableType
  <2> QED BY <2>1, <2>2
<1>6. CASE TimePasses
    BY <1>1, <1>6 DEF TimePasses, TableType
<1> QED BY <1>2, <1>3, <1>4, <1>5, <1>6, WhatChanges

\* The clock, the process and the type of the history.
LEMMA ClockStep ==
  ASSUME IInv, Next
  PROVE  ClockType'
<1>1. now \in 0..MaxTime /\ status \in {"open", "finished", "aborted"} /\ runs \in [Ids -> Seq(Run)]
    BY DEF IInv, ClockType
<1>2. now' \in 0..MaxTime
  <2>1. CASE TimePasses
      BY <1>1, <2>1, FutureAssumption DEF TimePasses
  <2>2. CASE now' = now
      BY <1>1, <2>2
  <2> QED BY <2>1, <2>2, WhatChanges, CommitFacts, CreateFacts DEF ReviseLaunch, Reschedule
<1>3. status' \in {"open", "finished", "aborted"}
  <2>1. ASSUME NEW t \in Tasks, Executes(t) PROVE status' \in {"open", "finished", "aborted"}
      BY <1>1, <2>1 DEF Executes, LaunchCommits, LaunchReported, LaunchFails, ActionRefused, ActionCommits, ActionFails
  <2>2. CASE SchedulerStep
      BY <1>1, <2>1, <2>2 DEF SchedulerStep, TickStage, TickItem, AdvanceCron, ExecuteDue, Tasks
  <2>3. ASSUME NEW u \in Users, RequestStep(u) PROVE status' \in {"open", "finished", "aborted"}
      BY <1>1, <2>1, <2>3 DEF RequestStep, ScheduleAction, CreateAction, Cancel, RunNow, ReviseLaunch, ReviseAction,
            Reschedule, OrdinaryAction, OrdinaryCommits, Abort, AbortCommits, Tasks
  <2>4. ASSUME NEW u \in Users, AskProcess(u) \/ AskRow(u) \/ \E id \in Launches : CreateLaunch(u, id)
        PROVE  status' \in {"open", "finished", "aborted"}
      BY <1>1, <2>4 DEF AskProcess, AskRow, Ask, CreateLaunch
  <2>5. CASE ProcessFinishes \/ (\E id \in Ids : ReconcileModel(id)) \/ TimePasses \/ Restart
      BY <1>1, <2>5 DEF ProcessFinishes, ReconcileModel, TimePasses, Restart
  <2> QED BY <2>2, <2>3, <2>4, <2>5 DEF Next
<1>4. runs' \in [Ids -> Seq(Run)]
  <2>1. ASSUME NEW t \in Tasks, LaunchCommits(t) \/ ActionCommits(t) PROVE runs' \in [Ids -> Seq(Run)]
    <3>1. PICK id \in DOMAIN rows, last \in BOOLEAN :
             runs' = [runs EXCEPT ![id] = Append(@, [at |-> rows[id].next, last |-> last])]
        BY <2>1, CommitFacts
    <3>2. rows[id].next \in Nat /\ id \in Ids
        BY TimesFacts DEF IInv, TableType, Row
    <3>3. [at |-> rows[id].next, last |-> last] \in Run
        BY <3>2 DEF Run
    <3>4. Append(runs[id], [at |-> rows[id].next, last |-> last]) \in Seq(Run)
        BY <1>1, <3>2, <3>3
    <3> QED BY <1>1, <3>1, <3>2, <3>4
  <2>2. CASE runs' = runs
      BY <1>1, <2>2
  <2> QED BY <2>1, <2>2, WhatChanges, CreateFacts DEF ReviseLaunch, Reschedule, TimePasses
<1> QED BY <1>2, <1>3, <1>4 DEF ClockType

\* The tasks and their locks.
LEMMA TasksStep ==
  ASSUME IInv, Next
  PROVE  /\ task' \in [Tasks -> TaskRecord] /\ \A t \in Tasks : TaskOK(t)'
         /\ Locks' /\ Fifo'
<1>1. CASE \E t \in Tasks : \E m : Moves(t, m)
    BY <1>1, MovesTasks, MovesLocks, MovesFifo
<1>2. CASE UNCHANGED <<task, queue>>
  <2>1. Locks' /\ Fifo' /\ task' \in [Tasks -> TaskRecord]
      BY <1>2 DEF IInv, Locks, Fifo, NoTwice, Waits, Holds, Wants, Keeps, Before
  <2>2. now \in Nat /\ now' \in Nat /\ now' >= now
    <3>1. now' \in 0..MaxTime /\ now \in 0..MaxTime
        BY ClockStep DEF ClockType, IInv
    <3>2. now' = now \/ now' = now + 1
        BY WhatChanges, CommitFacts, CreateFacts DEF ReviseLaunch, Reschedule, TimePasses
    <3> QED BY <3>1, <3>2
  <2>3. ASSUME NEW t \in Tasks PROVE TaskOK(t)'
    <3>1. MeOK(t, task[t]) /\ task'[t] = task[t]
        BY <1>2 DEF IInv, TaskOK
    <3>2. task[t].asOf \in Nat /\ task[t].seen \in Nat
        BY FutureAssumption DEF IInv, TaskRecord
    <3> QED BY <2>2, <3>1, <3>2 DEF TaskOK, MeOK
  <2> QED BY <2>1, <2>3
<1>3. CASE Restart
  <2>1. /\ queue' = [k \in Keys |-> <<>>] /\ now' = now
        /\ \A t \in Tasks : task'[t] = IF t = "tick" THEN Boot ELSE Idle
        /\ task' = [t \in Tasks |-> IF t = "tick" THEN Boot ELSE Idle]
      BY <1>3 DEF Restart
  <2>2. now \in 0..MaxTime /\ MaxTime \in Nat
      BY FutureAssumption DEF IInv, ClockType
  <2>3. ASSUME NEW m \in {Boot, Idle}
        PROVE  m \in TaskRecord /\ m.op = "idle" /\ m.asOf = 0
      BY <2>2 DEF Boot, Idle, TaskRecord
  <2>4. task' \in [Tasks -> TaskRecord]
      BY <2>1, <2>3
  <2>5. ASSUME NEW t \in Tasks
        PROVE  TaskOK(t)' /\ \A k \in Keys : ~Wants(task[t], k)' /\ ~Keeps(task[t], k)' /\ ~Waits(t, k)'
    <3>1. task'[t] \in TaskRecord /\ task'[t].op = "idle" /\ task'[t].asOf = 0
        BY <2>1, <2>3
    <3>2. TaskOK(t)'
        BY <2>1, <2>2, <3>1 DEF TaskOK, MeOK, TickOps, RowOps
    <3>3. \A k \in Keys : ~Wants(task[t], k)' /\ ~Keeps(task[t], k)'
        BY <3>1 DEF Wants, Keeps, RowOps, ProcessOps
    <3>4. \A k \in Keys : ~Waits(t, k)'
        BY <2>1 DEF Waits
    <3> QED BY <3>2, <3>3, <3>4
  <2>6. queue' \in [Keys -> Seq(Tasks)] /\ \A k \in Keys : NoTwice(k)'
      BY <2>1 DEF NoTwice
  <2>7. Locks'
      BY <2>5, <2>6 DEF Locks
  <2>8. Fifo'
      BY <2>1 DEF Fifo, Before, Keys
  <2> QED BY <2>4, <2>5, <2>7, <2>8
<1> QED BY <1>1, <1>2, <1>3, WhoMoves

\* Only a request to schedule an action gives the process one.
LEMMA ScheduledNarrows ==
  ASSUME IInv, Next
  PROVE  Scheduled' \subseteq Scheduled \/ \E u \in Users : CreateAction(u)
<1>1. ASSUME Onward(rows') PROVE Scheduled' \subseteq Scheduled
    BY <1>1 DEF Onward, Scheduled
<1>2. ASSUME NEW u \in Users, NEW id \in Launches, CreateLaunch(u, id) PROVE Scheduled' \subseteq Scheduled
  <2>1. DOMAIN rows' = DOMAIN rows \cup {id}
      BY <1>2 DEF CreateLaunch, With
  <2> QED BY <2>1, FutureAssumption DEF Scheduled
<1>3. ASSUME NEW u \in Users, ReviseLaunch(u) \/ Reschedule(u) PROVE Scheduled' \subseteq Scheduled
  <2>1. rows' = rows \/ \E id \in DOMAIN rows, row \in Row : rows' = [rows EXCEPT ![id] = row]
      BY <1>3, ReviseFacts
  <2>2. DOMAIN rows' = DOMAIN rows
      BY <2>1
  <2> QED BY <2>2 DEF Scheduled
<1>4. CASE TimePasses
    BY <1>4 DEF TimePasses, Scheduled
<1> QED BY <1>1, <1>2, <1>3, <1>4, WhatChanges, CommitFacts

\* An execution, with the lock it has on what it changes.
LEMMA ExecutesFence ==
  ASSUME IInv, NEW t \in Tasks, Executes(t)
  PROVE  \A u \in Users : FenceOK(u)'
<1>1. ASSUME Onward(rows') PROVE Scheduled' \subseteq Scheduled
    BY <1>1 DEF Onward, Scheduled
<1>2. CASE ActionCommits(t)
  <2>1. Holds(t, "process")
      BY <1>2 DEF ActionCommits
  <2> QED BY <2>1, ExecutesMoves, MovesFence
<1>3. CASE LaunchCommits(t)
  <2>1. Scheduled' \subseteq Scheduled /\ status' = status
      BY <1>1, <1>3, CommitFacts DEF LaunchCommits
  <2> QED BY <2>1, ExecutesMoves, MovesFence
<1>4. CASE LaunchReported(t) \/ LaunchFails(t) \/ ActionRefused(t) \/ ActionFails(t)
  <2>1. Scheduled' \subseteq Scheduled /\ status' = status
      BY <1>1, <1>4, ExecutesOnward
  <2> QED BY <2>1, ExecutesMoves, MovesFence
<1> QED BY <1>2, <1>3, <1>4 DEF Executes

\* What a request found under the lock of the process.
LEMMA FenceStep ==
  ASSUME IInv, Next
  PROVE  \A u \in Users : FenceOK(u)'
<1>0. "tick" \in Tasks /\ \A u \in Users : u \in Tasks
    BY DEF Tasks
<1>1. ASSUME Onward(rows') PROVE Scheduled' \subseteq Scheduled
    BY <1>1 DEF Onward, Scheduled
<1>2. CASE SchedulerStep
  <2>1. CASE Executes("tick")
      BY <1>0, <2>1, ExecutesFence
  <2>2. CASE TickStage \/ (\E id \in Ids : TickItem(id)) \/ AdvanceCron \/ ExecuteDue
    <3>1. Scheduled' \subseteq Scheduled /\ status' = status
        BY <1>1, <2>2, SchedulerOnward
    <3> QED BY <1>0, <2>2, <3>1, SchedulerMoves, MovesFence
  <2> QED BY <1>2, <2>1, <2>2 DEF SchedulerStep
<1>3. ASSUME NEW u \in Users, RequestStep(u) PROVE \A v \in Users : FenceOK(v)'
  <2>1. CASE Executes(u)
      BY <1>0, <2>1, ExecutesFence
  <2>2. CASE CreateAction(u) \/ OrdinaryCommits(u) \/ AbortCommits(u) \/ Reschedule(u)
    <3>1. Holds(u, "process")
        BY <1>0, <2>2, RowLocks DEF CreateAction, OrdinaryCommits, AbortCommits, Reschedule
    <3> QED BY <1>0, <1>3, <3>1, RequestMoves, MovesFence
  <2>3. CASE \/ ScheduleAction(u) \/ Cancel(u) \/ RunNow(u) \/ ReviseLaunch(u) \/ ReviseAction(u)
             \/ OrdinaryAction(u) \/ Abort(u)
    <3>1. status' = status
        BY <2>3 DEF ScheduleAction, Cancel, RunNow, ReviseLaunch, ReviseAction, OrdinaryAction, Abort
    <3>2. CASE ReviseLaunch(u)
      <4>1. rows' = rows \/ \E id \in DOMAIN rows, row \in Row : rows' = [rows EXCEPT ![id] = row]
          BY <3>2, ReviseFacts
      <4>2. Scheduled' \subseteq Scheduled
          BY <4>1 DEF Scheduled
      <4> QED BY <1>0, <1>3, <3>1, <4>2, RequestMoves, MovesFence
    <3>3. CASE ~ReviseLaunch(u)
      <4>1. Scheduled' \subseteq Scheduled
          BY <1>1, <2>3, <3>3, RequestOnward
      <4> QED BY <1>0, <1>3, <3>1, <4>1, RequestMoves, MovesFence
    <3> QED BY <3>2, <3>3
  <2> QED BY <1>3, <2>1, <2>2, <2>3 DEF RequestStep
<1>4. ASSUME NEW u \in Users, AskProcess(u) \/ AskRow(u) PROVE \A v \in Users : FenceOK(v)'
  <2>1. Scheduled' \subseteq Scheduled /\ status' = status
      BY <1>1, <1>4, RequestOnward DEF AskProcess, AskRow, Ask
  <2> QED BY <1>0, <1>4, <2>1, AskMoves, MovesFence
<1>5. CASE \/ \E u \in Users : \E id \in Launches : CreateLaunch(u, id)
           \/ (\E id \in Ids : ReconcileModel(id)) \/ TimePasses
  <2>1. task' = task /\ status' = status
      BY <1>5 DEF CreateLaunch, ReconcileModel, TimePasses
  <2>2. Scheduled' \subseteq Scheduled
    <3>1. CASE \E u \in Users : CreateAction(u)
      <4>1. PICK u \in Users : CreateAction(u)
          BY <3>1
      <4>2. used' # used
          BY <4>1 DEF CreateAction
      <4>3. PICK v \in Users, id \in Launches : CreateLaunch(v, id)
          BY <1>5, <4>2 DEF ReconcileModel, TimePasses
      <4>4. DOMAIN rows' = DOMAIN rows \cup {id}
          BY <4>3 DEF CreateLaunch, With
      <4> QED BY <4>4, FutureAssumption DEF Scheduled
    <3> QED BY <3>1, ScheduledNarrows
  <2> QED BY <2>1, <2>2 DEF IInv, FenceOK
<1>6. CASE ProcessFinishes
  <2>1. ASSUME NEW u \in Users PROVE task'[u].op \notin {"create", "uiCommit", "abortCommit"}
    <3>1. ~Holds(u, "process") /\ task' = task
        BY <1>6 DEF ProcessFinishes, Holds
    <3> QED BY <1>0, <3>1, RowLocks
  <2> QED BY <2>1 DEF FenceOK
<1>7. CASE Restart
  <2>1. ASSUME NEW u \in Users PROVE task'[u].op = "idle"
      BY <1>0, <1>7 DEF Restart, Boot, Idle
  <2> QED BY <2>1 DEF FenceOK
<1> QED BY <1>2, <1>3, <1>4, <1>5, <1>6, <1>7 DEF Next

\* The schedule of the process.
LEMMA ScheduleStep ==
  ASSUME IInv, Next
  PROVE  Schedule'
<1>0. Schedule /\ \A u \in Users : FenceOK(u)
    BY DEF IInv
<1>1. \A a, b \in Scheduled' : a = b
  <2>1. CASE Scheduled' \subseteq Scheduled
      BY <1>0, <2>1 DEF Schedule
  <2>2. ASSUME NEW u \in Users, CreateAction(u) PROVE \A a, b \in Scheduled' : a = b
    <3>1. Scheduled = {}
        BY <1>0, <2>2 DEF FenceOK, CreateAction
    <3>2. PICK id \in Acts : DOMAIN rows' = DOMAIN rows \cup {id}
        BY <2>2 DEF CreateAction, With
    <3> QED BY <3>1, <3>2 DEF Scheduled
  <2> QED BY <2>1, <2>2, ScheduledNarrows
<1>2. ASSUME NEW t \in Tasks, Executes(t)
      PROVE  intruded' = intruded /\ (status' = "aborted" => status = "aborted") /\ Scheduled' \subseteq Scheduled
  <2>1. intruded' = intruded /\ (status' = "aborted" => status = "aborted")
      BY <1>2 DEF Executes, LaunchCommits, LaunchReported, LaunchFails, ActionRefused, ActionCommits, ActionFails
  <2>2. Onward(rows')
      BY <1>2, ExecutesOnward, CommitFacts DEF Executes
  <2> QED BY <2>1, <2>2 DEF Onward, Scheduled
<1>3. ASSUME NEW u \in Users, RequestStep(u)
      PROVE  intruded' = FALSE /\ (status' = "aborted" => Scheduled' = {})
  <2>1. CASE Executes(u)
      BY <1>0, <1>2, <2>1 DEF Schedule, Tasks
  <2>2. CASE CreateAction(u)
    <3>1. status = "open"
        BY <1>0, <2>2 DEF FenceOK, CreateAction
    <3> QED BY <1>0, <2>2, <3>1 DEF CreateAction, Schedule
  <2>3. CASE OrdinaryCommits(u)
    <3>1. Scheduled = {}
        BY <1>0, <2>3 DEF FenceOK, OrdinaryCommits
    <3> QED BY <1>0, <2>3, <3>1 DEF OrdinaryCommits, Schedule
  <2>4. CASE AbortCommits(u)
    <3>1. Scheduled \subseteq task[u].todo /\ intruded' = intruded
        BY <1>0, <2>4 DEF FenceOK, AbortCommits
    <3>2. CASE task[u].todo \subseteq DOMAIN rows
      <4>1. DOMAIN rows' = DOMAIN rows \ task[u].todo
          BY <2>4, <3>2 DEF AbortCommits
      <4> QED BY <1>0, <3>1, <4>1 DEF Scheduled, Schedule
    <3>3. CASE ~(task[u].todo \subseteq DOMAIN rows)
        BY <1>0, <2>4, <3>3 DEF AbortCommits, Scheduled, Schedule
    <3> QED BY <3>2, <3>3
  <2>5. CASE \/ ScheduleAction(u) \/ Cancel(u) \/ RunNow(u) \/ ReviseLaunch(u) \/ ReviseAction(u)
             \/ OrdinaryAction(u) \/ Abort(u) \/ Reschedule(u)
    <3>1. status' = status /\ intruded' = intruded /\ used' = used
        BY <2>5 DEF ScheduleAction, Cancel, RunNow, ReviseLaunch, ReviseAction, OrdinaryAction, Abort, Reschedule
    <3>2. \A v \in Users : ~CreateAction(v)
        BY <3>1 DEF CreateAction
    <3>3. Scheduled' \subseteq Scheduled
        BY <1>3, <3>2, ScheduledNarrows
    <3> QED BY <1>0, <3>1, <3>3 DEF Schedule
  <2> QED BY <1>3, <2>1, <2>2, <2>3, <2>4, <2>5 DEF RequestStep
<1>4. CASE SchedulerStep
  <2>1. CASE Executes("tick")
      BY <1>0, <1>1, <1>2, <2>1 DEF Schedule, Tasks
  <2>2. CASE TickStage \/ (\E id \in Ids : TickItem(id)) \/ AdvanceCron \/ ExecuteDue
    <3>1. Scheduled' \subseteq Scheduled /\ status' = status /\ intruded' = intruded
        BY <2>2, SchedulerOnward DEF Onward, Scheduled
    <3> QED BY <1>0, <1>1, <3>1 DEF Schedule
  <2> QED BY <1>4, <2>1, <2>2 DEF SchedulerStep
<1>5. CASE \/ \E u \in Users : AskProcess(u) \/ AskRow(u) \/ \E id \in Launches : CreateLaunch(u, id)
           \/ ProcessFinishes \/ (\E id \in Ids : ReconcileModel(id)) \/ TimePasses \/ Restart
  <2>2. intruded' = intruded /\ (status' = "aborted" => status = "aborted")
      BY <1>5 DEF AskProcess, AskRow, Ask, CreateLaunch, ProcessFinishes, ReconcileModel, TimePasses, Restart
  <2>3. CASE \E u \in Users : CreateAction(u)
    <3>1. PICK u \in Users : CreateAction(u)
        BY <2>3
    <3>2. status' = "open"
        BY <1>0, <3>1 DEF CreateAction, FenceOK
    <3> QED BY <1>0, <1>1, <2>2, <3>2 DEF Schedule
  <2>4. CASE Scheduled' \subseteq Scheduled
      BY <1>0, <1>1, <2>2, <2>4 DEF Schedule
  <2> QED BY <2>3, <2>4, ScheduledNarrows
<1> QED BY <1>1, <1>3, <1>4, <1>5 DEF Next, Schedule

\* A request to revise a row is new, or as it was.
LEMMA Revisers ==
  ASSUME IInv, Next
  PROVE  \A u \in Users : task'[u].op = "revise" => task'[u].asOf = now \/ task'[u] = task[u]
<1>0. \A u \in Users : u \in Tasks
    BY DEF Tasks
<1>1. ASSUME NEW t \in Tasks, NEW m, Moves(t, m), NEW u \in Users, task'[u].op = "revise"
      PROVE  task'[u].asOf = now \/ task'[u] = task[u]
  <2>1. task'[t] = m /\ \A v \in Tasks : v # t => task'[v] = task[v]
      BY <1>1, MovesTasks
  <2> QED BY <1>0, <1>1, <2>1 DEF Moves
<1>2. CASE Restart
    BY <1>0, <1>2 DEF Restart, Boot, Idle
<1> QED BY <1>1, <1>2, WhoMoves

\* The times of a history.
LEMMA RunTimes ==
  ASSUME NEW s \in Seq(Run), NEW i \in DOMAIN s
  PROVE  s[i].at \in Nat
<1>1. s[i] \in Run
    OBVIOUS
<1> QED BY <1>1 DEF Run

\* The history of a row that no step wrote, and whose occurrence did not move
\* back.
LEMMA HistoryKept ==
  ASSUME IInv, Next, NEW id \in Ids, runs'[id] = runs[id], used \subseteq used', now \in Nat, now' \in Nat, now' >= now,
         id \in DOMAIN rows' => id \in DOMAIN rows /\ rows'[id].next \in Nat /\ rows'[id].next >= rows[id].next
  PROVE  HistoryOK(id)'
<1>1. HistoryOK(id) /\ runs[id] \in Seq(Run)
    BY DEF IInv, ClockType
<1>2. \A i, j \in DOMAIN runs'[id] : i < j => runs'[id][i].at < runs'[id][j].at /\ ~runs'[id][i].last
    BY <1>1 DEF HistoryOK
<1>3. ASSUME NEW i \in DOMAIN runs'[id]
      PROVE  /\ id \in used'
             /\ id \in Acts => runs'[id][i].last
             /\ id \in DOMAIN rows' =>
                  /\ ~runs'[id][i].last
                  /\ runs'[id][i].at < rows'[id].next /\ runs'[id][i].at <= now'
                  /\ \A u \in Users : task'[u].op = "revise" /\ task'[u].id = id
                                        => runs'[id][i].at <= task'[u].asOf
  <2>1. id \in used /\ (id \in Acts => runs[id][i].last)
      BY <1>1 DEF HistoryOK
  <2>2. CASE id \in DOMAIN rows'
    <3>1. /\ ~runs[id][i].last /\ runs[id][i].at < rows[id].next /\ runs[id][i].at <= now
          /\ \A u \in Users : task[u].op = "revise" /\ task[u].id = id => runs[id][i].at <= task[u].asOf
        BY <1>1, <2>2 DEF HistoryOK
    <3>4. runs[id][i].at \in Nat
        BY <1>1, RunTimes
    <3>5. rows[id].next \in Nat
        BY <2>2, TimesFacts DEF IInv, TableType, Row
    <3>2. runs[id][i].at \in Nat /\ rows[id].next \in Nat
        BY <3>4, <3>5
    <3>3. ASSUME NEW u \in Users, task'[u].op = "revise", task'[u].id = id PROVE runs[id][i].at <= task'[u].asOf
        BY <3>1, <3>3, Revisers
    <3> QED BY <2>1, <2>2, <3>1, <3>2, <3>3
  <2> QED BY <2>1, <2>2
<1> QED BY <1>2, <1>3 DEF HistoryOK

\* The history.
LEMMA HistoryStep ==
  ASSUME IInv, Next
  PROVE  \A id \in Ids : HistoryOK(id)'
<1> TAKE id \in Ids
<1>1. /\ now \in Nat /\ TableType /\ TableType' /\ Times \subseteq Nat /\ runs \in [Ids -> Seq(Run)]
      /\ HistoryOK(id) /\ runs[id] \in Seq(Run) /\ now >= now
    BY FutureAssumption, TimesFacts, TableStep DEF IInv, ClockType
<1>2. \A i \in DOMAIN rows : rows[i].next \in Nat /\ rows[i].next >= rows[i].next
    BY <1>1 DEF TableType, Row
<1>3. \A i \in DOMAIN rows' : rows'[i].next \in Nat
    BY <1>1 DEF TableType, Row
<1>4. CASE Onward(rows') /\ UNCHANGED <<used, runs, now>>
    BY <1>1, <1>3, <1>4, HistoryKept DEF Onward
<1>5. CASE TimePasses
    BY <1>1, <1>2, <1>5, HistoryKept DEF TimePasses
<1>6. ASSUME NEW u \in Users, CreateAction(u) \/ \E i \in Launches : CreateLaunch(u, i) PROVE HistoryOK(id)'
  <2>1. PICK new \in Ids \ used, row \in Row : rows' = With(new, row) /\ used' = used \cup {new}
      BY <1>6, CreateFacts
  <2>2. runs' = runs /\ now' = now
      BY <1>6, CreateFacts
  <2>3. CASE id = new
    <3>1. DOMAIN runs[id] = {}
        BY <1>1, <2>1, <2>3 DEF HistoryOK
    <3> QED BY <2>2, <3>1 DEF HistoryOK
  <2>4. CASE id # new
    <3>1. id \in DOMAIN rows' => id \in DOMAIN rows /\ rows'[id] = rows[id]
        BY <2>1, <2>4 DEF With
    <3> QED BY <1>1, <1>2, <2>1, <2>2, <3>1, HistoryKept
  <2> QED BY <2>3, <2>4
<1>7. ASSUME NEW u \in Users, ReviseLaunch(u) \/ Reschedule(u) PROVE HistoryOK(id)'
  <2>0. UNCHANGED <<runs, now, used>>
      BY <1>7 DEF ReviseLaunch, Reschedule
  <2>1. CASE rows' = rows
      BY <1>1, <1>2, <2>0, <2>1, HistoryKept
  <2>2. CASE rows' # rows
    <3>1. PICK old \in DOMAIN rows, row \in Row :
              /\ rows' = [rows EXCEPT ![old] = row]
              /\ old \in Acts \/ (task[u].op = "revise" /\ task[u].id = old /\ (row.next > task[u].asOf \/ row.next > now))
        BY <1>7, <2>2, ReviseFacts
    <3>2. /\ DOMAIN rows' = DOMAIN rows /\ rows'[old] = row /\ row.next \in Nat
          /\ \A i \in DOMAIN rows : i # old => rows'[i] = rows[i]
        BY <1>1, <3>1 DEF TableType, Row
    <3>3. CASE id # old
        BY <1>1, <1>2, <2>0, <3>2, <3>3, HistoryKept
    <3>4. CASE id = old /\ id \in Acts
      <4>1. DOMAIN runs[id] = {}
          BY <1>1, <3>4 DEF HistoryOK
      <4> QED BY <2>0, <4>1 DEF HistoryOK
    <3>5. CASE id = old /\ task[u].op = "revise" /\ task[u].id = old /\ (row.next > task[u].asOf \/ row.next > now)
      <4>0. u \in Tasks /\ task[u].asOf \in Nat
          BY FutureAssumption DEF IInv, TaskRecord, Tasks
      <4>1. ASSUME NEW i \in DOMAIN runs[id]
            PROVE  /\ id \in used /\ ~runs[id][i].last /\ (id \in Acts => runs[id][i].last)
                   /\ runs[id][i].at < row.next /\ runs[id][i].at <= now
                   /\ \A v \in Users : task'[v].op = "revise" /\ task'[v].id = id => runs[id][i].at <= task'[v].asOf
        <5>1. /\ id \in used /\ ~runs[id][i].last /\ (id \in Acts => runs[id][i].last)
              /\ runs[id][i].at <= now /\ runs[id][i].at <= task[u].asOf
              /\ \A v \in Users : task[v].op = "revise" /\ task[v].id = id => runs[id][i].at <= task[v].asOf
            BY <1>1, <3>5 DEF HistoryOK
        <5>2. runs[id][i].at \in Nat
            BY <1>1, RunTimes
        <5>3. runs[id][i].at < row.next
            BY <1>1, <3>2, <3>5, <4>0, <5>1, <5>2
        <5> QED BY <5>1, <5>3, Revisers
      <4>2. \A i, j \in DOMAIN runs[id] : i < j => runs[id][i].at < runs[id][j].at /\ ~runs[id][i].last
          BY <1>1 DEF HistoryOK
      <4> QED BY <2>0, <3>2, <3>5, <4>1, <4>2 DEF HistoryOK
    <3> QED BY <3>1, <3>3, <3>4, <3>5
  <2> QED BY <2>1, <2>2
<1>8. ASSUME NEW t \in Tasks, LaunchCommits(t) \/ ActionCommits(t) PROVE HistoryOK(id)'
  <2>1. Onward(rows') /\ UNCHANGED <<used, now>>
      BY <1>8, CommitFacts
  <2>2. PICK done \in DOMAIN rows, last \in BOOLEAN :
              /\ runs' = [runs EXCEPT ![done] = Append(@, [at |-> rows[done].next, last |-> last])]
              /\ done \in Acts => last
              /\ done \in DOMAIN rows' =>
                   /\ ~last /\ rows'[done].next > rows[done].next /\ rows[done].next <= now
                   /\ \A u \in Users : Wants(task[u], done) => u # t /\ rows[done].next <= task[u].asOf
      BY <1>8, CommitFacts
  <2>3. CASE id # done
    <3>1. runs'[id] = runs[id]
        BY <1>1, <2>2, <2>3
    <3> QED BY <1>1, <1>3, <2>1, <3>1, HistoryKept DEF Onward
  <2>4. CASE id = done
    <3> DEFINE s == runs[id]
               e == [at |-> rows[id].next, last |-> last]
    <3>1. /\ runs'[id] = Append(s, e) /\ Len(s) \in Nat /\ DOMAIN s = 1..Len(s) /\ DOMAIN runs'[id] = 1..(Len(s) + 1)
          /\ \A i \in DOMAIN s : runs'[id][i] = s[i]
          /\ runs'[id][Len(s) + 1] = e
        BY <1>1, <2>2, <2>4
    <3>2. \A i \in DOMAIN s : s[i].at \in Nat /\ s[i].at < rows[id].next /\ ~s[i].last /\ s[i].at <= now /\ id \in used
        BY <1>1, <2>4, RunTimes DEF HistoryOK
    <3>3. \A i, j \in DOMAIN s : i < j => s[i].at < s[j].at /\ ~s[i].last
        BY <1>1 DEF HistoryOK
    <3>4. ASSUME NEW i \in DOMAIN runs'[id], NEW j \in DOMAIN runs'[id], i < j
          PROVE  runs'[id][i].at < runs'[id][j].at /\ ~runs'[id][i].last
      <4>1. i \in DOMAIN s
          BY <3>1, <3>4
      <4>2. CASE j \in DOMAIN s
          BY <3>1, <3>3, <3>4, <4>1, <4>2
      <4>3. CASE j \notin DOMAIN s
        <5>1. runs'[id][j] = e
            BY <3>1, <4>3
        <5> QED BY <3>1, <3>2, <4>1, <5>1
      <4> QED BY <4>2, <4>3
    <3>5. ASSUME NEW i \in DOMAIN runs'[id]
          PROVE  id \in used' /\ (id \in Acts => runs'[id][i].last)
      <4>1. id \in used
          BY <1>1, <2>4 DEF TableType
      <4>2. CASE i \in DOMAIN s
          BY <1>1, <2>1, <3>1, <4>1, <4>2 DEF HistoryOK
      <4>3. CASE i \notin DOMAIN s
        <5>1. runs'[id][i] = e
            BY <3>1, <4>3
        <5> QED BY <2>1, <2>2, <2>4, <4>1, <5>1
      <4> QED BY <4>2, <4>3
    <3>6. ASSUME NEW i \in DOMAIN runs'[id], id \in DOMAIN rows'
          PROVE  /\ ~runs'[id][i].last
                 /\ runs'[id][i].at < rows'[id].next /\ runs'[id][i].at <= now'
                 /\ \A u \in Users : task'[u].op = "revise" /\ task'[u].id = id
                                       => runs'[id][i].at <= task'[u].asOf
      <4>1. ~last /\ rows'[id].next > rows[id].next /\ rows[id].next <= now /\ rows[id].next \in Nat /\ rows'[id].next \in Nat
          BY <1>2, <1>3, <2>2, <2>4, <3>6
      <4>2. ASSUME NEW u \in Users, task'[u].op = "revise", task'[u].id = id
            PROVE  rows[id].next <= task'[u].asOf
        <5>1. CASE task'[u].asOf = now
            BY <4>1, <5>1
        <5>2. CASE task'[u] = task[u]
          <6>1. Wants(task[u], id)
              BY <4>2, <5>2 DEF Wants, RowOps
          <6> QED BY <2>2, <2>4, <3>6, <5>2, <6>1
        <5> QED BY <4>2, <5>1, <5>2, Revisers
      <4>3. ASSUME NEW u \in Users, task'[u].op = "revise" PROVE task'[u].asOf \in Nat
          BY FutureAssumption, TasksStep DEF TaskRecord, Tasks
      <4>4. CASE i \in DOMAIN s
        <5>1. runs'[id][i] = s[i] /\ s[i].at \in Nat /\ s[i].at < rows[id].next /\ ~s[i].last /\ s[i].at <= now
            BY <3>1, <3>2, <4>4
        <5>2. \A u \in Users : task'[u].op = "revise" /\ task'[u].id = id => s[i].at <= task'[u].asOf
            BY <4>1, <4>2, <4>3, <5>1
        <5> QED BY <2>1, <4>1, <5>1, <5>2
      <4>5. CASE i \notin DOMAIN s
        <5>1. runs'[id][i] = e
            BY <3>1, <4>5
        <5>2. runs'[id][i].at = rows[id].next /\ ~runs'[id][i].last
            BY <4>1, <5>1
        <5> QED BY <2>1, <4>1, <4>2, <5>2
      <4> QED BY <4>4, <4>5
    <3> QED BY <3>4, <3>5, <3>6 DEF HistoryOK
  <2> QED BY <2>3, <2>4
<1> QED BY <1>4, <1>5, <1>6, <1>7, <1>8, WhatChanges

-----------------------------------------------------------------------------
(* The theorems *)

\* The inductive invariant holds in the initial states.
LEMMA InitInvariant ==
  ASSUME Init
  PROVE  IInv
<1>1. rows = <<>> /\ DOMAIN rows = {} /\ used = {}
    BY DEF Init
<1>2. TableType
    BY <1>1 DEF TableType
<1>3. now = 0 /\ MaxTime \in Nat /\ ClockType
    BY FutureAssumption DEF Init, ClockType
<1>4. ASSUME NEW m \in {Boot, Idle}
      PROVE  m \in TaskRecord /\ m.op = "idle" /\ m.asOf = 0
    BY <1>3 DEF Boot, Idle, TaskRecord
<1>5. ASSUME NEW t \in Tasks
      PROVE  /\ task[t] \in TaskRecord /\ task[t].op = "idle" /\ TaskOK(t)
             /\ \A k \in Keys : ~Wants(task[t], k) /\ ~Keeps(task[t], k) /\ ~Waits(t, k)
  <2>1. task[t] \in TaskRecord /\ task[t].op = "idle" /\ task[t].asOf = 0
      BY <1>4 DEF Init
  <2>2. TaskOK(t)
      BY <1>3, <2>1 DEF TaskOK, MeOK, TickOps, RowOps
  <2>3. \A k \in Keys : ~Wants(task[t], k) /\ ~Keeps(task[t], k)
      BY <2>1 DEF Wants, Keeps, RowOps, ProcessOps
  <2>4. \A k \in Keys : ~Waits(t, k)
      BY DEF Init, Waits
  <2> QED BY <2>1, <2>2, <2>3, <2>4
<1>6. task \in [Tasks -> TaskRecord]
    BY <1>5 DEF Init
<1>7. Locks
    BY <1>5 DEF Locks, Init, NoTwice
<1>8. Fifo
    BY DEF Fifo, Before, Init, Keys
<1>9. Schedule /\ \A u \in Users : FenceOK(u)
  <2>1. \A u \in Users : task[u].op = "idle"
      BY <1>5 DEF Tasks
  <2> QED BY <1>1, <2>1 DEF Schedule, FenceOK, Init, Scheduled
<1>10. \A id \in Ids : HistoryOK(id)
    BY DEF HistoryOK, Init
<1> QED BY <1>2, <1>3, <1>5, <1>6, <1>7, <1>8, <1>9, <1>10 DEF IInv

\* A step that changes nothing keeps it.
LEMMA StutterInvariant ==
  ASSUME IInv, UNCHANGED vars
  PROVE  IInv'
<1>1. /\ now' = now /\ rows' = rows /\ used' = used /\ status' = status /\ queue' = queue /\ task' = task
      /\ runs' = runs /\ intruded' = intruded
    BY DEF vars
<1>2. TableType' /\ ClockType' /\ task' \in [Tasks -> TaskRecord]
    BY <1>1 DEF IInv, TableType, ClockType
<1>3. \A t \in Tasks : TaskOK(t)'
    BY <1>1 DEF IInv, TaskOK, MeOK
<1>4. Locks' /\ Fifo'
    BY <1>1 DEF IInv, Locks, Fifo, NoTwice, Waits, Wants, Keeps, Holds, Before
<1>5. Schedule' /\ \A u \in Users : FenceOK(u)'
    BY <1>1 DEF IInv, Schedule, FenceOK, Scheduled
<1>6. \A id \in Ids : HistoryOK(id)'
    BY <1>1 DEF IInv, HistoryOK
<1> QED BY <1>2, <1>3, <1>4, <1>5, <1>6 DEF IInv

\* The inductive invariant always holds.
LEMMA Invariance == Spec => []IInv
<1>1. Init => IInv
    BY InitInvariant
<1>2. IInv /\ [Next]_vars => IInv'
  <2>1. ASSUME IInv, Next PROVE IInv'
    <3>1. TableType' /\ ClockType' /\ Schedule'
        BY <2>1, TableStep, ClockStep, ScheduleStep
    <3>2. task' \in [Tasks -> TaskRecord] /\ (\A t \in Tasks : TaskOK(t)') /\ Locks' /\ Fifo'
        BY <2>1, TasksStep
    <3>3. (\A u \in Users : FenceOK(u)') /\ \A id \in Ids : HistoryOK(id)'
        BY <2>1, FenceStep, HistoryStep
    <3> QED BY <3>1, <3>2, <3>3 DEF IInv
  <2> QED BY <2>1, StutterInvariant
<1> QED BY <1>1, <1>2, PTL DEF Spec

\* The table of future executions and the process agree, whatever requests,
\* ticks, crashes and model blocks do: at most one scheduled action, which no
\* ordinary action commits beside, and none after an abort.
THEOREM ScheduleIsConsistent == Spec => []ScheduleInvariant
<1>1. ASSUME IInv PROVE ScheduleInvariant
  <2>1. TableType /\ ClockType /\ Locks /\ Schedule
      BY <1>1 DEF IInv
  <2>2. FutureTypeOK
    <3>1. \A id \in DOMAIN rows : rows[id] \in Row /\ (rows[id].cron => id \in Launches)
        BY <2>1 DEF TableType
    <3>2. \A k \in Keys : \A i, j \in DOMAIN queue[k] : queue[k][i] = queue[k][j] => i = j
        BY <2>1 DEF Locks, NoTwice
    <3>3. intruded \in BOOLEAN /\ ~intruded
        BY <2>1 DEF Schedule
    <3> QED BY <2>1, <3>1, <3>2, <3>3 DEF FutureTypeOK, TableType, ClockType
  <2>3. OneScheduledAction
    <3>1. CASE Scheduled = {}
        BY <3>1, FS_EmptySet DEF OneScheduledAction
    <3>2. CASE Scheduled # {}
      <4>1. PICK a \in Scheduled : TRUE
          BY <3>2
      <4>2. Scheduled = {a}
          BY <2>1, <4>1 DEF Schedule
      <4>3. Cardinality({a}) = 1
          BY FS_Singleton
      <4> QED BY <4>2, <4>3 DEF OneScheduledAction
    <3> QED BY <3>1, <3>2
  <2>4. ScheduleLocksProcess /\ AbortClearsSchedule
      BY <2>1 DEF Schedule, ScheduleLocksProcess, AbortClearsSchedule
  <2> QED BY <2>2, <2>3, <2>4 DEF ScheduleInvariant
<1> QED BY <1>1, Invariance, PTL

\* An occurrence of a row commits its work at most once and in order, through
\* every retry, revision, late failure report and restart.
THEOREM OccurrencesCommitOnce == Spec => []OccurrencesRunOnce
<1>1. ASSUME IInv PROVE OccurrencesRunOnce
    BY <1>1 DEF IInv, HistoryOK, OccurrencesRunOnce
<1> QED BY <1>1, Invariance, PTL

=============================================================================
