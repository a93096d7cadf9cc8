---------------------------- MODULE ModelBlocks ----------------------------
(***************************************************************************)
(* What follows when a model stops or starts being available: the status   *)
(* cache is refreshed from the providers, each change of a model's status  *)
(* is applied to the scheduled rows that use it (blocking or unblocking    *)
(* them), and processes whose start was parked for want of the model are   *)
(* started again.  Refreshes overlap: one may commit while the changes of  *)
(* an earlier one are still being applied.                                 *)
(***************************************************************************)
EXTENDS Integers, FiniteSets

CONSTANTS
    Models,             \* model profiles
    Rows,               \* ids of scheduled rows
    Slots,              \* bound on overlapping applications
    MaxProviderChanges, \* bound on changes at the providers
    MaxLapses,          \* bound on statuses expiring or a provider not answering
    MaxParks,           \* bound on starts parked for want of a model
    MaxThrows,          \* bound on reconciliations of a row that throw
    MaxBoots            \* bound on server restarts

Nothing == "none"
NoStatuses == <<>>
NoPlan == [model |-> Nothing, block |-> Nothing]

ASSUME ModelBlocksAssumption ==
    /\ {MaxProviderChanges, MaxLapses, MaxParks, MaxThrows, MaxBoots} \subseteq Nat
    /\ Nothing \notin Models /\ Nothing \notin Rows

VARIABLES
    up,         \* external: what the provider would answer
    status,     \* the cache: model -> status
    revision,   \* the cache's revision
    reading,    \* the statuses a refresh in flight has read
    rows,       \* scheduled rows: id -> [model, block]
    plan,       \* a launch that was prepared and is not persisted yet, or NoPlan
    dated,      \* history: rows persisted with a block that was no longer right,
                \* until an evaluation settles them
    parked,     \* the model the process's start is parked for, or Nothing
    work,       \* slot -> application of one refresh's transitions, or Free
    left        \* what is left of the bounds
launches == <<plan, dated>>
blockVars == <<up, status, revision, reading, rows, launches, parked, work, left>>

Statuses == {"available", "unavailable", "stale"}
BlockReasons == {Nothing, "model", "snapshot"}

(***************************************************************************)
(* An application: the refresh's snapshot and its restored models, the     *)
(* candidate rows left, the row under evaluation, and the availability     *)
(* and attempt of that evaluation.                                         *)
(***************************************************************************)
Free == [todo |-> {}, row |-> Nothing, tries |-> 0, seen |-> NoStatuses, rev |-> 0, base |-> 0,
         restored |-> {}, snapshot |-> NoStatuses, busy |-> FALSE]

Answer == [m \in Models |-> IF up[m] THEN "available" ELSE "unavailable"]
Locked(r) == \E i \in Slots : work[i].row = r

BlocksInit ==
    /\ up \in [Models -> BOOLEAN]
    /\ status = Answer
    /\ revision = 0
    /\ reading = NoStatuses
    /\ rows = <<>> /\ plan = NoPlan /\ dated = {}
    /\ parked = Nothing
    /\ work = [i \in Slots |-> Free]
    /\ left = [changes |-> MaxProviderChanges, lapses |-> MaxLapses, parks |-> MaxParks,
               throws |-> MaxThrows, restarts |-> MaxBoots]

Spend(what) == left[what] > 0 /\ left' = [left EXCEPT ![what] = @ - 1]

\* external: a provider starts or stops offering a model.
ProviderChanges(m) ==
    /\ Spend("changes")
    /\ up' = [up EXCEPT ![m] = ~@]
    /\ UNCHANGED <<status, revision, reading, rows, launches, parked, work>>

(***************************************************************************)
(* The status cache.                                                       *)
(***************************************************************************)
\* expire: statuses older than the TTL become stale; no transition is told.
Expire ==
    /\ \E m \in Models : status[m] # "stale"
    /\ Spend("lapses")
    /\ status' = [m \in Models |-> "stale"]
    /\ revision' = revision + 1
    /\ UNCHANGED <<up, reading, rows, launches, parked, work>>

\* refresh, until the providers have answered; one that fails leaves its
\* models stale.
RefreshReads ==
    /\ reading = NoStatuses
    /\ \/ reading' = Answer /\ UNCHANGED left
       \/ Spend("lapses") /\ \E m \in Models : reading' = [Answer EXCEPT ![m] = "stale"]
    /\ UNCHANGED <<up, status, revision, rows, launches, parked, work>>

Changed == {m \in Models : status[m] # reading[m]}
Candidates(profiles) == {r \in DOMAIN rows : rows[r].model \in profiles}

Application(todo, restored, snapshot, rev) ==
    [Free EXCEPT !.todo = todo, !.restored = restored, !.snapshot = snapshot,
                 !.base = rev, !.busy = TRUE]

RefreshCommitsNarrow ==
    /\ reading # NoStatuses
    /\ reading' = NoStatuses
    /\ status' = reading
    /\ IF Changed = {} THEN UNCHANGED <<revision, work>>
         ELSE /\ revision' = revision + 1
              /\ \E i \in Slots :
                  /\ ~work[i].busy
                  /\ work' = [work EXCEPT ![i] = Application(Candidates(Changed),
                                 {m \in Changed : reading[m] = "available" /\ status[m] = "unavailable"},
                                 reading, revision + 1)]
    /\ UNCHANGED <<up, rows, launches, parked, left>>

\* The refresh commits and its transitions start being applied: the candidate
\* rows are listed by the model they have now.
RefreshCommits ==
    /\ reading # NoStatuses
    /\ reading' = NoStatuses
    /\ status' = reading
    /\ IF Changed = {} THEN UNCHANGED <<revision, work>>
         ELSE /\ revision' = revision + 1
              /\ \E i \in Slots :
                  /\ ~work[i].busy
                  /\ work' = [work EXCEPT ![i] = Application(Candidates(Changed),
                                 {m \in Changed : reading[m] = "available"}, reading, revision + 1)]
    /\ UNCHANGED <<up, rows, launches, parked, left>>

(***************************************************************************)
(* reconcileFutureExecutionModelBlocks.  A row is evaluated under its lock *)
(* against the snapshot; the evaluation counts only if the revision is     *)
(* still the one it used, is repeated once otherwise, and parks the row    *)
(* when the revision has moved again.                                      *)
(***************************************************************************)

ReconcileRow(i, r) ==
    /\ work[i].busy /\ work[i].row = Nothing /\ r \in work[i].todo
    /\ ~Locked(r)
    /\ work' = [work EXCEPT ![i] = [@ EXCEPT !.todo = work[i].todo \ {r},
                                             !.row = IF r \in DOMAIN rows THEN r ELSE Nothing,
                                             !.seen = work[i].snapshot, !.rev = work[i].base]]
    /\ UNCHANGED <<up, status, revision, reading, rows, launches, parked, left>>

\* The loop over the rows has no handler of its own: a row that throws ends the
\* whole application, recovery of processes included.
RowThrows(i) ==
    /\ work[i].row # Nothing
    /\ Spend("throws")
    /\ work' = [work EXCEPT ![i] = Free]
    /\ UNCHANGED <<up, status, revision, reading, rows, launches, parked>>

BlockOf(m, seen) == IF seen[m] = "available" THEN Nothing ELSE "model"
Block(r, seen) == BlockOf(rows[r].model, seen)

Settled(me) == [me EXCEPT !.row = Nothing, !.tries = 0, !.seen = NoStatuses, !.rev = 0]

EvaluatedAnyway(i) ==
    LET me == work[i] IN
    /\ me.row # Nothing
    /\ rows' = [rows EXCEPT ![me.row].block = Block(me.row, me.seen)]
    /\ work' = [work EXCEPT ![i] = Settled(@)]
    /\ dated' = dated \ {me.row}
    /\ UNCHANGED <<up, status, revision, reading, plan, parked, left>>

Evaluated(i) ==
    LET me == work[i] IN
    /\ me.row # Nothing
    /\ \/ /\ revision = me.rev
          /\ rows' = [rows EXCEPT ![me.row].block = Block(me.row, me.seen)]
          /\ work' = [work EXCEPT ![i] = Settled(@)]
          /\ dated' = dated \ {me.row}
       \/ /\ revision # me.rev /\ me.tries = 0
          /\ work' = [work EXCEPT ![i].seen = status, ![i].rev = revision, ![i].tries = 1]
          /\ UNCHANGED <<rows, dated>>
       \/ /\ revision # me.rev /\ me.tries = 1
          /\ rows' = [rows EXCEPT ![me.row].block = "snapshot"]
          /\ work' = [work EXCEPT ![i] = Settled(@)]
          /\ UNCHANGED dated
    /\ UNCHANGED <<up, status, revision, reading, plan, parked, left>>

\* recoverModelAvailabilityFailures, once the rows are done: the snapshot must
\* allow the model, and the retried start is prepared with the status of now.
RecoverProcesses(i) ==
    /\ work[i].busy /\ work[i].row = Nothing /\ work[i].todo = {}
    /\ parked' = IF /\ parked \in work[i].restored
                    /\ work[i].snapshot[parked] = "available"
                    /\ status[parked] = "available"
                   THEN Nothing ELSE parked
    /\ work' = [work EXCEPT ![i] = Free]
    /\ UNCHANGED <<up, status, revision, reading, rows, launches, left>>

(***************************************************************************)
(* The users of the cache.                                                 *)
(***************************************************************************)
Scheduled(r, m, block) ==
    /\ r \in Rows \ DOMAIN rows
    /\ rows' = [x \in DOMAIN rows \cup {r} |-> IF x = r THEN [model |-> m, block |-> block] ELSE rows[x]]

\* An action is scheduled with the block its model's status calls for.
ScheduleRow(r, m) ==
    /\ Scheduled(r, m, BlockOf(m, status))
    /\ UNCHANGED <<up, status, revision, reading, launches, parked, work, left>>

\* A launch is prepared, block included, before the commit of its pipeline is
\* awaited.
PrepareLaunch(m) ==
    /\ plan = NoPlan /\ Rows \ DOMAIN rows # {}
    /\ plan' = [model |-> m, block |-> BlockOf(m, status)]
    /\ UNCHANGED <<up, status, revision, reading, rows, dated, parked, work, left>>

\* The block is persisted as it was prepared: a change in between was applied
\* to the rows there were.
PersistLaunch(r) ==
    /\ plan # NoPlan /\ plan' = NoPlan
    /\ Scheduled(r, plan.model, plan.block)
    /\ dated' = IF plan.block = BlockOf(plan.model, status) THEN dated ELSE dated \cup {r}
    /\ UNCHANGED <<up, status, revision, reading, parked, work, left>>

\* executeDueItem of a row that is not blocked: it is blocked, or it runs and
\* comes round again.
DueRow(r) ==
    /\ r \in DOMAIN rows /\ rows[r].block = Nothing /\ ~Locked(r)
    /\ status[rows[r].model] # "available"
    /\ rows' = [rows EXCEPT ![r].block = "model"]
    /\ dated' = dated \ {r}
    /\ UNCHANGED <<up, status, revision, reading, plan, parked, work, left>>

\* A start is prepared while its model is not available.
StartParks(m) ==
    /\ parked = Nothing /\ status[m] # "available"
    /\ Spend("parks")
    /\ parked' = m
    /\ UNCHANGED <<up, status, revision, reading, rows, launches, work>>

\* A new server refreshes the cache, revalidates every row and tries every
\* parked start.
Boot ==
    /\ Spend("restarts")
    /\ status' = Answer
    /\ revision' = 0
    /\ reading' = NoStatuses
    /\ \E i \in Slots :
        work' = [j \in Slots |-> IF j = i THEN Application(DOMAIN rows, Models, Answer, 0) ELSE Free]
    /\ plan' = NoPlan
    /\ UNCHANGED <<up, rows, dated, parked>>

CacheStep == RefreshReads \/ RefreshCommits
Apply(i) == (\E r \in Rows : ReconcileRow(i, r)) \/ Evaluated(i) \/ RecoverProcesses(i)

BlocksNext ==
    \/ \E m \in Models : ProviderChanges(m) \/ StartParks(m) \/ PrepareLaunch(m)
    \/ Expire
    \/ CacheStep
    \/ \E i \in Slots : Apply(i) \/ RowThrows(i)
    \/ \E r \in Rows : DueRow(r) \/ PersistLaunch(r) \/ \E m \in Models : ScheduleRow(r, m)
    \/ Boot

BlocksSpec == BlocksInit /\ [][BlocksNext]_blockVars

\* The refresh timer keeps firing and an application is never abandoned.
BlocksFairSpec ==
    /\ BlocksSpec
    /\ WF_blockVars(RefreshReads) /\ WF_blockVars(RefreshCommits)
    /\ \A i \in Slots : WF_blockVars(Apply(i))

-----------------------------------------------------------------------------
\* Type correctness; two applications never work on one row.
ModelBlocksTypeOK ==
    /\ status \in [Models -> Statuses]
    /\ revision \in 0 .. (MaxLapses * 2 + MaxProviderChanges + 2)
    /\ \A r \in DOMAIN rows : rows[r].model \in Models /\ rows[r].block \in BlockReasons
    /\ dated \subseteq DOMAIN rows
    /\ parked \in Models \cup {Nothing}
    /\ \A i, j \in Slots : work[i].row # Nothing /\ work[i].row = work[j].row => i = j

\* A row that threw leaves what its application had still to do undone.
Thrown == left.throws < MaxThrows

\* The row can run, or the change of another model overtook its evaluation
\* twice: nothing but a change of its own model or a restart frees it then.
Lifted(r) == rows[r].block = Nothing \/ (rows[r].block = "snapshot" /\ Models # {rows[r].model})

\* When nothing is being applied, what the rows say agrees with the cache: none
\* is blocked for want of a model that the cache has as available.  A launch that
\* was prepared before a change and persisted after it is the exception.
Quiet == reading = NoStatuses /\ \A i \in Slots : ~work[i].busy
BlocksAgreeWithCache ==
    Quiet /\ ~Thrown =>
        \A r \in DOMAIN rows \ dated : status[rows[r].model] = "available" => Lifted(r)

\* A row blocked while its provider offers the model again, and keeps doing so,
\* becomes runnable, with the same exception.
BlockIsLifted ==
    \A r \in Rows : \A m \in Models :
        <>[](r \in DOMAIN rows \ dated /\ rows[r].model = m /\ up[m] /\ ~Thrown)
          => <>[](r \in DOMAIN rows /\ Lifted(r))

\* A start parked for want of a model is started again once the model is back
\* for good.
ParkedStartRecovers == \A m \in Models : <>[](up[m] /\ ~Thrown) => []<>(parked # m)

\* Overlapping applications leave well-formed rows that agree with the cache.
BlocksInvariant == ModelBlocksTypeOK /\ BlocksAgreeWithCache

\* A model that is back for good frees the rows and the start that wait for it.
ReturnedModelIsUsed == BlockIsLifted /\ ParkedStartRecovers
=============================================================================
