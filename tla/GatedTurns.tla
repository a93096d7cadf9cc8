----------------------------- MODULE GatedTurns -----------------------------
(***************************************************************************)
(* Turns that wait and turns that repeat, of one process.                  *)
(*                                                                         *)
(* A gated turn (waitFor) gets no worker start before a readiness check    *)
(* admits it: every operation that would create one leaves a durable wait  *)
(* instead.  A mapped turn (forEach) freezes its items when it is entered  *)
(* and runs them one start at a time.  A check reads the process outside   *)
(* the process lock and commits its result under it, so operations come in *)
(* between.  Workers, leases and reports are module ProcessEngine; here a  *)
(* start starts, fails or ends, and all turns but the human ones are LLM   *)
(* turns.                                                                  *)
(***************************************************************************)
EXTENDS Naturals, Sequences, FiniteSets

CONSTANTS
    Turns, Done, NoTurn, \* turns, the end of the process, no selected turn
    Entry,              \* entry turn
    Human,              \* turns an operator decides
    Gated,              \* worker turns with waitFor
    Mapped,             \* worker turns with forEach
    Edges,              \* routes of outcomes and collected results
    Actions,            \* routes of operator, process-level and external actions
    MaxItems,           \* bound: items of a mapped run
    MaxStarts, MaxRuns, \* bounds: worker starts and mapped runs
    MaxChanges,         \* bound: actions, interruptions and changes of what a check reads
    MaxTimeouts,        \* bound: checks that time out or fail for the moment
    MaxServerRestarts   \* bound: server restarts

ASSUME GatedAssumption ==
    /\ Entry \in Turns /\ Human \subseteq Turns
    /\ Gated \subseteq Turns \ Human /\ Mapped \subseteq Turns \ Human
    /\ Done \notin Turns /\ NoTurn \notin Turns /\ Done # NoTurn
    /\ Edges \subseteq Turns \X (Turns \cup {Done}) /\ Actions \subseteq Turns \X (Turns \cup {Done})
    /\ {MaxItems, MaxStarts, MaxRuns, MaxChanges, MaxTimeouts, MaxServerRestarts} \subseteq Nat

VARIABLES
    life, sel, cur, \* lifecycleStatus, selectedTurnId, currentExecution (0: null)
    starts,         \* worker starts, each with the attempt it became
    runs,           \* mapped runs
    wait,           \* metadata.turnWait
    bound,          \* whether the process has projects
    check,          \* the check in flight; fresh: what it read is still current
    open,           \* whether the predicate would admit the turn now
    valid,          \* whether the commit of a start would be accepted now
    budget          \* what is left of the bounds
process == <<life, sel, cur, starts, runs, wait, bound>>
vars == <<process, check, open, valid, budget>>

NoItem  == [run |-> 0, index |-> 0]
NoStart == [turn |-> NoTurn, kind |-> "selected", item |-> NoItem]
NoWait  == [on |-> FALSE, start |-> NoStart, status |-> "waiting", due |-> FALSE, initial |-> FALSE]
NoCheck == [on |-> FALSE, fresh |-> FALSE, says |-> "waiting"]
Verdicts == {"ready", "waiting", "complete", "abort", "bind", "error"}

\* A new process, or one that was active on a turn a new definition gates.
Init ==
    /\ \/ life = "discovered" /\ sel = NoTurn
       \/ life = "active" /\ sel \in Gated
    /\ cur = 0 /\ starts = <<>> /\ runs = <<>> /\ wait = NoWait /\ bound \in BOOLEAN
    /\ check = NoCheck
    /\ open \in BOOLEAN /\ valid \in BOOLEAN
    /\ budget = [changes |-> MaxChanges, timeouts |-> MaxTimeouts, restarts |-> MaxServerRestarts]

Ended == life \in {"completed", "aborted"}
ActiveRuns(rs) == {r \in DOMAIN rs : rs[r].status = "active"}

-----------------------------------------------------------------------------
(* What every operation passes before it commits: recorder.ts *)

\* abortActiveByInstance.
Stopped(rs, s) == [r \in DOMAIN rs |-> IF rs[r].status = "active" THEN [rs[r] EXCEPT !.status = s] ELSE rs[r]]
Aborted(rs) == Stopped(rs, "aborted")
\* Aborted as well; the other name is history that a property reads.
Interrupted(rs) == Stopped(rs, "interrupted")

\* planMappedTurnEntries: a turn left by any other route aborts its run.
Left(rs, t) == IF \E r \in ActiveRuns(rs) : rs[r].turn # t THEN Aborted(rs) ELSE rs

\* deferTurnWaitStarts: a start of a gated turn is deferred unless the check
\* that is being committed admits it or it is the next item of an admitted run.
Defers(start, admitted) ==
    /\ start.turn \in Gated /\ start.turn # admitted
    /\ ~(start.item # NoItem /\ start.kind = "selected")

\* A wait for a turn that is selected again stays what it was.
Deferred(start) ==
    IF wait.on /\ wait.start.turn = start.turn /\ start.kind = "selected" /\ wait.status = "waiting"
    THEN wait
    ELSE [on |-> TRUE, start |-> start, status |-> "waiting", due |-> TRUE,
          initial |-> sel = NoTurn /\ life = "discovered"]

\* prepareCreatedTurnStarts may fail and park the process.  A start whose contract,
\* items, profile or provider options it does not take is not created at all: the
\* whole operation is refused and writes nothing.
Create(ss, start, rs) ==
    /\ valid /\ Len(ss) < MaxStarts
    /\ \E state \in {"starting", "unprepared"} :
         /\ starts' = Append(ss, [start |-> start, state |-> state])
         /\ life' = IF state = "starting" THEN "active" ELSE "error"
    /\ cur' = Len(ss) + 1 /\ wait' = NoWait /\ runs' = rs

\* A start is wanted: it waits, or it freezes the items of a newly entered
\* mapped turn, or it is created as it is.
Begin(ss, start, admitted, rs) ==
    /\ sel' = start.turn
    /\ IF Defers(start, admitted)
         THEN /\ wait' = Deferred(start) /\ runs' = Left(rs, start.turn)
              /\ life' = "waiting" /\ cur' = 0 /\ starts' = ss
       ELSE IF start.turn \in Mapped /\ start.kind = "selected" /\ start.item = NoItem
         THEN \E n \in 1 .. MaxItems :
                /\ Len(runs) < MaxRuns
                /\ Create(ss, [start EXCEPT !.item = [run |-> Len(rs) + 1, index |-> 1]],
                          Append(Aborted(rs), [turn |-> start.turn, status |-> "active", next |-> 1, count |-> n]))
         ELSE Create(ss, start, Left(rs, start.turn))

\* Turns a selection may pass through: mapped turns without items are collected
\* and routed at once, unless their gate holds them.
Landings ==
    [admitted \in Turns \cup {NoTurn} |-> [t \in Turns \cup {Done} |->
        LET passed[n \in 0 .. Cardinality(Turns)] ==
              IF n = 0 THEN {t}
              ELSE passed[n - 1] \cup {u \in Turns \cup {Done} :
                     \E x \in passed[n - 1] : x \in Mapped /\ (x \in Gated => x = admitted) /\ <<x, u>> \in Edges}
        IN passed[Cardinality(Turns)]]]

\* buildTurnSelectionWrites, deferred and mapped.
Select(ss, target, admitted, rs) ==
    \E t \in Turns \cup {Done} :
        /\ t \in Landings[admitted][target]
        /\ IF t \in Turns \ Human
           THEN Begin(ss, [turn |-> t, kind |-> "selected", item |-> NoItem], admitted, rs)
           ELSE /\ sel' = IF t = Done THEN NoTurn ELSE t
                /\ life' = IF t = Done THEN "completed" ELSE "waiting"
                /\ cur' = 0 /\ wait' = NoWait /\ runs' = Left(rs, t)
                /\ starts' = ss

\* A check in flight is outdated by any change of the wait or of what it read.
Outdated == check' = [check EXCEPT !.fresh = FALSE]
Unless(kept) == IF kept THEN check' \in {check, [check EXCEPT !.fresh = FALSE]} ELSE Outdated

-----------------------------------------------------------------------------
(* Operations *)

StartProcess ==
    /\ life = "discovered"
    /\ Select(starts, Entry, NoTurn, runs) /\ Outdated
    /\ UNCHANGED <<bound, open, valid, budget>>

\* ExecuteAction supersedes nothing; an external action may select its own turn.
ExecuteAction ==
    /\ budget.changes > 0 /\ budget' = [budget EXCEPT !.changes = @ - 1]
    /\ \E t \in Turns \cup {Done} : <<sel, t>> \in Actions /\ Select(starts, t, NoTurn, runs)
    /\ Unless(wait' = wait)
    /\ UNCHANGED <<bound, open, valid>>

\* supersedeExecution.
Superseded ==
    [s \in DOMAIN starts |-> IF s = cur /\ starts[s].state \in {"starting", "running"}
                             THEN [starts[s] EXCEPT !.state = "superseded"] ELSE starts[s]]

End(outcome) ==
    /\ starts' = Superseded /\ runs' = Aborted(runs)
    /\ life' = outcome /\ sel' = NoTurn /\ cur' = 0 /\ wait' = NoWait

AbortProcess ==
    /\ ~Ended
    /\ End("aborted") /\ Outdated
    /\ UNCHANGED <<bound, open, valid, budget>>

\* ApplyProcessObservation, with an interruption: the execution is fenced, its
\* run aborted, and a gated turn is selected anew.
Interrupt ==
    /\ ~Ended /\ budget.changes > 0
    /\ \E t \in Gated :
         LET start == [turn |-> t, kind |-> "selected", item |-> NoItem] IN
         /\ starts' = Superseded /\ runs' = Interrupted(runs)
         /\ life' = "waiting" /\ sel' = t /\ cur' = 0 /\ wait' = Deferred(start)
    /\ Unless(wait' = wait)
    /\ budget' = [budget EXCEPT !.changes = @ - 1]
    /\ UNCHANGED <<bound, open, valid>>

\* Params, state or projects are changed by somebody else.
Observe ==
    /\ ~Ended /\ budget.changes > 0
    /\ budget' = [budget EXCEPT !.changes = @ - 1]
    /\ Outdated
    /\ UNCHANGED <<process, open, valid>>

WorkerAccepts ==
    /\ cur # 0 /\ life = "active" /\ starts[cur].state = "starting"
    /\ starts' = [starts EXCEPT ![cur].state = "running"]
    /\ UNCHANGED <<life, sel, cur, runs, wait, bound, check, open, valid, budget>>

\* A worker that never accepts, or the failure of an accepted attempt.
TurnFailed ==
    /\ cur # 0 /\ starts[cur].state \in {"starting", "running"}
    /\ starts' = [starts EXCEPT ![cur].state = IF @ = "starting" THEN "unprepared" ELSE "failed"]
    /\ life' = "error" /\ Outdated
    /\ UNCHANGED <<sel, cur, runs, wait, bound, open, valid, budget>>

\* buildMappedItemOutcomeWrites: the item is the current one of an active run.
CurrentItem(start) ==
    LET r == start.item.run IN
    /\ r \in DOMAIN runs
    /\ runs[r].status = "active" /\ runs[r].turn = start.turn /\ runs[r].next = start.item.index

\* Mutant: the result is stored and the run does not move on.
CompletedInPlace(r) == runs

\* completeItem.
Completed(r) ==
    [runs EXCEPT ![r].next = @ + 1, ![r].status = IF runs[r].next = runs[r].count THEN "completed" ELSE "active"]

\* TurnOutcome of the current attempt: a plain turn takes its route, an item
\* is followed by the next item of its run, the last item by the route.
TurnOutcome ==
    /\ cur # 0 /\ starts[cur].state = "running"
    /\ LET start == starts[cur].start
           r     == start.item.run
           done  == [starts EXCEPT ![cur].state = "succeeded"]
           next  == [start EXCEPT !.kind = "selected", !.item.index = @ + 1] IN
       \/ /\ start.turn \notin Mapped
          /\ \E t \in Turns \cup {Done} : <<sel, t>> \in Edges /\ Select(done, t, NoTurn, runs)
       \/ /\ start.turn \in Mapped /\ CurrentItem(start) /\ start.item.index < runs[r].count
          /\ Begin(done, next, NoTurn, Completed(r))
       \/ /\ start.turn \in Mapped /\ CurrentItem(start) /\ start.item.index = runs[r].count
          /\ \E t \in Turns \cup {Done} : <<sel, t>> \in Edges /\ Select(done, t, NoTurn, Completed(r))
       \/ \* Refused, stale_mapped_item or the start that follows:
          \* recoverRecordingFailure fails the attempt.
          /\ ~valid \/ (start.turn \in Mapped /\ ~CurrentItem(start))
          /\ starts' = [starts EXCEPT ![cur].state = "failed"]
          /\ life' = "error" /\ UNCHANGED <<sel, cur, runs, wait>>
    /\ Outdated
    /\ UNCHANGED <<bound, open, valid, budget>>

\* RetryStartup, RetryFailedTurn and ContinueFailedTurn: the new start keeps the
\* item of the one it recovers.
RetryTurn ==
    /\ life = "error" /\ cur # 0 /\ starts[cur].state \in {"unprepared", "failed"}
    /\ Begin(starts, [starts[cur].start EXCEPT !.kind = "recovery"], NoTurn, runs)
    /\ Outdated
    /\ UNCHANGED <<bound, open, valid, budget>>

RetryTurnWait ==
    /\ life = "error" /\ wait.on /\ wait.status = "error"
    /\ wait' = [wait EXCEPT !.status = "waiting", !.due = TRUE]
    /\ life' = "waiting" /\ Outdated
    /\ UNCHANGED <<sel, cur, starts, runs, bound, open, valid, budget>>

-----------------------------------------------------------------------------
(* The readiness service *)

\* evaluate, first part: a process from before its turn was gated.
ArmTurnWait ==
    /\ life = "active" /\ cur = 0 /\ ~wait.on /\ sel \in Gated
    /\ Select(starts, sel, NoTurn, runs) /\ Outdated
    /\ UNCHANGED <<bound, open, valid, budget>>

\* poll, or the hook after an operation: one check at a time, when it is due.
\* A binding is an error unless the process has neither projects nor history.
CheckBegins ==
    /\ ~check.on
    /\ wait.on /\ wait.status = "waiting" /\ life = "waiting" /\ wait.due
    /\ \/ /\ \E says \in IF open THEN {"ready"} ELSE Verdicts \ {"ready"} :
               check' = [on |-> TRUE, fresh |-> TRUE,
                         says |-> IF says = "bind" /\ (bound \/ ~wait.initial) THEN "error" ELSE says]
          /\ UNCHANGED budget
       \/ /\ budget.timeouts > 0
          /\ budget' = [budget EXCEPT !.timeouts = @ - 1]
          /\ check' = [on |-> TRUE, fresh |-> TRUE, says |-> "retry"]
    /\ UNCHANGED <<process, open, valid>>

\* ResolveTurnWait, result "ready".  The operation may be refused because of the
\* start it would create; the wait stays what it was and is checked again.
Admit ==
    LET start == wait.start IN
    \/ /\ start.kind = "selected" /\ start.item = NoItem
       /\ Select(starts, start.turn, start.turn, runs)
    \/ /\ start.kind # "selected" \/ start.item # NoItem
       /\ Begin(starts, start, start.turn, runs)
    \/ ~valid /\ UNCHANGED <<life, sel, cur, starts, runs, wait>>

\* Mutant: a result is committed whatever happened since.
MayResolveAnyway == check.says = "complete" \/ (wait.on /\ life = "waiting")

MayResolveActive == check.fresh /\ wait.on /\ life = "active"  \* mutant: the wrong lifecycle is asked for

MayResolve == check.fresh /\ wait.on /\ life = "waiting"

\* ResolveTurnWait.
CheckEnds ==
    /\ check.on /\ check' = NoCheck
    /\ \/ ~MayResolve /\ UNCHANGED process
       \/ MayResolve /\ check.says = "ready" /\ Admit /\ UNCHANGED bound
       \/ MayResolve /\ check.says = "complete" /\ End("completed") /\ UNCHANGED bound
       \/ MayResolve /\ check.says = "abort" /\ End("aborted") /\ UNCHANGED bound
       \/ /\ MayResolve /\ check.says = "bind"
          /\ bound' = TRUE /\ wait' = [wait EXCEPT !.due = TRUE]
          /\ UNCHANGED <<life, sel, cur, starts, runs>>
       \/ /\ MayResolve /\ check.says \in {"waiting", "retry"}
          /\ wait' = [wait EXCEPT !.due = FALSE]
          /\ UNCHANGED <<life, sel, cur, starts, runs, bound>>
       \/ /\ MayResolve /\ check.says = "error"
          /\ wait' = [wait EXCEPT !.due = FALSE, !.status = "error"] /\ life' = "error"
          /\ UNCHANGED <<sel, cur, starts, runs, bound>>
    /\ UNCHANGED <<open, valid, budget>>

\* nextCheckAt passes.
Elapse ==
    /\ wait.on /\ ~wait.due
    /\ wait' = [wait EXCEPT !.due = TRUE]
    /\ UNCHANGED <<life, sel, cur, starts, runs, bound, check, open, valid, budget>>

\* What the predicate reads changes.
GateMoves ==
    /\ wait.on /\ open' = ~open
    /\ UNCHANGED <<process, check, valid, budget>>

\* The configuration, or what a turn makes of its contract and items, changes.
ConfigurationMoves ==
    /\ valid' = ~valid
    /\ UNCHANGED <<process, check, open, budget>>

\* The server restarts: the check is gone, the wait is not.
ServerRestarts ==
    /\ budget.restarts > 0
    /\ budget' = [budget EXCEPT !.restarts = @ - 1]
    /\ check' = NoCheck
    /\ UNCHANGED <<process, open, valid>>

Next ==
    \/ StartProcess \/ ExecuteAction \/ AbortProcess \/ Interrupt \/ Observe
    \/ WorkerAccepts \/ TurnFailed \/ TurnOutcome \/ RetryTurn \/ RetryTurnWait
    \/ ArmTurnWait \/ CheckBegins \/ CheckEnds \/ Elapse \/ GateMoves
    \/ ConfigurationMoves \/ ServerRestarts

Spec == Init /\ [][Next]_vars

\* The poll loop runs every second, a check ends or times out, time passes.
FairSpec == Spec /\ WF_vars(CheckBegins) /\ WF_vars(CheckEnds) /\ WF_vars(Elapse) /\ WF_vars(ArmTurnWait)

-----------------------------------------------------------------------------
(* Properties *)

\* Type correctness.
GatedTypeOK ==
    /\ life \in {"discovered", "active", "waiting", "error", "completed", "aborted"}
    /\ sel \in Turns \cup {NoTurn} /\ cur \in 0 .. Len(starts)
    /\ wait.status \in {"waiting", "error"} /\ {wait.on, wait.due, wait.initial, bound} \subseteq BOOLEAN
    /\ \A r \in DOMAIN runs : runs[r].next \in 1 .. runs[r].count + 1
    /\ check.says \in Verdicts \cup {"retry"}

\* A process that waits is waiting for its selected turn and executes nothing,
\* and a worker turn is never left selected with neither a start nor a wait.
WaitHoldsTheTurn ==
    /\ wait.on => /\ cur = 0 /\ sel = wait.start.turn /\ sel \in Gated
                  /\ life = IF wait.status = "error" THEN "error" ELSE "waiting"
    /\ life \in {"waiting", "error"} /\ sel \in Turns \ Human => wait.on \/ cur # 0

\* At most one mapped run is active, and only while its turn is selected.
ActiveRunIsSelected ==
    /\ Cardinality(ActiveRuns(runs)) <= 1
    /\ \A r \in ActiveRuns(runs) : sel = runs[r].turn

\* Every item before the run's current one succeeded in exactly one attempt,
\* the others in none: nothing is skipped or collected twice.
ItemsSucceedOnce ==
    \A r \in DOMAIN runs : \A i \in 1 .. runs[r].count :
        Cardinality({s \in DOMAIN starts : /\ starts[s].start.item = [run |-> r, index |-> i]
                                           /\ starts[s].state = "succeeded"})
          = IF i < runs[r].next THEN 1 ELSE 0

\* The item a worker is started for is the current item of an active run.  An
\* interruption is the exception: a recovery start that waited keeps naming the
\* item of the run that was aborted.
AdmittedItemIsCurrent ==
    cur # 0 /\ starts[cur].state \in {"starting", "running"} /\ starts[cur].start.turn \in Mapped
        => LET item == starts[cur].start.item IN
           \/ CurrentItem(starts[cur].start)
           \/ item # NoItem /\ runs[item.run].status = "interrupted"

\* A late check starts nothing that was not admitted: no start of a gated turn is
\* persisted but by a check that found the turn ready on inputs that are still
\* current, or as the next item of its run.  And it revives no stopped process.
ChecksStartNothingElse ==
    [][LET new == starts'[Len(starts')].start IN
       /\ Len(starts') > Len(starts) /\ new.turn \in Gated
            => \/ check.on /\ check.fresh /\ check.says = "ready" /\ ~check'.on
               \/ new.item.index > 1 /\ new.kind = "selected"
       /\ Ended => UNCHANGED process]_vars

\* A gated turn is admitted, mapped or not, whatever came in between, when in the
\* end its gate stays open and its start stays one the commit accepts: no late,
\* outdated, refused, timed out or lost check leaves it waiting for ever.  A
\* predicate that fails ends in an error that the operator retries.
ReadyTurnStarts ==
    <>[](open /\ valid) =>
        []((wait.on /\ wait.status = "waiting")
             => <>(~wait.on \/ wait.status = "error"
                     \/ Len(starts) = MaxStarts \/ Len(runs) = MaxRuns))

\* The process, its wait and its mapped run agree, and no item succeeds twice.
GatedInvariant ==
    /\ GatedTypeOK /\ WaitHoldsTheTurn /\ ActiveRunIsSelected
    /\ ItemsSucceedOnce /\ AdmittedItemIsCurrent
=============================================================================
