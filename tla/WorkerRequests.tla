--------------------------- MODULE WorkerRequests ---------------------------
(***************************************************************************)
(* Calls a turn makes to the server while it runs: questions to the        *)
(* operator, tools that write to a provider, and tools that write only     *)
(* after an operator approved the write.  A call is named by its turn      *)
(* record and its place in the turn; the worker repeats a pending call     *)
(* after a reconnection, the server keeps questions and approvals durably  *)
(* and writes through the external write log.                              *)
(***************************************************************************)
EXTENDS Integers, Sequences

CONSTANTS
    Plans,        \* what a turn may do: the calls it makes in order, and whether,
                  \* resumed, it repeats them by name (an automatic turn)
    MaxCalls,     \* the number of calls of a turn
    MaxTurns,     \* bound on attempts
    MaxMishaps    \* bound: lost connections, provider errors and server restarts

ASSUME RequestsAssumption ==
    /\ Plans \subseteq [calls : [1..MaxCalls -> {"question", "ticket", "tool"}], automatic : BOOLEAN]
    /\ {MaxCalls, MaxMishaps} \subseteq Nat /\ MaxTurns \in Nat \ {0}

VARIABLES
    turn,      \* the newest attempt: its record, status, accepted lease and plan
    worker,    \* the worker: its state, lease, attempt, next and pending call
    up, down,  \* messages to and from the server
    rows,      \* key -> durable question or approval request
    run,       \* key -> the server's pending execution and its signal
    written,   \* key -> writes the provider has made
    log,       \* keys in the external write log
    aborting,  \* attempts a declined approval is about to abort
    budget     \* what is left of the bound
vars == <<turn, worker, up, down, rows, run, written, log, aborting, budget>>
durable == <<turn, rows, log>>

Keys == (1..MaxTurns) \X (1..MaxCalls)
NoCall == 0
KindOf(k) == turn.plan.calls[k[2]]
Pending == <<worker.n, worker.call>>

Idle == [stage |-> "none", signal |-> FALSE]
Message(type, k) == [type |-> type, key |-> k]
NewWorker(lease, n, next) ==
    [state |-> "up", linked |-> TRUE, lease |-> lease, n |-> n, next |-> next, call |-> NoCall, done |-> FALSE]

Init ==
    /\ \E plan \in Plans : turn = [n |-> 1, status |-> "running", lease |-> 1, plan |-> plan]
    /\ worker = NewWorker(1, 1, 1)
    /\ up = <<>> /\ down = <<>>
    /\ rows = [k \in Keys |-> "none"]
    /\ run = [k \in Keys |-> Idle]
    /\ written = [k \in Keys |-> 0]
    /\ log = {} /\ aborting = {}
    /\ budget = MaxMishaps

(***************************************************************************)
(* The worker: ReplayingRequestBridge and its two users.                   *)
(***************************************************************************)
Up == worker.state = "up"
\* What the worker says of a call it gives up: only tools are cancelled.
Cancellation ==
    IF worker.call # NoCall /\ KindOf(Pending) # "question"
      THEN <<Message("cancel", Pending)>> ELSE <<>>

\* request: calls of a turn are sequential.
Ask ==
    /\ Up /\ ~worker.done /\ worker.call = NoCall /\ worker.next <= MaxCalls
    /\ worker' = [worker EXCEPT !.call = worker.next, !.next = @ + 1]
    /\ up' = Append(up, Message("ask", <<worker.n, worker.next>>))
    /\ UNCHANGED <<turn, down, rows, run, written, log, aborting, budget>>

\* The turn reaches its end, or is stopped in the middle of a call.
FinishTurn ==
    /\ Up /\ ~worker.done
    /\ worker' = [worker EXCEPT !.call = NoCall, !.done = TRUE]
    /\ up' = up \o Cancellation \o <<Message("ended", <<worker.n, NoCall>>)>>
    /\ UNCHANGED <<turn, down, rows, run, written, log, aborting, budget>>

\* handle: a reply settles the call it names; worker.stop gives up the call.
WorkerHears ==
    /\ Up /\ worker.linked /\ down # <<>>
    /\ down' = Tail(down)
    /\ \/ /\ Head(down).type = "reply"
          /\ worker' = [worker EXCEPT !.call = IF Head(down).key = Pending THEN NoCall ELSE @]
          /\ UNCHANGED up
       \/ /\ Head(down).type = "stop"
          /\ worker' = [worker EXCEPT !.call = NoCall, !.done = TRUE]
          /\ up' = up \o Cancellation
    /\ UNCHANGED <<turn, rows, run, written, log, aborting, budget>>

\* The connection is lost with what is in flight.
Drop ==
    /\ Up /\ worker.linked /\ budget > 0
    /\ worker' = [worker EXCEPT !.linked = FALSE]
    /\ up' = <<>> /\ down' = <<>>
    /\ budget' = budget - 1
    /\ UNCHANGED <<turn, rows, run, written, log, aborting>>

\* Mutant: the pending call is not repeated.
ReconnectSilently ==
    /\ Up /\ ~worker.linked
    /\ worker' = [worker EXCEPT !.linked = TRUE]
    /\ up' = up
    /\ UNCHANGED <<turn, down, rows, run, written, log, aborting, budget>>

\* The connect handler repeats what is pending, before what was buffered; the
\* end of the turn is repeated until it is recorded.
Reconnect ==
    /\ Up /\ ~worker.linked
    /\ worker' = [worker EXCEPT !.linked = TRUE]
    /\ up' = (IF worker.call # NoCall THEN <<Message("ask", Pending)>> ELSE <<>>)
             \o up \o (IF worker.done THEN <<Message("ended", <<worker.n, NoCall>>)>> ELSE <<>>)
    /\ UNCHANGED <<turn, down, rows, run, written, log, aborting, budget>>

Dies ==
    /\ Up
    /\ worker' = [worker EXCEPT !.state = "dead", !.linked = FALSE, !.call = NoCall]
    /\ up' = <<>> /\ down' = <<>>
    /\ UNCHANGED <<turn, rows, run, written, log, aborting, budget>>

WorkerDies == turn.status \in {"running", "ended"} /\ Dies

\* stopWorker: the worker of a process that left the turn exits, or is killed
\* when its grace period is over.
WorkerStopped == turn.status \in {"aborted", "left"} /\ Dies

(***************************************************************************)
(* What the server decides by.                                             *)
(***************************************************************************)
IsCurrent(k) == turn.n = k[1] /\ turn.status = "running"
RecordRuns(k) == turn.n = k[1] /\ turn.status \in {"running", "left"}
Active(k) == IsCurrent(k) /\ ~run[k].signal
Accepts(k, lease) == RecordRuns(k) /\ turn.lease = lease

\* A reply is sent to the worker that is registered, or queued for it.
Sent(messages) == IF Up THEN down \o messages ELSE down
Reply(k) == Sent(<<Message("reply", k)>>)

\* reconcile: whoever waits for a request that is no longer open goes on.
Woken(rs, executions) ==
    [k \in Keys |-> IF executions[k].stage = "review" /\ rs[k] # "open"
                      THEN [executions[k] EXCEPT !.stage = "decided"] ELSE executions[k]]

\* cancelOpenByTurn
Cancelled(n, kinds) ==
    [k \in Keys |-> IF k[1] = n /\ KindOf(k) \in kinds /\ rows[k] = "open" THEN "cancelled" ELSE rows[k]]

Finished(k) == [run EXCEPT ![k] = Idle]
At(k, stage) == [run EXCEPT ![k].stage = stage]

(***************************************************************************)
(* The turn.                                                               *)
(***************************************************************************)
\* Mutant: the end of a record leaves its requests open.
CloseLoosely(status) ==
    /\ turn' = [turn EXCEPT !.status = status]
    /\ UNCHANGED <<rows, run>>

\* commitWrites: a record that stops running takes its open requests with it,
\* and afterRecord wakes those who wait for them.
Close(status) ==
    /\ turn' = [turn EXCEPT !.status = status]
    /\ rows' = IF turn.status = "running" THEN Cancelled(turn.n, {"question", "ticket"}) ELSE rows
    /\ run' = Woken(rows', run)

HandleEnded ==
    /\ Up /\ worker.linked /\ up # <<>> /\ Head(up).type = "ended"
    /\ up' = Tail(up)
    /\ IF IsCurrent(Head(up).key) THEN Close("ended") ELSE UNCHANGED <<turn, rows, run>>
    /\ UNCHANGED <<worker, down, written, log, aborting, budget>>

ExitObserved ==
    /\ worker.state = "dead"
    /\ worker' = [worker EXCEPT !.state = "none"]
    /\ IF IsCurrent(<<worker.n, NoCall>>) THEN Close("ended") ELSE UNCHANGED <<turn, rows, run>>
    /\ UNCHANGED <<up, down, written, log, aborting, budget>>

\* An abort ends the current execution's record: one that was left before stays
\* as it is, with its question, and its worker was told to stop already.
AbortProcess ==
    /\ turn.status \in {"running", "ended"}
    /\ Close("aborted")
    /\ down' = Sent(<<Message("stop", <<turn.n, NoCall>>)>>)
    /\ UNCHANGED <<worker, up, written, log, aborting, budget>>

\* ExecuteAction of a process-level action: the record is left as it is.
LeaveTurn ==
    /\ turn.status = "running"
    /\ turn' = [turn EXCEPT !.status = "left"]
    /\ down' = Sent(<<Message("stop", <<turn.n, NoCall>>)>>)
    /\ UNCHANGED <<worker, up, rows, run, written, log, aborting, budget>>

RetryTurn ==
    /\ turn.status = "ended" /\ worker.state = "none" /\ turn.n < MaxTurns
    /\ turn' = [turn EXCEPT !.n = @ + 1, !.status = "running", !.lease = worker.lease + 1]
    /\ worker' = NewWorker(worker.lease + 1, turn.n + 1, 1)
    /\ UNCHANGED <<up, down, rows, run, written, log, aborting, budget>>

(***************************************************************************)
(* Questions: createProcessQuestionService.                                *)
(***************************************************************************)
Asked(k) == /\ Up /\ worker.linked /\ up # <<>> /\ Head(up) = Message("ask", k)
            /\ up' = Tail(up)

\* handleWorkerRequest
HandleQuestion(k) ==
    /\ KindOf(k) = "question" /\ Asked(k)
    /\ rows' = [rows EXCEPT ![k] = IF Accepts(k, worker.lease) /\ @ = "none" THEN "open" ELSE @]
    /\ down' = IF Accepts(k, worker.lease) /\ rows[k] = "answered" THEN Reply(k) ELSE down
    /\ UNCHANGED <<turn, worker, run, written, log, aborting, budget>>

\* submitAnswers: the answer is kept if the request is still current, and sent
\* to whichever worker is registered.
SubmitAnswers(k) ==
    /\ KindOf(k) = "question" /\ rows[k] = "open" /\ Accepts(k, worker.lease)
    /\ rows' = [rows EXCEPT ![k] = "answered"]
    /\ down' = Reply(k)
    /\ UNCHANGED <<turn, worker, up, run, written, log, aborting, budget>>

(***************************************************************************)
(* Tools: createIntegrationToolRequestService and the approval gate.       *)
(***************************************************************************)
\* handle: a call that is being executed is joined, a stale one refused.
HandleRequest(k) ==
    /\ KindOf(k) # "question" /\ Asked(k)
    /\ IF run[k].stage = "none" /\ IsCurrent(k)
         THEN run' = [run EXCEPT ![k] = [Idle EXCEPT !.stage = "resolving"]] ELSE UNCHANGED run
    /\ down' = IF run[k].stage = "none" /\ ~IsCurrent(k) THEN Reply(k) ELSE down
    /\ UNCHANGED <<turn, worker, rows, written, log, aborting, budget>>

Refuse(k) == run' = Finished(k) /\ down' = Reply(k)

\* The destination is resolved: a ticket goes to review, where a request that
\* was decided before is decided at once.
Review(k) ==
    /\ run[k].stage = "resolving"
    /\ \/ ~Active(k) /\ Refuse(k) /\ UNCHANGED rows
       \/ /\ Active(k) /\ KindOf(k) = "tool"
          /\ run' = At(k, "lookup") /\ UNCHANGED <<down, rows>>
       \/ /\ Active(k) /\ KindOf(k) = "ticket"
          /\ rows' = [rows EXCEPT ![k] = IF @ = "none" THEN "open" ELSE @]
          /\ run' = At(k, IF rows'[k] = "open" THEN "review" ELSE "decided")
          /\ UNCHANGED down
    /\ UNCHANGED <<turn, worker, up, written, log, aborting, budget>>

\* resolve, and the route that aborts the process after a decline.
Decide(k, decision) ==
    /\ KindOf(k) = "ticket" /\ rows[k] = "open"
    /\ IF IsCurrent(k)
         THEN /\ rows' = [rows EXCEPT ![k] = decision]
              /\ aborting' = IF decision = "declined" THEN aborting \cup {k[1]} ELSE aborting
         ELSE rows' = Cancelled(k[1], {"ticket"}) /\ UNCHANGED aborting
    /\ run' = Woken(rows', run)
    /\ UNCHANGED <<turn, worker, up, down, written, log, budget>>

\* abortProcess with expectedTurnRecordId
DeclineAborts(n) ==
    /\ n \in aborting
    /\ aborting' = aborting \ {n}
    /\ IF turn.n = n /\ turn.status \in {"running", "ended"}
         THEN Close("aborted") /\ down' = Sent(<<Message("stop", <<n, NoCall>>)>>)
         ELSE UNCHANGED <<turn, rows, run, down>>
    /\ UNCHANGED <<worker, up, written, log, budget>>

\* Mutant: only a declined request stops the write.
ProceedUnlessDeclined(k) ==
    /\ run[k].stage = "decided"
    /\ IF rows[k] # "declined" /\ Active(k)
         THEN run' = At(k, "lookup") /\ UNCHANGED down ELSE Refuse(k)
    /\ UNCHANGED <<turn, worker, up, rows, written, log, aborting, budget>>

\* The waiter goes on: only an accepted request of an active call is executed.
Proceed(k) ==
    /\ run[k].stage = "decided"
    /\ IF rows[k] = "accepted" /\ Active(k)
         THEN run' = At(k, "lookup") /\ UNCHANGED down ELSE Refuse(k)
    /\ UNCHANGED <<turn, worker, up, rows, written, log, aborting, budget>>

\* cancel
HandleCancel(k) ==
    /\ Up /\ worker.linked /\ up # <<>> /\ Head(up) = Message("cancel", k)
    /\ up' = Tail(up)
    /\ rows' = Cancelled(k[1], {"ticket"})
    /\ run' = Woken(rows', [run EXCEPT ![k].signal = @ \/ run[k].stage # "none"])
    /\ UNCHANGED <<turn, worker, down, written, log, aborting, budget>>

(***************************************************************************)
(* ensure: a write is looked up, made, and logged.                         *)
(***************************************************************************)
Fault == budget > 0 /\ budget' = budget - 1

\* Mutant: what the log does not know is written without looking.
LookupInLog(k) ==
    /\ run[k].stage = "lookup"
    /\ run' = At(k, IF k \in log THEN "made" ELSE "executing") /\ UNCHANGED <<down, budget>>
    /\ UNCHANGED <<turn, worker, up, rows, written, log, aborting>>

\* reconcile before the write: what is found is not made again.
Lookup(k) ==
    /\ run[k].stage = "lookup"
    /\ \/ run' = At(k, IF written[k] > 0 THEN "made" ELSE "executing") /\ UNCHANGED <<down, budget>>
       \/ Fault /\ Refuse(k)
    /\ UNCHANGED <<turn, worker, up, rows, written, log, aborting>>

\* execute: an error may come after the write took effect.
Execute(k) ==
    /\ run[k].stage = "executing"
    /\ \/ /\ written' = [written EXCEPT ![k] = @ + 1]
          /\ run' = At(k, "made") /\ UNCHANGED budget
       \/ /\ Fault /\ run' = At(k, "recovering")
          /\ written' \in {written, [written EXCEPT ![k] = @ + 1]}
    /\ UNCHANGED <<turn, worker, up, down, rows, log, aborting>>

\* reconcile after an error.
Recover(k) ==
    /\ run[k].stage = "recovering"
    /\ \/ /\ IF written[k] > 0 THEN run' = At(k, "made") /\ UNCHANGED down ELSE Refuse(k)
          /\ UNCHANGED budget
       \/ Fault /\ Refuse(k)
    /\ UNCHANGED <<turn, worker, up, rows, written, log, aborting>>

\* recordWriteIfMissing, and the result goes to the worker.
Record(k) ==
    /\ run[k].stage = "made"
    /\ log' = log \cup {k}
    /\ Refuse(k)
    /\ UNCHANGED <<turn, worker, up, rows, written, aborting, budget>>

(***************************************************************************)
(* The server restarts.  Writes under way took effect or never will; the   *)
(* worker is adopted, or it is gone and the running turn is resumed.       *)
(***************************************************************************)
Restart ==
    /\ budget > 0
    /\ budget' = budget - 1
    /\ \E done \in SUBSET {k \in Keys : run[k].stage = "executing"} :
         written' = [k \in Keys |-> IF k \in done THEN written[k] + 1 ELSE written[k]]
    /\ run' = [k \in Keys |-> Idle]
    /\ aborting' = {}
    /\ up' = <<>> /\ down' = <<>>
    /\ \/ Up /\ worker' = [worker EXCEPT !.linked = FALSE]
       \/ worker' = [worker EXCEPT !.state = "none", !.linked = FALSE, !.call = NoCall]
    /\ UNCHANGED durable

Resume ==
    /\ turn.status = "running" /\ worker.state = "none"
    /\ worker' = NewWorker(worker.lease + 1, turn.n, IF turn.plan.automatic THEN 1 ELSE worker.next)
    /\ UNCHANGED <<turn, up, down, rows, run, written, log, aborting, budget>>

ServerStep(k) ==
    \/ HandleQuestion(k) \/ HandleRequest(k) \/ HandleCancel(k)
    \/ Review(k) \/ Proceed(k) \/ Lookup(k) \/ Execute(k) \/ Recover(k) \/ Record(k)

Operator ==
    \/ \E k \in Keys : SubmitAnswers(k) \/ \E d \in {"accepted", "feedback", "declined"} : Decide(k, d)
    \/ AbortProcess \/ LeaveTurn \/ RetryTurn

Next ==
    \/ \E k \in Keys : ServerStep(k)
    \/ Operator
    \/ Ask \/ FinishTurn \/ WorkerHears \/ Drop \/ Reconnect \/ WorkerDies \/ WorkerStopped
    \/ HandleEnded \/ ExitObserved
    \/ \E n \in 1..MaxTurns : DeclineAborts(n)
    \/ Restart \/ Resume

Spec == Init /\ [][Next]_vars

\* The server handles what arrives, the worker reads its link or opens it again,
\* and a worker that ended is noticed: one condition for all, as each has its
\* turn in the end.  Nothing is assumed of the operator, of the model, or of
\* misfortune.
Progress ==
    \/ \E k \in Keys : ServerStep(k)
    \/ WorkerHears \/ Reconnect \/ WorkerStopped \/ HandleEnded \/ ExitObserved \/ Resume

FairSpec == Spec /\ WF_vars(Progress)

(***************************************************************************)
(* Properties.                                                             *)
(***************************************************************************)
Stages == {"none", "resolving", "review", "decided", "lookup", "executing", "recovering", "made"}

\* Types; a pending call is always the last one the worker made.
RequestsTypeOK ==
    /\ turn \in [n : 1..MaxTurns, status : {"running", "left", "ended", "aborted"}, lease : Nat, plan : Plans]
    /\ worker.state \in {"up", "dead", "none"} /\ worker.n <= turn.n
    /\ worker.next \in 1..(MaxCalls + 1) /\ worker.call \in {NoCall, worker.next - 1}
    /\ rows \in [Keys -> {"none", "open", "answered", "accepted", "feedback", "declined", "cancelled"}]
    /\ run \in [Keys -> [stage : Stages, signal : BOOLEAN]]
    /\ log \subseteq Keys /\ aborting \subseteq 1..MaxTurns

\* A call writes to the provider at most once, however often it is repeated
\* after lost connections, provider errors, restarts and resumptions (ensure).
WrittenOnce == \A k \in Keys : written[k] <= 1

\* A record that ended keeps no request open, also when a request of the worker
\* arrives after its turn ended (commitWrites, handleWorkerRequest, review).
RequestsCloseWithTurn ==
    \A k \in Keys : rows[k] = "open" => RecordRuns(k)

\* Whoever waits for a decision waits for a request the operator can still
\* decide: no path that closes a request forgets its waiters (reconcile).
WaitersHaveOpenRequests ==
    \A k \in Keys : run[k].stage = "review" => rows[k] = "open"

\* The operator's decisions are obeyed.  A reviewed write is made only with an
\* approval that was never withdrawn: not after feedback, a decline or a
\* cancellation (review, handle).  And the abort that follows a decline reaches
\* the process only while the declined attempt is the newest: a retry begun in
\* between is spared (AbortProcess).
DecisionsAreObeyed ==
    [][/\ \A k \in Keys : KindOf(k) = "ticket" /\ written'[k] > written[k] => rows[k] = "accepted"
       /\ aborting' # aborting /\ turn'.status # turn.status
            => \E k \in Keys : k[1] = turn.n /\ rows[k] = "declined"]_vars

\* A call of a live worker returns, is given up, or becomes a request that the
\* operator is shown; it is never lost on the way (replay, handleWorkerRequest).
\* A turn resumed on a new lease is the exception: its record keeps the old one.
CallReachesOperator ==
    \A k \in Keys : (Up /\ Pending = k /\ worker.lease = turn.lease)
                      ~> (~Up \/ Pending # k \/ worker.lease # turn.lease \/ rows[k] = "open")

\* A request that is answered or decided returns to the worker that waits for
\* it, through lost connections and adoption (submitAnswers, reconcile, replay).
DecisionReturns ==
    \A k \in Keys :
      (Up /\ Pending = k /\ rows[k] \notin {"none", "open"}) ~> (~Up \/ Pending # k)

\* The open requests are those of the turn that runs, and whoever waits for a
\* decision waits for one that is open.
RequestsInvariant == RequestsTypeOK /\ RequestsCloseWithTurn /\ WaitersHaveOpenRequests

\* A call of a turn that goes on reaches the operator, and the decision returns.
CallsAreAnswered == CallReachesOperator /\ DecisionReturns
=============================================================================
