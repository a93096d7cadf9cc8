------------------------ MODULE WorkerRequestsProofs ------------------------
(***************************************************************************)
(* Theorems about WorkerRequests, for every plan of calls and every bound  *)
(* on attempts and mishaps.                                                *)
(***************************************************************************)
EXTENDS WorkerRequests, TLAPS

RowStates == {"none", "open", "answered", "accepted", "feedback", "declined", "cancelled"}
Execution == [stage : Stages, signal : BOOLEAN]
\* A write in one of these stages has been cleared and is on its way.
Cleared == {"lookup", "executing", "recovering", "made"}

TurnType ==
    turn \in [n : 1..MaxTurns, status : {"running", "left", "ended", "aborted"}, lease : Nat, plan : Plans]

WorkerType ==
    /\ worker \in [state : {"up", "dead", "none"}, linked : BOOLEAN, lease : Nat, n : Nat,
                   next : 1..(MaxCalls + 1), call : 0..MaxCalls, done : BOOLEAN]
    /\ worker.n <= turn.n /\ worker.call \in {NoCall, worker.next - 1}

TableType ==
    /\ rows \in [Keys -> RowStates]
    /\ run \in [Keys -> Execution]
    /\ written \in [Keys -> Nat]
    /\ log \subseteq Keys /\ aborting \subseteq 1..MaxTurns

\* What holds of every call: only questions and reviewed writes become requests,
\* only of a record that runs; only a reviewed write waits, and for an open
\* request; a reviewed write that was cleared holds its approval; what is about
\* to be written was looked for and not found; nothing is written twice.
KeyInv(k) ==
    /\ rows[k] = "open" => RecordRuns(k) /\ KindOf(k) \in {"question", "ticket"}
    /\ run[k].stage = "review" => rows[k] = "open" /\ KindOf(k) = "ticket"
    /\ KindOf(k) = "ticket" /\ run[k].stage \in Cleared => rows[k] = "accepted"
    /\ run[k].stage = "executing" => written[k] = 0
    /\ written[k] <= 1

\* An abort that is under way follows a decline in its attempt.
AbortFollowsDecline ==
    \A n \in aborting : \E k \in Keys : k[1] = n /\ rows[k] = "declined"

IInv ==
    /\ TurnType /\ WorkerType /\ TableType
    /\ \A k \in Keys : KeyInv(k)
    /\ AbortFollowsDecline

-----------------------------------------------------------------------------
(* Facts used by every step *)

\* Initial states satisfy the invariant.
LEMMA InitIInv == Init => IInv
  BY RequestsAssumption
  DEF Init, IInv, TurnType, WorkerType, TableType, KeyInv, AbortFollowsDecline, NoCall,
      NewWorker, Idle, Stages, RowStates, Execution, Cleared

\* The invariant implies what the run checks.
LEMMA IInvImplies == IInv => RequestsInvariant /\ WrittenOnce
  BY DEF IInv, TurnType, WorkerType, TableType, KeyInv, RequestsInvariant, RequestsTypeOK,
         RequestsCloseWithTurn, WaitersHaveOpenRequests, WrittenOnce, RowStates, Execution

\* At moves one execution to a stage.
LEMMA AtFacts ==
  ASSUME TableType, NEW k \in Keys, NEW s \in Stages
  PROVE  /\ At(k, s) \in [Keys -> Execution] /\ At(k, s)[k].stage = s
         /\ \A j \in Keys : j # k => At(k, s)[j] = run[j]
  BY DEF TableType, At, Execution

\* Finished ends one execution.
LEMMA FinishedFacts ==
  ASSUME TableType, NEW k \in Keys
  PROVE  /\ Finished(k) \in [Keys -> Execution] /\ Finished(k)[k].stage = "none"
         /\ \A j \in Keys : j # k => Finished(k)[j] = run[j]
  BY DEF TableType, Finished, Execution, Idle, Stages

\* Nobody that Woken leaves waiting waits for a request that is not open.
LEMMA WokenFacts ==
  ASSUME NEW rs, NEW ex \in [Keys -> Execution]
  PROVE  /\ Woken(rs, ex) \in [Keys -> Execution]
         /\ \A k \in Keys : \/ Woken(rs, ex)[k] = ex[k] /\ (ex[k].stage = "review" => rs[k] = "open")
                            \/ Woken(rs, ex)[k].stage = "decided"
  BY DEF Woken, Execution, Stages

\* Cancelled closes open requests and touches no other.
LEMMA CancelledFacts ==
  ASSUME TableType, NEW n, NEW kinds
  PROVE  /\ Cancelled(n, kinds) \in [Keys -> RowStates]
         /\ \A k \in Keys : \/ Cancelled(n, kinds)[k] = rows[k]
                            \/ rows[k] = "open" /\ Cancelled(n, kinds)[k] = "cancelled"
         /\ \A k \in Keys : k[1] = n /\ KindOf(k) \in kinds => Cancelled(n, kinds)[k] # "open"
  BY DEF TableType, Cancelled, RowStates

\* A step of the worker alone.
LEMMA WorkerStep ==
  ASSUME IInv, WorkerType', UNCHANGED <<turn, rows, run, written, log, aborting>>
  PROVE  IInv'
  BY DEF IInv, TurnType, TableType, KeyInv, AbortFollowsDecline, KindOf, RecordRuns

\* A step of the server that concerns one call.
LEMMA KeyStep ==
  ASSUME IInv, NEW k \in Keys, UNCHANGED <<turn, worker, aborting>>, TableType', KeyInv(k)',
         \A j \in Keys : j # k => /\ rows'[j] = rows[j] /\ run'[j] = run[j]
                                  /\ written'[j] = written[j],
         rows[k] = "declined" => rows'[k] = "declined"
  PROVE  IInv'
<1>1. TurnType' /\ WorkerType'
    BY DEF IInv, TurnType, WorkerType
<1>2. \A j \in Keys : KeyInv(j)'
    BY DEF IInv, KeyInv, KindOf, RecordRuns
<1>3. AbortFollowsDecline'
  <2> SUFFICES ASSUME NEW n \in aborting PROVE \E j \in Keys : j[1] = n /\ rows'[j] = "declined"
      BY DEF AbortFollowsDecline
  <2>1. PICK j \in Keys : j[1] = n /\ rows[j] = "declined"
      BY DEF IInv, AbortFollowsDecline
  <2> QED BY <2>1
<1> QED BY <1>1, <1>2, <1>3 DEF IInv

\* A record that was not left stops running: its requests are closed and their
\* waiters woken.
LEMMA CloseStep ==
  ASSUME IInv, NEW status \in {"ended", "aborted"}, turn.status # "left", Close(status),
         WorkerType', UNCHANGED <<written, log>>, aborting' \subseteq aborting
  PROVE  IInv'
<1>1. /\ turn' = [turn EXCEPT !.status = status] /\ turn'.plan = turn.plan
      /\ turn'.n = turn.n /\ turn'.status = status /\ TurnType'
    BY DEF Close, IInv, TurnType
<1>2. /\ rows' \in [Keys -> RowStates]
      /\ \A k \in Keys : rows'[k] = rows[k] \/ (rows[k] = "open" /\ rows'[k] = "cancelled")
      /\ \A k \in Keys : rows'[k] # "open"
  <2>1. CASE turn.status = "running"
    <3>1. rows' = Cancelled(turn.n, {"question", "ticket"})
        BY <2>1 DEF Close
    <3>2. \A k \in Keys : rows[k] = "open" => k[1] = turn.n /\ KindOf(k) \in {"question", "ticket"}
        BY DEF IInv, KeyInv, RecordRuns
    <3>3. TableType
        BY DEF IInv
    <3>4. /\ Cancelled(turn.n, {"question", "ticket"}) \in [Keys -> RowStates]
          /\ \A k \in Keys : \/ Cancelled(turn.n, {"question", "ticket"})[k] = rows[k]
                             \/ /\ rows[k] = "open"
                                /\ Cancelled(turn.n, {"question", "ticket"})[k] = "cancelled"
          /\ \A k \in Keys : k[1] = turn.n /\ KindOf(k) \in {"question", "ticket"}
               => Cancelled(turn.n, {"question", "ticket"})[k] # "open"
        BY <3>3, CancelledFacts, Zenon
    <3> QED BY <3>1, <3>2, <3>4
  <2>2. CASE turn.status # "running"
    <3>1. rows' = rows
        BY <2>2 DEF Close
    <3>2. \A k \in Keys : rows[k] # "open"
        BY <2>2 DEF IInv, KeyInv, RecordRuns
    <3> QED BY <3>1, <3>2 DEF IInv, TableType
  <2> QED BY <2>1, <2>2
<1>3. /\ run' \in [Keys -> Execution]
      /\ \A k \in Keys : \/ run'[k] = run[k] /\ run[k].stage # "review"
                         \/ run'[k].stage = "decided"
  <2>1. run' = Woken(rows', run) /\ run \in [Keys -> Execution]
      BY DEF Close, IInv, TableType
  <2> QED BY <1>2, <2>1, WokenFacts
<1>4. TableType'
    BY <1>2, <1>3 DEF IInv, TableType
<1>5. ASSUME NEW k \in Keys PROVE KeyInv(k)'
  <2>1. KindOf(k)' = KindOf(k)
      BY <1>1 DEF KindOf
  <2> QED BY <1>2, <1>3, <2>1 DEF IInv, KeyInv, Cleared
<1>6. AbortFollowsDecline'
  <2> SUFFICES ASSUME NEW n \in aborting PROVE \E j \in Keys : j[1] = n /\ rows'[j] = "declined"
      BY DEF AbortFollowsDecline
  <2>1. PICK j \in Keys : j[1] = n /\ rows[j] = "declined"
      BY DEF IInv, AbortFollowsDecline
  <2> QED BY <1>2, <2>1
<1> QED BY <1>1, <1>4, <1>5, <1>6 DEF IInv

-----------------------------------------------------------------------------
(* The steps of the worker *)

\* What the worker does to itself keeps its record of calls well formed.
LEMMA WorkerKeeps ==
  ASSUME IInv, Ask \/ FinishTurn \/ WorkerHears \/ Drop \/ Reconnect \/ Dies
  PROVE  IInv'
<1>1. UNCHANGED <<turn, rows, run, written, log, aborting>>
    BY DEF Ask, FinishTurn, WorkerHears, Drop, Reconnect, Dies
<1>2. 0 \in 0..MaxCalls /\ turn' = turn /\ WorkerType
    BY <1>1, RequestsAssumption DEF IInv
<1>3. WorkerType'
  <2>1. CASE Ask
    <3>1. worker.next \in 0..MaxCalls /\ worker.next + 1 \in 1..(MaxCalls + 1)
        BY <1>2, <2>1, RequestsAssumption DEF Ask, WorkerType
    <3>2. worker' = [worker EXCEPT !.call = worker.next, !.next = worker.next + 1]
        BY <2>1 DEF Ask
    <3>3. /\ worker' \in [state : {"up", "dead", "none"}, linked : BOOLEAN, lease : Nat, n : Nat,
                          next : 1..(MaxCalls + 1), call : 0..MaxCalls, done : BOOLEAN]
          /\ worker'.n = worker.n
          /\ worker'.call = worker.next /\ worker'.next = worker.next + 1
        BY <1>2, <3>1, <3>2 DEF WorkerType
    <3> QED BY <1>2, <3>1, <3>3 DEF WorkerType
  <2>2. CASE FinishTurn
      BY <1>2, <2>2 DEF FinishTurn, WorkerType, NoCall
  <2>3. CASE WorkerHears
    <3>1. \/ worker' = [worker EXCEPT !.call = NoCall, !.done = TRUE]
          \/ worker' = [worker EXCEPT !.call = NoCall]
          \/ worker' = [worker EXCEPT !.call = worker.call]
        BY <2>3 DEF WorkerHears
    <3> QED BY <1>2, <3>1 DEF WorkerType, NoCall
  <2>4. CASE Drop \/ Reconnect
      BY <1>2, <2>4 DEF Drop, Reconnect, WorkerType
  <2>5. CASE Dies
      BY <1>2, <2>5 DEF Dies, WorkerType, NoCall
  <2> QED BY <2>1, <2>2, <2>3, <2>4, <2>5
<1> QED BY <1>1, <1>3, WorkerStep

\* A resumed turn gets a new worker; nothing else changes.
LEMMA ResumeKeeps == IInv /\ Resume => IInv'
<1> SUFFICES ASSUME IInv, Resume PROVE IInv'
    OBVIOUS
<1>1. WorkerType'
    BY RequestsAssumption DEF IInv, Resume, WorkerType, TurnType, NewWorker, NoCall
<1> QED BY <1>1, WorkerStep DEF Resume

\* The exit of the worker is noticed, and ends the turn it ran.
LEMMA ExitKeeps == IInv /\ ExitObserved => IInv'
<1> SUFFICES ASSUME IInv, ExitObserved PROVE IInv'
    OBVIOUS
<1>1. turn'.n = turn.n
    BY DEF ExitObserved, Close, IInv, TurnType
<1>2. WorkerType'
    BY <1>1 DEF IInv, ExitObserved, WorkerType, NoCall
<1>3. CASE IsCurrent(<<worker.n, NoCall>>)
    BY <1>2, <1>3, CloseStep DEF ExitObserved, IsCurrent
<1>4. CASE ~IsCurrent(<<worker.n, NoCall>>)
    BY <1>2, <1>4, WorkerStep DEF ExitObserved
<1> QED BY <1>3, <1>4

-----------------------------------------------------------------------------
(* The steps of the turn *)

\* The record stops running and the worker is left alone.
LEMMA CloseKeeps ==
  ASSUME IInv, NEW status \in {"ended", "aborted"}, turn.status # "left", Close(status),
         UNCHANGED <<worker, written, log>>, aborting' \subseteq aborting
  PROVE  IInv'
<1>1. turn'.n = turn.n
    BY DEF Close, IInv, TurnType
<1>2. WorkerType'
    BY <1>1 DEF IInv, WorkerType
<1> QED BY <1>2, CloseStep

\* The end of a turn, its abort, the leaving of it and its retry.
LEMMA TurnKeeps ==
  ASSUME IInv, HandleEnded \/ AbortProcess \/ LeaveTurn \/ RetryTurn
  PROVE  IInv'
<1>1. CASE HandleEnded
  <2>1. CASE IsCurrent(Head(up).key)
      BY <1>1, <2>1, CloseKeeps DEF HandleEnded, IsCurrent
  <2>2. CASE ~IsCurrent(Head(up).key)
    <3>1. WorkerType'
        BY <1>1, <2>2 DEF HandleEnded, IInv, WorkerType
    <3> QED BY <1>1, <2>2, <3>1, WorkerStep DEF HandleEnded
  <2> QED BY <2>1, <2>2
<1>2. CASE AbortProcess
    BY <1>2, CloseKeeps DEF AbortProcess
<1>3. CASE LeaveTurn
  <2>1. /\ turn' = [turn EXCEPT !.status = "left"] /\ turn.status = "running"
        /\ UNCHANGED <<worker, rows, run, written, log, aborting>>
      BY <1>3 DEF LeaveTurn
  <2>2. TurnType' /\ turn'.n = turn.n /\ turn'.plan = turn.plan /\ turn'.status = "left"
      BY <2>1 DEF IInv, TurnType
  <2>3. WorkerType' /\ TableType' /\ AbortFollowsDecline'
      BY <2>1, <2>2 DEF IInv, WorkerType, TableType, AbortFollowsDecline
  <2>4. ASSUME NEW k \in Keys PROVE KeyInv(k)'
    <3>1. KindOf(k)' = KindOf(k) /\ (RecordRuns(k) => RecordRuns(k)')
        BY <2>2 DEF KindOf, RecordRuns
    <3> QED BY <2>1, <3>1 DEF IInv, KeyInv
  <2> QED BY <2>2, <2>3, <2>4 DEF IInv
<1>4. CASE RetryTurn
  <2>1. /\ turn' = [turn EXCEPT !.n = turn.n + 1, !.status = "running", !.lease = worker.lease + 1]
        /\ turn.status = "ended" /\ turn.n < MaxTurns
        /\ worker' = NewWorker(worker.lease + 1, turn.n + 1, 1)
        /\ UNCHANGED <<rows, run, written, log, aborting>>
      BY <1>4 DEF RetryTurn
  <2>2. turn.n + 1 \in 1..MaxTurns /\ worker.lease + 1 \in Nat
      BY <2>1, RequestsAssumption DEF IInv, TurnType, WorkerType
  <2>3. TurnType' /\ turn'.n = turn.n + 1 /\ turn'.plan = turn.plan
      BY <2>1, <2>2 DEF IInv, TurnType
  <2>4. WorkerType'
      BY <2>1, <2>2, <2>3, RequestsAssumption DEF WorkerType, NewWorker, NoCall
  <2>5. TableType' /\ AbortFollowsDecline'
      BY <2>1 DEF IInv, TableType, AbortFollowsDecline
  <2>6. ASSUME NEW k \in Keys PROVE KeyInv(k)'
    <3>1. KindOf(k)' = KindOf(k) /\ ~RecordRuns(k)
        BY <2>1, <2>3 DEF KindOf, RecordRuns
    <3> QED BY <2>1, <3>1 DEF IInv, KeyInv
  <2> QED BY <2>3, <2>4, <2>5, <2>6 DEF IInv
<1> QED BY <1>1, <1>2, <1>3, <1>4

-----------------------------------------------------------------------------
(* Questions *)

\* A question is asked only of a record that runs, and answered once.
LEMMA QuestionKeeps ==
  ASSUME IInv, NEW k \in Keys, HandleQuestion(k) \/ SubmitAnswers(k)
  PROVE  IInv'
<1>1. /\ UNCHANGED <<turn, worker, run, written, log, aborting>>
      /\ KindOf(k) = "question"
      /\ \/ rows' = [rows EXCEPT ![k] = "open"] /\ RecordRuns(k) /\ rows[k] = "none"
         \/ rows' = [rows EXCEPT ![k] = "answered"] /\ rows[k] = "open"
         \/ rows' = rows
    BY DEF HandleQuestion, SubmitAnswers, Accepts, IInv, TableType
<1>2. TableType' /\ \A j \in Keys : j # k => rows'[j] = rows[j]
    BY <1>1 DEF IInv, TableType, RowStates
<1>3. rows'[k] \in {rows[k], "open", "answered"} /\ (rows[k] = "declined" => rows'[k] = "declined")
    BY <1>1 DEF IInv, TableType
<1>4. KeyInv(k)'
  <2>1. KindOf(k)' = "question" /\ RecordRuns(k)' = RecordRuns(k)
      BY <1>1 DEF KindOf, RecordRuns
  <2>2. rows'[k] = "open" => RecordRuns(k)
      BY <1>1 DEF IInv, KeyInv, TableType
  <2> QED BY <1>1, <2>1, <2>2 DEF IInv, KeyInv
<1> QED BY <1>1, <1>2, <1>3, <1>4, KeyStep

-----------------------------------------------------------------------------
(* Tools *)

\* An execution goes on to a stage in which it does not wait.
LEMMA StageStep ==
  ASSUME IInv, NEW k \in Keys, UNCHANGED <<turn, worker, rows, aborting>>,
         run' \in [Keys -> Execution], written' \in [Keys -> Nat], log' \subseteq Keys,
         \A j \in Keys : j # k => run'[j] = run[j] /\ written'[j] = written[j],
         run'[k].stage # "review", written'[k] <= 1,
         KindOf(k) = "ticket" /\ run'[k].stage \in Cleared => rows[k] = "accepted",
         run'[k].stage = "executing" => written'[k] = 0
  PROVE  IInv'
<1>1. TableType'
    BY DEF IInv, TableType
<1>2. KindOf(k)' = KindOf(k) /\ RecordRuns(k)' = RecordRuns(k)
    BY DEF KindOf, RecordRuns
<1>3. KeyInv(k)'
    BY <1>2 DEF IInv, KeyInv
<1> QED BY <1>1, <1>3, KeyStep

\* A call of a tool is joined, refused or begun.
LEMMA HandleRequestKeeps ==
  ASSUME IInv, NEW k \in Keys, HandleRequest(k)
  PROVE  IInv'
<1>1. UNCHANGED <<turn, worker, rows, written, log, aborting>>
    BY DEF HandleRequest
<1>2. TableType
    BY DEF IInv
<1>3. CASE run' = run
  <2>1. WorkerType'
      BY <1>1 DEF IInv, WorkerType
  <2> QED BY <1>1, <1>3, <2>1, WorkerStep
<1>4. CASE run' = [run EXCEPT ![k] = [Idle EXCEPT !.stage = "resolving"]]
  <2>1. /\ run' \in [Keys -> Execution] /\ run'[k].stage = "resolving"
        /\ \A j \in Keys : j # k => run'[j] = run[j]
      BY <1>2, <1>4 DEF TableType, Execution, Idle, Stages
  <2>2. written'[k] <= 1
      BY <1>1 DEF IInv, KeyInv
  <2> QED BY <1>1, <1>2, <2>1, <2>2, StageStep DEF TableType, Cleared
<1> QED BY <1>3, <1>4 DEF HandleRequest

\* A call goes to review only with a request that is open.
LEMMA ReviewKeeps ==
  ASSUME IInv, NEW k \in Keys, Review(k)
  PROVE  IInv'
<1>1. UNCHANGED <<turn, worker, written, log, aborting>> /\ TableType /\ KeyInv(k)
    BY DEF Review, IInv
<1>2. CASE UNCHANGED rows /\ (run' = Finished(k) \/ (KindOf(k) = "tool" /\ run' = At(k, "lookup")))
  <2>1. "lookup" \in Stages
      BY DEF Stages
  <2>2. /\ run' \in [Keys -> Execution]
        /\ run'[k].stage = "none" \/ (KindOf(k) = "tool" /\ run'[k].stage = "lookup")
        /\ \A j \in Keys : j # k => run'[j] = run[j]
      BY <1>1, <1>2, <2>1, AtFacts, FinishedFacts
  <2>3. written'[k] <= 1
      BY <1>1 DEF KeyInv
  <2> QED BY <1>1, <1>2, <2>2, <2>3, StageStep DEF TableType, Cleared
<1>3. CASE /\ Active(k) /\ KindOf(k) = "ticket"
           /\ rows' = [rows EXCEPT ![k] = IF rows[k] = "none" THEN "open" ELSE rows[k]]
           /\ run' = At(k, IF rows'[k] = "open" THEN "review" ELSE "decided")
  <2>1. {"review", "decided"} \subseteq Stages
      BY DEF Stages
  <2>2. /\ rows' \in [Keys -> RowStates]
        /\ rows'[k] = rows[k] \/ (rows'[k] = "open" /\ rows[k] = "none")
        /\ \A j \in Keys : j # k => rows'[j] = rows[j]
      BY <1>1, <1>3 DEF TableType, RowStates
  <2>3. PICK s \in Stages : /\ s = IF rows'[k] = "open" THEN "review" ELSE "decided"
                           /\ run' = At(k, s)
      BY <1>3, <2>1
  <2>4. /\ run' \in [Keys -> Execution] /\ run'[k].stage = s
        /\ \A j \in Keys : j # k => run'[j] = run[j]
      BY <1>1, <2>3, AtFacts
  <2>5. RecordRuns(k)' /\ KindOf(k)' = "ticket"
      BY <1>1, <1>3 DEF Active, IsCurrent, RecordRuns, KindOf
  <2>6. KeyInv(k)'
      BY <1>1, <2>3, <2>4, <2>5 DEF KeyInv, Cleared
  <2>7. TableType'
      BY <1>1, <2>2, <2>4 DEF TableType
  <2> QED BY <1>1, <2>2, <2>4, <2>6, <2>7, KeyStep
<1> QED BY <1>2, <1>3 DEF Review, Refuse

\* A decision wakes whoever waits for it, and only a decline asks for an abort.
LEMMA DecideKeeps ==
  ASSUME IInv, NEW k \in Keys, NEW d \in {"accepted", "feedback", "declined"}, Decide(k, d)
  PROVE  IInv'
<1>1. /\ UNCHANGED <<turn, worker, written, log>> /\ TableType /\ rows[k] = "open"
      /\ KindOf(k) = "ticket" /\ run' = Woken(rows', run)
    BY DEF Decide, IInv
<1>2. /\ rows' \in [Keys -> RowStates]
      /\ \A j \in Keys : \/ rows'[j] = rows[j]
                         \/ rows[j] = "open" /\ rows'[j] \in {"accepted", "feedback", "declined", "cancelled"}
  <2>1. CASE rows' = [rows EXCEPT ![k] = d]
      BY <1>1, <2>1 DEF TableType, RowStates
  <2>2. CASE rows' = Cancelled(k[1], {"ticket"})
      BY <1>1, <2>2, CancelledFacts
  <2> QED BY <2>1, <2>2 DEF Decide
<1>3. /\ run' \in [Keys -> Execution]
      /\ \A j \in Keys : \/ run'[j] = run[j] /\ (run[j].stage = "review" => rows'[j] = "open")
                         \/ run'[j].stage = "decided"
    BY <1>1, WokenFacts DEF TableType
<1>4. ASSUME NEW j \in Keys PROVE KeyInv(j)'
  <2>1. KindOf(j)' = KindOf(j) /\ RecordRuns(j)' = RecordRuns(j)
      BY <1>1 DEF KindOf, RecordRuns
  <2> QED BY <1>1, <1>2, <1>3, <2>1 DEF IInv, KeyInv, Cleared
<1>5. aborting' \subseteq 1..MaxTurns /\ \A n \in aborting' : n \in aborting \/ (n = k[1] /\ rows'[k] = "declined")
  <2>1. k[1] \in 1..MaxTurns
      BY DEF Keys
  <2>2. CASE UNCHANGED aborting
      BY <1>1, <2>2 DEF TableType
  <2>3. CASE aborting' = aborting \cup {k[1]} /\ d = "declined" /\ rows' = [rows EXCEPT ![k] = d]
      BY <1>1, <2>1, <2>3 DEF TableType
  <2> QED BY <2>2, <2>3 DEF Decide
<1>6. AbortFollowsDecline'
  <2> SUFFICES ASSUME NEW n \in aborting' PROVE \E j \in Keys : j[1] = n /\ rows'[j] = "declined"
      BY DEF AbortFollowsDecline
  <2>1. CASE n \in aborting
    <3>1. PICK j \in Keys : j[1] = n /\ rows[j] = "declined"
        BY <2>1 DEF IInv, AbortFollowsDecline
    <3> QED BY <1>2, <3>1
  <2>2. CASE n = k[1] /\ rows'[k] = "declined"
      BY <2>2
  <2> QED BY <1>5, <2>1, <2>2
<1>7. TurnType' /\ WorkerType' /\ TableType'
    BY <1>1, <1>2, <1>3, <1>5 DEF IInv, TurnType, WorkerType, TableType
<1> QED BY <1>4, <1>6, <1>7 DEF IInv

\* The abort after a decline closes the record, or does nothing.
LEMMA DeclineAbortsKeeps == \A n : IInv /\ DeclineAborts(n) => IInv'
<1> SUFFICES ASSUME NEW n, IInv, DeclineAborts(n) PROVE IInv'
    OBVIOUS
<1>1. aborting' \subseteq aborting /\ UNCHANGED <<worker, written, log>>
    BY DEF DeclineAborts
<1>2. CASE turn.status # "left" /\ Close("aborted")
    BY <1>1, <1>2, CloseKeeps
<1>3. CASE UNCHANGED <<turn, rows, run>>
    BY <1>1, <1>3 DEF IInv, TurnType, WorkerType, TableType, KeyInv, AbortFollowsDecline, KindOf, RecordRuns
<1> QED BY <1>2, <1>3 DEF DeclineAborts

\* A call that is given up takes the reviews of its turn with it.
LEMMA HandleCancelKeeps ==
  ASSUME IInv, NEW k \in Keys, HandleCancel(k)
  PROVE  IInv'
<1> DEFINE ex == [run EXCEPT ![k].signal = @ \/ run[k].stage # "none"]
<1>1. /\ UNCHANGED <<turn, worker, written, log, aborting>> /\ TableType
      /\ rows' = Cancelled(k[1], {"ticket"}) /\ run' = Woken(rows', ex)
    BY DEF HandleCancel, IInv
<1>2. /\ rows' \in [Keys -> RowStates]
      /\ \A j \in Keys : rows'[j] = rows[j] \/ (rows[j] = "open" /\ rows'[j] = "cancelled")
    BY <1>1, CancelledFacts
<1>3. ex \in [Keys -> Execution] /\ \A j \in Keys : ex[j].stage = run[j].stage
  <2>1. (run[k].signal \/ run[k].stage # "none") \in BOOLEAN
      OBVIOUS
  <2> QED BY <1>1, <2>1 DEF TableType, Execution
<1> HIDE DEF ex
<1>4. /\ run' \in [Keys -> Execution]
      /\ \A j \in Keys : \/ run'[j] = ex[j] /\ (ex[j].stage = "review" => rows'[j] = "open")
                         \/ run'[j].stage = "decided"
    BY <1>1, <1>3, WokenFacts
<1>5. \A j \in Keys : \/ run'[j].stage = run[j].stage /\ (run[j].stage = "review" => rows'[j] = "open")
                     \/ run'[j].stage = "decided"
    BY <1>3, <1>4
<1>6. ASSUME NEW j \in Keys PROVE KeyInv(j)'
  <2>1. KindOf(j)' = KindOf(j) /\ RecordRuns(j)' = RecordRuns(j)
      BY <1>1 DEF KindOf, RecordRuns
  <2> QED BY <1>1, <1>2, <1>5, <2>1 DEF IInv, KeyInv, Cleared
<1>7. AbortFollowsDecline'
  <2> SUFFICES ASSUME NEW n \in aborting PROVE \E j \in Keys : j[1] = n /\ rows'[j] = "declined"
      BY <1>1 DEF AbortFollowsDecline
  <2>1. PICK j \in Keys : j[1] = n /\ rows[j] = "declined"
      BY DEF IInv, AbortFollowsDecline
  <2> QED BY <1>2, <2>1
<1>8. TurnType' /\ WorkerType' /\ TableType'
    BY <1>1, <1>2, <1>4 DEF IInv, TurnType, WorkerType, TableType
<1> QED BY <1>6, <1>7, <1>8 DEF IInv

-----------------------------------------------------------------------------
(* Writes *)

\* The stages around the write leave the provider alone.
LEMMA WriteKeeps ==
  ASSUME IInv, NEW k \in Keys, Proceed(k) \/ Lookup(k) \/ Recover(k) \/ Record(k)
  PROVE  IInv'
<1>1. UNCHANGED <<turn, worker, rows, written, aborting>> /\ TableType /\ KeyInv(k)
    BY DEF Proceed, Lookup, Recover, Record, IInv
<1>2. log' \subseteq Keys
    BY <1>1 DEF Proceed, Lookup, Recover, Record, TableType
<1>3. {"lookup", "made", "executing"} \subseteq Stages
    BY DEF Stages
<1>4. \/ run' = Finished(k)
      \/ run' = At(k, "lookup") /\ rows[k] = "accepted"
      \/ run' = At(k, "made") /\ run[k].stage \in Cleared
      \/ run' = At(k, "executing") /\ run[k].stage \in Cleared /\ ~(written[k] > 0)
    BY DEF Proceed, Lookup, Recover, Record, Refuse, Cleared
<1>5. /\ run' \in [Keys -> Execution]
      /\ \A j \in Keys : j # k => run'[j] = run[j]
      /\ \/ run'[k].stage = "none"
         \/ run'[k].stage = "lookup" /\ rows[k] = "accepted"
         \/ run'[k].stage = "made" /\ run[k].stage \in Cleared
         \/ run'[k].stage = "executing" /\ run[k].stage \in Cleared /\ ~(written[k] > 0)
    BY <1>1, <1>3, <1>4, AtFacts, FinishedFacts
<1>6. written[k] \in Nat
    BY <1>1 DEF TableType
<1>7. /\ run'[k].stage # "review" /\ written'[k] <= 1
      /\ run'[k].stage = "executing" => written'[k] = 0
    BY <1>1, <1>5, <1>6 DEF KeyInv
<1>8. KindOf(k) = "ticket" /\ run'[k].stage \in Cleared => rows[k] = "accepted"
    BY <1>1, <1>5 DEF KeyInv, Cleared
<1> QED BY <1>1, <1>2, <1>5, <1>7, <1>8, StageStep DEF TableType

\* The write is made once, also when an error hides that it was.
LEMMA ExecuteKeeps ==
  ASSUME IInv, NEW k \in Keys, Execute(k)
  PROVE  IInv'
<1>1. /\ UNCHANGED <<turn, worker, rows, log, aborting>> /\ TableType /\ KeyInv(k)
      /\ run[k].stage = "executing" /\ written[k] = 0
    BY DEF Execute, IInv, KeyInv
<1>2. {"made", "recovering"} \subseteq Stages
    BY DEF Stages
<1>3. run' = At(k, "made") \/ run' = At(k, "recovering")
    BY DEF Execute
<1>4. /\ run' \in [Keys -> Execution] /\ run'[k].stage \in {"made", "recovering"}
      /\ \A j \in Keys : j # k => run'[j] = run[j]
    BY <1>1, <1>2, <1>3, AtFacts
<1>5. written' = written \/ written' = [written EXCEPT ![k] = written[k] + 1]
    BY DEF Execute
<1>6. /\ written' \in [Keys -> Nat] /\ written'[k] <= 1
      /\ \A j \in Keys : j # k => written'[j] = written[j]
    BY <1>1, <1>5 DEF TableType
<1>7. KindOf(k) = "ticket" => rows[k] = "accepted"
    BY <1>1 DEF KeyInv, Cleared
<1> QED BY <1>1, <1>4, <1>6, <1>7, StageStep DEF TableType

\* A restart forgets executions; what was under way is made at most once.
LEMMA RestartKeeps == IInv /\ Restart => IInv'
<1> SUFFICES ASSUME IInv, Restart PROVE IInv'
    OBVIOUS
<1>1. UNCHANGED <<turn, rows, log>> /\ aborting' = {} /\ run' = [k \in Keys |-> Idle]
    BY DEF Restart, durable
<1>2. PICK done \in SUBSET {k \in Keys : run[k].stage = "executing"} :
        written' = [k \in Keys |-> IF k \in done THEN written[k] + 1 ELSE written[k]]
    BY DEF Restart
<1>3. written' \in [Keys -> Nat]
    BY <1>2 DEF IInv, TableType
<1>4. \A k \in Keys : written'[k] <= 1
    BY <1>2 DEF IInv, TableType, KeyInv
<1>5. run' \in [Keys -> Execution] /\ \A k \in Keys : run'[k].stage = "none"
    BY <1>1 DEF Idle, Execution, Stages
<1>6. TableType' /\ AbortFollowsDecline' /\ TurnType'
    BY <1>1, <1>3, <1>5 DEF IInv, TableType, AbortFollowsDecline, TurnType
<1>7. ASSUME NEW k \in Keys PROVE KeyInv(k)'
  <2>1. KindOf(k)' = KindOf(k) /\ RecordRuns(k)' = RecordRuns(k)
      BY <1>1 DEF KindOf, RecordRuns
  <2> QED BY <1>1, <1>4, <1>5, <2>1 DEF IInv, KeyInv, Cleared
<1>8. WorkerType'
  <2>1. 0 \in 0..MaxCalls /\ turn'.n = turn.n
      BY <1>1, RequestsAssumption
  <2>2. \/ worker' = [worker EXCEPT !.linked = FALSE]
        \/ worker' = [worker EXCEPT !.state = "none", !.linked = FALSE, !.call = NoCall]
      BY DEF Restart
  <2> QED BY <2>1, <2>2 DEF IInv, WorkerType, NoCall
<1> QED BY <1>6, <1>7, <1>8 DEF IInv

-----------------------------------------------------------------------------
(* The theorems *)

\* Every step keeps the invariant.
LEMMA NextIInv == IInv /\ [Next]_vars => IInv'
<1> SUFFICES ASSUME IInv, [Next]_vars PROVE IInv'
    OBVIOUS
<1>1. ASSUME NEW k \in Keys, ServerStep(k) PROVE IInv'
    BY <1>1, QuestionKeeps, HandleRequestKeeps, HandleCancelKeeps, ReviewKeeps, WriteKeeps,
       ExecuteKeeps DEF ServerStep
<1>2. CASE Operator
    BY <1>2, QuestionKeeps, DecideKeeps, TurnKeeps DEF Operator
<1>3. CASE Ask \/ FinishTurn \/ WorkerHears \/ Drop \/ Reconnect \/ WorkerDies \/ WorkerStopped
    BY <1>3, WorkerKeeps DEF WorkerDies, WorkerStopped
<1>4. CASE HandleEnded \/ ExitObserved \/ Restart \/ Resume
    BY <1>4, TurnKeeps, ExitKeeps, RestartKeeps, ResumeKeeps
<1>5. ASSUME NEW n \in 1..MaxTurns, DeclineAborts(n) PROVE IInv'
    BY <1>5, DeclineAbortsKeeps
<1>6. CASE UNCHANGED vars
  <2>1. UNCHANGED <<turn, rows, run, written, log, aborting, worker>>
      BY <1>6 DEF vars
  <2>2. WorkerType'
      BY <2>1 DEF IInv, WorkerType
  <2> QED BY <2>1, <2>2, WorkerStep
<1> QED BY <1>1, <1>2, <1>3, <1>4, <1>5, <1>6 DEF Next

\* The invariant holds in every reachable state.
LEMMA Invariance == Spec => []IInv
  BY InitIInv, NextIInv, PTL DEF Spec

\* The open requests are those of the record that runs, and whoever waits for a
\* decision waits for a request that is open (commitWrites, review, reconcile).
THEOREM RequestsAreConsistent == Spec => []RequestsInvariant
<1>1. IInv => RequestsInvariant
    BY IInvImplies
<1> QED BY <1>1, Invariance, PTL

\* However often a call is repeated after lost connections, provider errors,
\* restarts and resumptions, its write is made at most once (ensure).
THEOREM CallsWriteOnce == Spec => []WrittenOnce
<1>1. IInv => WrittenOnce
    BY IInvImplies
<1> QED BY <1>1, Invariance, PTL

\* A write is made from the stage "executing" alone.
LEMMA WritesAreExecuted ==
  ASSUME IInv, [Next]_vars, NEW k \in Keys, written'[k] > written[k]
  PROVE  run[k].stage = "executing"
<1>1. written[k] \in Nat
    BY DEF IInv, TableType
<1>2. written' # written
    BY <1>1
<1>3. CASE \E j \in Keys : Execute(j)
  <2>1. PICK j \in Keys : Execute(j)
      BY <1>3
  <2>2. written' = [written EXCEPT ![j] = written[j] + 1] /\ run[j].stage = "executing"
      BY <1>2, <2>1 DEF Execute
  <2> QED BY <1>1, <2>2 DEF IInv, TableType
<1>4. CASE Restart
  <2>1. PICK done \in SUBSET {j \in Keys : run[j].stage = "executing"} :
          written' = [j \in Keys |-> IF j \in done THEN written[j] + 1 ELSE written[j]]
      BY <1>4 DEF Restart
  <2> QED BY <1>1, <2>1
<1>5. CASE ~(\E j \in Keys : Execute(j)) /\ ~Restart
  <2>1. written' = written
      BY <1>5 DEF Next, vars, ServerStep, HandleQuestion, HandleRequest, HandleCancel, Review,
                  Proceed, Lookup, Recover, Record, Operator, SubmitAnswers, Decide, AbortProcess,
                  LeaveTurn, RetryTurn, Ask, FinishTurn, WorkerHears, Drop, Reconnect, WorkerDies,
                  WorkerStopped, Dies, HandleEnded, ExitObserved, DeclineAborts, Resume
  <2> QED BY <1>2, <2>1
<1> QED BY <1>3, <1>4, <1>5

\* Only the abort after a decline settles that abort and moves the turn.
LEMMA AbortsAreDeclines ==
  ASSUME [Next]_vars, aborting' # aborting, turn' # turn
  PROVE  turn.n \in aborting
<1>1. CASE \E n \in 1..MaxTurns : DeclineAborts(n)
    BY <1>1 DEF DeclineAborts
<1>2. CASE Restart \/ \E k \in Keys, d \in {"accepted", "feedback", "declined"} : Decide(k, d)
    BY <1>2 DEF Restart, Decide, durable
<1>3. CASE /\ ~(\E n \in 1..MaxTurns : DeclineAborts(n)) /\ ~Restart
           /\ ~(\E k \in Keys, d \in {"accepted", "feedback", "declined"} : Decide(k, d))
  <2>1. aborting' = aborting
      BY <1>3 DEF Next, vars, ServerStep, HandleQuestion, HandleRequest, HandleCancel, Review,
                  Proceed, Lookup, Execute, Recover, Record, Operator, SubmitAnswers, AbortProcess,
                  LeaveTurn, RetryTurn, Ask, FinishTurn, WorkerHears, Drop, Reconnect, WorkerDies,
                  WorkerStopped, Dies, HandleEnded, ExitObserved, Resume
  <2> QED BY <2>1
<1> QED BY <1>1, <1>2, <1>3

\* A reviewed write is made only with an approval that was never withdrawn, and
\* the abort after a decline spares an attempt begun since (review, AbortProcess).
THEOREM DecisionsBind == Spec => DecisionsAreObeyed
<1> DEFINE Obeyed ==
      /\ \A k \in Keys : KindOf(k) = "ticket" /\ written'[k] > written[k] => rows[k] = "accepted"
      /\ aborting' # aborting /\ turn'.status # turn.status
           => \E k \in Keys : k[1] = turn.n /\ rows[k] = "declined"
<1>1. ASSUME IInv, [Next]_vars PROVE Obeyed
  <2>1. ASSUME NEW k \in Keys, KindOf(k) = "ticket", written'[k] > written[k]
        PROVE  rows[k] = "accepted"
    <3>1. run[k].stage = "executing"
        BY <1>1, <2>1, WritesAreExecuted
    <3> QED BY <1>1, <2>1, <3>1 DEF IInv, KeyInv, Cleared
  <2>2. ASSUME aborting' # aborting, turn'.status # turn.status
        PROVE  \E k \in Keys : k[1] = turn.n /\ rows[k] = "declined"
    <3>1. turn.n \in aborting
        BY <1>1, <2>2, AbortsAreDeclines
    <3> QED BY <1>1, <3>1 DEF IInv, AbortFollowsDecline
  <2> QED BY <2>1, <2>2
<1> QED BY <1>1, Invariance, PTL DEF Spec, DecisionsAreObeyed

=============================================================================
