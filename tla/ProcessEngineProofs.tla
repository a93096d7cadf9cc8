------------------------- MODULE ProcessEngineProofs -------------------------
(***************************************************************************)
(* Theorems about ProcessEngine, for every process graph and every bound.  *)
(***************************************************************************)
EXTENDS ProcessEngineHistory, TLAPS

\* An ended process has no current execution and selects nothing.
EndedIsClear == ~canAbort => cur = 0 /\ sel = None

\* The current execution is the newest start.
NewestIsCurrent == cur \in {0, made}

\* Starts are created in order.
UnmadeAreBlank ==
    \A s \in StartIds : s > made => starts[s].state = "none" /\ starts[s].parent = 0

\* A current record has not succeeded and was not superseded: both leave it.
CurrentIsOpen == CurrentIs("accepted") => status[cur] \in {"running", "failed"}

EngineType ==
    /\ life \in Lives
    /\ sel \in Turns \cup {None}
    /\ cur \in 0..MaxStarts
    /\ made \in 0..MaxStarts
    /\ starts \in [StartIds -> Start]
    /\ status \in [StartIds -> Statuses]
    /\ attempt \in [StartIds -> Nat]

PhysicalType ==
    /\ opened \in 0..MaxLeases
    /\ leases \in [LeaseIds -> Lease]
    /\ inbox \in Seq(Report)
    /\ resuming \in BOOLEAN
    /\ crashes \in 0..MaxCrashes

\* The durable half of the inductive invariant: it reads nothing but engine.
EngineInv ==
    /\ EngineType
    /\ EndedIsClear
    /\ NewestIsCurrent
    /\ UnmadeAreBlank
    /\ CurrentIsOpen
    /\ AttemptsFollowFailures

IInv == EngineInv /\ PhysicalType

-----------------------------------------------------------------------------
(* Facts used by every step *)

\* The invariant implies the type invariant of the runs.
LEMMA IInvType == IInv => TypeOK
  BY DEF IInv, EngineInv, EngineType, PhysicalType, TypeOK

\* Initial states satisfy the invariant.
LEMMA InitIInv == Init => IInv
<1> SUFFICES ASSUME Init PROVE IInv
    OBVIOUS
<1>1. \A s \in StartIds : starts[s].state = "none" /\ starts[s].parent = 0 /\ status[s] = "none"
    BY DEF Init
<1>2. EngineType
  <2>1. [turn |-> Entry, state |-> "none", parent |-> 0, owner |-> 0, tries |-> 1] \in Start
      BY GraphAssumption, BoundAssumption DEF Start, StartStates, MAX_STARTUP_STARTS
  <2> QED BY <2>1, BoundAssumption DEF Init, EngineType, Lives, Statuses
<1>3. PhysicalType
  <2>1. [start |-> 0, state |-> "none", sent |-> 0, receipt |-> 0, verdict |-> "none"] \in Lease
      BY BoundAssumption DEF Lease
  <2>2. <<>> \in Seq(Report)
      OBVIOUS
  <2>3. 0 \in 0..MaxLeases /\ 0 \in 0..MaxCrashes
      BY BoundAssumption
  <2> QED BY <2>1, <2>2, <2>3 DEF Init, PhysicalType
<1>4. EndedIsClear /\ NewestIsCurrent /\ CurrentIsOpen
    BY DEF Init, EndedIsClear, NewestIsCurrent, CurrentIsOpen, CurrentIs, canAbort
<1>5. UnmadeAreBlank /\ AttemptsFollowFailures
    BY <1>1 DEF UnmadeAreBlank, AttemptsFollowFailures
<1> QED BY <1>2, <1>3, <1>4, <1>5 DEF IInv, EngineInv

\* Taking the head of the inbox (the process lock is granted in FIFO order).
LEMMA InboxHead ==
  ASSUME PhysicalType, inbox # <<>>
  PROVE  /\ Head(inbox) \in Report
         /\ Tail(inbox) \in Seq(Report)
  BY DEF PhysicalType

\* What every report names, and when the start it names is missing.
LEMMA ReportFields ==
  ASSUME NEW r \in Report
  PROVE  /\ r.lease \in LeaseIds
         /\ r.kind # "failure" => r.start \in StartIds
         /\ [r EXCEPT !.kind = "failure"] \in Report
  BY DEF Report

\* Steps that leave the durable state alone keep its half of the invariant.
LEMMA EngineFrame ==
  ASSUME EngineInv, UNCHANGED engine
  PROVE  EngineInv'
  BY DEF engine, EngineInv, EngineType, EndedIsClear, NewestIsCurrent, UnmadeAreBlank,
         CurrentIsOpen, CurrentIs, AttemptsFollowFailures, canAbort

\* Moving a start to another state, or accepting it, gives a start.
LEMMA StartUpdate ==
  ASSUME NEW r \in Start, NEW st \in StartStates, NEW l \in LeaseIds
  PROVE  /\ [r EXCEPT !.state = st] \in Start
         /\ [r EXCEPT !.state = st, !.owner = l] \in Start
<1>1. l \in 0..MaxLeases
    BY BoundAssumption DEF LeaseIds
<1> QED BY <1>1 DEF Start

\* Parents precede the current execution, so closing its record orphans nobody.
LEMMA ClosingKeepsAttempts ==
  ASSUME EngineInv,
         UNCHANGED attempt,
         \A s \in StartIds : /\ starts'[s].parent = starts[s].parent
                             /\ starts'[s].turn = starts[s].turn
                             /\ (starts'[s].state = "accepted") = (starts[s].state = "accepted"),
         \A s \in StartIds : (status'[s] = "none") <=> (status[s] = "none"),
         \A s \in StartIds : s # cur => status'[s] = status[s]
  PROVE  AttemptsFollowFailures'
<1> SUFFICES ASSUME NEW s \in StartIds
             PROVE  /\ (status'[s] # "none") = (starts'[s].state = "accepted")
                    /\ starts'[s].parent # 0 =>
                         /\ starts'[s].parent < s /\ status'[starts'[s].parent] = "failed"
                         /\ starts'[starts'[s].parent].turn = starts'[s].turn
                    /\ status'[s] # "none" =>
                         attempt'[s] = 1 + (IF starts'[s].parent = 0 THEN 0
                                            ELSE attempt'[starts'[s].parent])
    BY DEF AttemptsFollowFailures
<1> DEFINE p == starts[s].parent
<1>1. /\ p \in 0..MaxStarts
      /\ p # 0 => p < s /\ status[p] = "failed" /\ starts[p].turn = starts[s].turn
      /\ (status[s] # "none") = (starts[s].state = "accepted")
      /\ status[s] # "none" => attempt[s] = 1 + (IF p = 0 THEN 0 ELSE attempt[p])
    BY DEF EngineInv, EngineType, AttemptsFollowFailures, Start
<1>2. p # 0 => p \in StartIds /\ p # cur
    BY <1>1 DEF EngineInv, EngineType, NewestIsCurrent, UnmadeAreBlank, StartIds
<1>3. p # 0 => status'[p] = "failed" /\ starts'[p].turn = starts[p].turn
    BY <1>1, <1>2
<1> QED BY <1>1, <1>2, <1>3

\* Reserve keeps the durable invariant when the step closes at most the current
\* record and the new start has no parent, or a failed one of the same turn.
LEMMA ReserveStep ==
  ASSUME EngineInv,
         NEW t \in Turns, NEW parent \in 0..MaxStarts, NEW tries \in 1..MAX_STARTUP_STARTS,
         Reserve(t, parent, tries),
         UNCHANGED attempt,
         status' \in [StartIds -> Statuses],
         \A s \in StartIds : (status'[s] = "none") <=> (status[s] = "none"),
         \A s \in StartIds : s # cur => status'[s] = status[s],
         parent # 0 => /\ parent <= made
                       /\ starts[parent].turn = t
                       /\ status'[parent] = "failed"
  PROVE  EngineInv'
<1> DEFINE n == made + 1
<1>1. /\ n \in StartIds /\ made' = n /\ cur' = n /\ sel' = t
      /\ life' \in {"active", "error"}
    BY BoundAssumption DEF Reserve, Preflight, EngineInv, EngineType, StartIds
<1>2. PICK st \in {"starting", "preparation_failed"} :
        starts' = [starts EXCEPT ![n] = [turn |-> t, parent |-> parent, owner |-> 0,
                                         tries |-> tries, state |-> st]]
    BY DEF Reserve, Preflight
<1>3. EngineType'
  <2>1. [turn |-> t, parent |-> parent, owner |-> 0, tries |-> tries, state |-> st] \in Start
      BY BoundAssumption DEF Start, StartStates
  <2> QED BY <1>1, <1>2, <2>1 DEF EngineInv, EngineType, Lives, StartIds
<1>4. /\ \A s \in StartIds : s # n => starts'[s] = starts[s]
      /\ starts'[n].state = st /\ starts'[n].parent = parent /\ starts'[n].turn = t
    BY <1>1, <1>2 DEF EngineInv, EngineType
<1>5. starts[n].state = "none" /\ starts[n].parent = 0 /\ status'[n] = "none"
    BY <1>1 DEF EngineInv, EngineType, UnmadeAreBlank, AttemptsFollowFailures, StartIds
<1>6. EndedIsClear' /\ NewestIsCurrent' /\ CurrentIsOpen'
    BY <1>1, <1>4 DEF EndedIsClear, NewestIsCurrent, CurrentIsOpen, CurrentIs, canAbort
<1>7. UnmadeAreBlank'
    BY <1>1, <1>4 DEF EngineInv, EngineType, UnmadeAreBlank, StartIds
<1>8. AttemptsFollowFailures'
  <2> SUFFICES ASSUME NEW s \in StartIds
               PROVE  /\ (status'[s] # "none") = (starts'[s].state = "accepted")
                      /\ starts'[s].parent # 0 =>
                           /\ starts'[s].parent < s /\ status'[starts'[s].parent] = "failed"
                           /\ starts'[starts'[s].parent].turn = starts'[s].turn
                      /\ status'[s] # "none" =>
                           attempt'[s] = 1 + (IF starts'[s].parent = 0 THEN 0
                                              ELSE attempt'[starts'[s].parent])
      BY DEF AttemptsFollowFailures
  <2>1. CASE s = n
    <3>1. parent # 0 => parent \in StartIds /\ parent # n
        BY <1>1 DEF EngineInv, EngineType, StartIds
    <3> QED BY <2>1, <3>1, <1>1, <1>4, <1>5 DEF EngineInv, EngineType, StartIds
  <2>2. CASE s # n
    <3> DEFINE p == starts[s].parent
    <3>1. /\ starts'[s] = starts[s]
          /\ p \in 0..MaxStarts
          /\ p # 0 => p < s /\ status[p] = "failed" /\ starts[p].turn = starts[s].turn
          /\ (status[s] # "none") = (starts[s].state = "accepted")
          /\ status[s] # "none" => attempt[s] = 1 + (IF p = 0 THEN 0 ELSE attempt[p])
        BY <2>2, <1>4 DEF EngineInv, EngineType, AttemptsFollowFailures, Start
    <3>2. p # 0 => p \in StartIds /\ p # n /\ p # cur /\ s <= made
        BY <3>1, <1>1 DEF EngineInv, EngineType, NewestIsCurrent, UnmadeAreBlank, StartIds
    <3>3. p # 0 => status'[p] = "failed" /\ starts'[p] = starts[p]
        BY <3>1, <3>2, <1>4
    <3> QED BY <3>1, <3>2, <3>3
  <2> QED BY <2>1, <2>2
<1> QED BY <1>3, <1>6, <1>7, <1>8 DEF EngineInv

\* Select does too: it reserves without a parent, or leaves no execution.
LEMMA SelectStep ==
  ASSUME EngineInv, NEW t \in Targets, Select(t),
         UNCHANGED attempt,
         status' \in [StartIds -> Statuses],
         \A s \in StartIds : (status'[s] = "none") <=> (status[s] = "none"),
         \A s \in StartIds : s # cur => status'[s] = status[s]
  PROVE  EngineInv'
<1>1. CASE t \in Turns /\ Kind[t] # "human"
    BY <1>1, ReserveStep, BoundAssumption DEF Select, MAX_STARTUP_STARTS
<1>2. CASE ~(t \in Turns /\ Kind[t] # "human")
  <2>1. /\ sel' = (IF t = Done THEN None ELSE t)
        /\ life' = (IF t = Done THEN "completed" ELSE "waiting")
        /\ cur' = 0 /\ made' = made /\ starts' = starts
      BY <1>2 DEF Select
  <2>2. EngineType'
      BY <2>1, GraphAssumption, BoundAssumption DEF EngineInv, EngineType, Targets, Lives
  <2>3. EndedIsClear' /\ NewestIsCurrent' /\ CurrentIsOpen' /\ UnmadeAreBlank'
      BY <2>1 DEF EngineInv, EndedIsClear, NewestIsCurrent, CurrentIsOpen, CurrentIs,
                  UnmadeAreBlank, canAbort
  <2>4. AttemptsFollowFailures'
      BY <2>1, ClosingKeepsAttempts
  <2> QED BY <2>2, <2>3, <2>4 DEF EngineInv
<1> QED BY <1>1, <1>2

\* Ending a process fences its current execution and keeps the durable invariant.
LEMMA EndStep ==
  ASSUME EngineInv, NEW outcome \in {"completed", "aborted"}, End(outcome)
  PROVE  EngineInv'
<1>1. /\ life' = outcome /\ sel' = None /\ cur' = 0 /\ made' = made /\ attempt' = attempt
      /\ starts' = (IF CurrentIs("starting")
                    THEN [starts EXCEPT ![cur].state = "superseded"] ELSE starts)
      /\ status' = (IF CurrentRuns THEN [status EXCEPT ![cur] = "superseded"] ELSE status)
    BY DEF End, Supersede
<1>2. CurrentIs("starting") => cur \in StartIds /\ starts[cur].state = "starting"
    BY DEF CurrentIs, EngineInv, EngineType, StartIds
<1>3. CurrentRuns => cur \in StartIds /\ status[cur] = "running"
    BY DEF CurrentRuns, CurrentIs, EngineInv, EngineType, StartIds
<1>4. /\ starts' \in [StartIds -> Start]
      /\ \A s \in StartIds : /\ starts'[s].parent = starts[s].parent
                             /\ starts'[s].turn = starts[s].turn
                             /\ (starts'[s].state = "accepted") = (starts[s].state = "accepted")
                             /\ s > made => starts'[s].state = starts[s].state
    BY <1>1, <1>2 DEF EngineInv, EngineType, NewestIsCurrent, Start, StartStates, StartIds
<1>5. /\ status' \in [StartIds -> Statuses]
      /\ \A s \in StartIds : (status'[s] = "none") <=> (status[s] = "none")
      /\ \A s \in StartIds : s # cur => status'[s] = status[s]
    BY <1>1, <1>3 DEF EngineInv, EngineType, Statuses
<1>6. EngineType'
    BY <1>1, <1>4, <1>5, BoundAssumption DEF EngineInv, EngineType, Lives
<1>7. EndedIsClear' /\ NewestIsCurrent' /\ CurrentIsOpen' /\ UnmadeAreBlank'
    BY <1>1, <1>4 DEF EngineInv, EndedIsClear, NewestIsCurrent, CurrentIsOpen, CurrentIs,
                      UnmadeAreBlank, canAbort
<1>8. AttemptsFollowFailures'
    BY <1>1, <1>4, <1>5, ClosingKeepsAttempts
<1> QED BY <1>6, <1>7, <1>8 DEF EngineInv

\* Failing the current record keeps the durable invariant.
LEMMA FailStep ==
  ASSUME EngineInv, CurrentIs("accepted"), Fail(cur), UNCHANGED <<cur, made, starts, attempt>>
  PROVE  EngineInv'
<1>1. cur \in StartIds /\ starts[cur].state = "accepted" /\ status[cur] # "none"
    BY DEF CurrentIs, EngineInv, EngineType, AttemptsFollowFailures, StartIds
<1>2. /\ status' = [status EXCEPT ![cur] = "failed"]
      /\ sel' = starts[cur].turn /\ life' = "error"
    BY DEF Fail
<1>3. EngineType'
    BY <1>1, <1>2 DEF EngineInv, EngineType, Lives, Statuses, Start
<1>4. /\ \A s \in StartIds : (status'[s] = "none") <=> (status[s] = "none")
      /\ \A s \in StartIds : s # cur => status'[s] = status[s]
      /\ status'[cur] = "failed"
    BY <1>1, <1>2 DEF EngineInv, EngineType
<1>5. EndedIsClear' /\ NewestIsCurrent' /\ CurrentIsOpen' /\ UnmadeAreBlank'
    BY <1>2, <1>4 DEF EngineInv, EndedIsClear, NewestIsCurrent, CurrentIsOpen, CurrentIs,
                      UnmadeAreBlank, canAbort
<1>6. AttemptsFollowFailures'
    BY <1>4, ClosingKeepsAttempts
<1> QED BY <1>3, <1>5, <1>6 DEF EngineInv

\* Parking, and a start that fails to boot, keep the durable invariant.
LEMMA ParkStep ==
  ASSUME EngineInv, life' \in {life, "error"},
         UNCHANGED <<sel, cur, made, status, attempt>>,
         \/ starts' = starts
         \/ CurrentIs("starting") /\ starts' = [starts EXCEPT ![cur].state = "bootstrap_failed"]
  PROVE  EngineInv'
<1>1. CurrentIs("starting") => cur \in StartIds /\ starts[cur].state = "starting"
    BY DEF CurrentIs, EngineInv, EngineType, StartIds
<1>2. /\ starts' \in [StartIds -> Start]
      /\ \A s \in StartIds : /\ starts'[s].parent = starts[s].parent
                             /\ starts'[s].turn = starts[s].turn
                             /\ (starts'[s].state = "accepted") = (starts[s].state = "accepted")
                             /\ s > made => starts'[s].state = starts[s].state
  <2>1. CASE starts' = starts
      BY <2>1 DEF EngineInv, EngineType
  <2>2. CASE /\ CurrentIs("starting")
             /\ starts' = [starts EXCEPT ![cur].state = "bootstrap_failed"]
      BY <1>1, <2>2 DEF EngineInv, EngineType, NewestIsCurrent, Start, StartStates, StartIds
  <2> QED BY <2>1, <2>2
<1>3. EngineType'
    BY <1>2 DEF EngineInv, EngineType, Lives
<1>4. cur # 0 => cur \in StartIds
    BY DEF EngineInv, EngineType, StartIds
<1>5. EndedIsClear' /\ NewestIsCurrent' /\ CurrentIsOpen' /\ UnmadeAreBlank'
    BY <1>2, <1>4 DEF EngineInv, EndedIsClear, NewestIsCurrent, CurrentIsOpen, CurrentIs,
                      UnmadeAreBlank, canAbort
<1>6. AttemptsFollowFailures'
    BY <1>2, ClosingKeepsAttempts
<1> QED BY <1>3, <1>5, <1>6 DEF EngineInv

\* Acceptance creates the record of the current start, which nobody recovers yet.
LEMMA AcceptStep ==
  ASSUME EngineInv, cur # 0, starts[cur].state = "starting", NEW l \in LeaseIds,
         UNCHANGED <<life, sel, cur, made>>,
         starts' = [starts EXCEPT ![cur].state = "accepted", ![cur].owner = l],
         status' = [status EXCEPT ![cur] = "running"],
         attempt' = [attempt EXCEPT ![cur] =
             1 + (IF starts[cur].parent = 0 THEN 0 ELSE attempt[starts[cur].parent])]
  PROVE  EngineInv'
<1>1. cur \in StartIds /\ cur = made
    BY DEF EngineInv, EngineType, NewestIsCurrent, StartIds
<1>2. /\ \A s \in StartIds : s # cur => /\ starts'[s] = starts[s]
                                        /\ status'[s] = status[s]
                                        /\ attempt'[s] = attempt[s]
      /\ starts'[cur].state = "accepted"
      /\ starts'[cur].parent = starts[cur].parent /\ starts'[cur].turn = starts[cur].turn
      /\ status'[cur] = "running"
      /\ attempt'[cur] = 1 + (IF starts[cur].parent = 0 THEN 0 ELSE attempt[starts[cur].parent])
    BY <1>1 DEF EngineInv, EngineType, Start
<1>3. /\ starts[cur].parent \in 0..MaxStarts
      /\ starts[cur].parent # 0 => starts[cur].parent \in StartIds
    BY <1>1 DEF EngineInv, EngineType, Start, StartIds
<1>4. EngineType'
  <2>1. [starts[cur] EXCEPT !.state = "accepted", !.owner = l] \in Start
      BY <1>1, StartUpdate DEF EngineInv, EngineType, StartStates
  <2>2. starts' \in [StartIds -> Start]
      BY <1>1, <2>1 DEF EngineInv, EngineType
  <2>3. attempt' \in [StartIds -> Nat]
      BY <1>1, <1>3 DEF EngineInv, EngineType
  <2> QED BY <2>2, <2>3 DEF EngineInv, EngineType, Statuses
<1>5. EndedIsClear' /\ NewestIsCurrent' /\ CurrentIsOpen' /\ UnmadeAreBlank'
    BY <1>1, <1>2 DEF EngineInv, EngineType, EndedIsClear, NewestIsCurrent, CurrentIsOpen,
                      CurrentIs, UnmadeAreBlank, canAbort, StartIds
<1>6. AttemptsFollowFailures'
  <2> SUFFICES ASSUME NEW s \in StartIds
               PROVE  /\ (status'[s] # "none") = (starts'[s].state = "accepted")
                      /\ starts'[s].parent # 0 =>
                           /\ starts'[s].parent < s /\ status'[starts'[s].parent] = "failed"
                           /\ starts'[starts'[s].parent].turn = starts'[s].turn
                      /\ status'[s] # "none" =>
                           attempt'[s] = 1 + (IF starts'[s].parent = 0 THEN 0
                                              ELSE attempt'[starts'[s].parent])
      BY DEF AttemptsFollowFailures
  <2> DEFINE p == starts[s].parent
  <2>1. /\ p \in 0..MaxStarts
        /\ p # 0 => p < s /\ status[p] = "failed" /\ starts[p].turn = starts[s].turn
        /\ (status[s] # "none") = (starts[s].state = "accepted")
        /\ status[s] # "none" => attempt[s] = 1 + (IF p = 0 THEN 0 ELSE attempt[p])
      BY DEF EngineInv, EngineType, AttemptsFollowFailures, Start
  <2>2. p # 0 => p \in StartIds /\ p # cur
      BY <2>1, <1>1 DEF EngineInv, EngineType, UnmadeAreBlank, StartIds
  <2>3. starts'[s].parent = p /\ starts'[s].turn = starts[s].turn
      BY <1>2
  <2>4. p # 0 => /\ status'[p] = "failed" /\ attempt'[p] = attempt[p]
                 /\ starts'[p].turn = starts[s].turn
      BY <2>1, <2>2, <1>2
  <2>5. (status'[s] # "none") = (starts'[s].state = "accepted")
      BY <2>1, <1>2
  <2>6. status'[s] # "none" => attempt'[s] = 1 + (IF p = 0 THEN 0 ELSE attempt'[p])
      BY <2>1, <2>2, <2>4, <1>2
  <2> QED BY <2>1, <2>3, <2>4, <2>5, <2>6
<1> QED BY <1>4, <1>5, <1>6 DEF EngineInv

-----------------------------------------------------------------------------
(* Every action keeps the invariant *)

\* Commands of operators and integrations; the leases and the inbox stay.
LEMMA CommandIInv == IInv /\ Command => IInv'
<1> SUFFICES ASSUME IInv, Command PROVE IInv'
    OBVIOUS
<1> USE DEF IInv
<1>1. PhysicalType'
  <2>1. UNCHANGED Physical
      BY DEF Command, StartProcess, HumanAction, ProcessAction, AbortProcess, ObservationEnds,
             RetryStartup, AutomaticRetryStartup, RetryFailedTurn, ContinueFailedTurn,
             RecoverFailedTurn
  <2> QED BY <2>1 DEF Physical, PhysicalType
<1> SUFFICES EngineInv'
    BY <1>1
<1>2. status \in [StartIds -> Statuses]
    BY DEF EngineInv, EngineType
<1>3. ASSUME NEW t \in Targets, Select(t), UNCHANGED <<status, attempt>>
      PROVE  EngineInv'
    BY <1>2, <1>3, SelectStep
<1>4. CASE StartProcess
    BY <1>3, <1>4, GraphAssumption DEF StartProcess, Targets
<1>5. CASE HumanAction
    BY <1>3, <1>5 DEF HumanAction
<1>6. CASE ProcessAction
    BY <1>3, <1>6 DEF ProcessAction
<1>7. CASE AbortProcess
    BY <1>7, EndStep DEF AbortProcess
<1>8. CASE ObservationEnds
    BY <1>8, EndStep DEF ObservationEnds
<1>9. ASSUME cur # 0
      PROVE  /\ cur \in StartIds /\ cur <= made /\ starts[cur] \in Start
             /\ starts[cur].turn \in Turns /\ starts[cur].parent \in 0..MaxStarts
             /\ starts[cur].tries \in 1..MAX_STARTUP_STARTS
             /\ starts[cur].parent # 0 =>
                  /\ starts[cur].parent < cur /\ status[starts[cur].parent] = "failed"
                  /\ starts[starts[cur].parent].turn = starts[cur].turn
    BY <1>9 DEF EngineInv, EngineType, AttemptsFollowFailures, NewestIsCurrent, Start, StartIds
<1>10. ASSUME cur # 0, NEW tries \in 1..MAX_STARTUP_STARTS,
              Reserve(starts[cur].turn, starts[cur].parent, tries),
              UNCHANGED <<status, attempt>>
       PROVE  EngineInv'
  <2>1. starts[cur].parent # 0 => starts[cur].parent <= made
      BY <1>9, <1>10 DEF EngineInv, EngineType
  <2>2. /\ status' \in [StartIds -> Statuses]
        /\ \A s \in StartIds : (status'[s] = "none") <=> (status[s] = "none")
        /\ \A s \in StartIds : s # cur => status'[s] = status[s]
        /\ UNCHANGED attempt
      BY <1>2, <1>10
  <2>3. starts[cur].parent # 0 => /\ status'[starts[cur].parent] = "failed"
                                  /\ starts[starts[cur].parent].turn = starts[cur].turn
      BY <1>9, <1>10
  <2> QED BY <1>9, <1>10, <2>1, <2>2, <2>3, ReserveStep
<1>11. CASE RetryStartup
  <2>1. cur # 0
      BY <1>11 DEF RetryStartup, StartupFailed, CurrentIs
  <2> QED BY <1>10, <1>11, <2>1 DEF RetryStartup, MAX_STARTUP_STARTS
<1>12. CASE AutomaticRetryStartup
  <2>1. cur # 0
      BY <1>12 DEF AutomaticRetryStartup, StartupFailed, CurrentIs
  <2>2. starts[cur].tries + 1 \in 1..MAX_STARTUP_STARTS
      BY <1>9, <1>12, <2>1 DEF AutomaticRetryStartup, MAX_STARTUP_STARTS
  <2> QED BY <1>10, <1>12, <2>1, <2>2 DEF AutomaticRetryStartup
<1>13. CASE RetryFailedTurn \/ ContinueFailedTurn
  <2>1. /\ cur # 0 /\ status[cur] = "failed" /\ UNCHANGED <<status, attempt>>
        /\ Reserve(starts[cur].turn, cur, 1)
      BY <1>13 DEF RetryFailedTurn, ContinueFailedTurn, RecoverFailedTurn, CurrentIs
  <2>2. cur \in 0..MaxStarts /\ 1 \in 1..MAX_STARTUP_STARTS
      BY <1>9, <2>1 DEF EngineInv, EngineType, MAX_STARTUP_STARTS
  <2>3. /\ status' \in [StartIds -> Statuses]
        /\ \A s \in StartIds : (status'[s] = "none") <=> (status[s] = "none")
        /\ \A s \in StartIds : s # cur => status'[s] = status[s]
        /\ status'[cur] = "failed"
      BY <1>2, <2>1
  <2> QED BY <1>9, <2>1, <2>2, <2>3, ReserveStep
<1> QED BY <1>4, <1>5, <1>6, <1>7, <1>8, <1>11, <1>12, <1>13 DEF Command

\* Recording a report; the leases stay, the inbox loses its head.
LEMMA RecordIInv == IInv /\ Record => IInv'
<1> SUFFICES ASSUME IInv, Record PROVE IInv'
    OBVIOUS
<1> USE DEF IInv
<1>1. inbox # <<>>
    BY DEF Record, AcceptWorkerTurnStart, TurnOutcome, TurnFailed, WorkerFailure, ParkProcess
<1> DEFINE r == Head(inbox)
<1>2. r \in Report /\ Tail(inbox) \in Seq(Report)
    BY <1>1, InboxHead
<1>3. r.lease \in LeaseIds /\ [r EXCEPT !.kind = "failure"] \in Report
    BY <1>2, ReportFields
<1>4. \A recorded : Recover(r, recorded) \in Seq(Report)
    BY <1>2, <1>3 DEF Recover
<1>5. PhysicalType'
  <2>1. /\ UNCHANGED <<opened, leases, resuming, crashes>>
        /\ inbox' = Tail(inbox) \/ \E recorded : inbox' = Recover(r, recorded)
      BY DEF Record, AcceptWorkerTurnStart, TurnOutcome, TurnFailed, WorkerFailure, ParkProcess
  <2> QED BY <1>2, <1>4, <2>1 DEF PhysicalType
<1> SUFFICES EngineInv'
    BY <1>5
<1>6. CASE AcceptWorkerTurnStart
  <2>1. CASE UNCHANGED <<starts, status, attempt>>
      BY <1>6, <2>1, EngineFrame DEF AcceptWorkerTurnStart, engine
  <2>2. CASE ~UNCHANGED <<starts, status, attempt>>
    <3>1. r.kind = "accept" /\ r.start \in StartIds /\ r.start # 0
      <4>1. r.kind = "accept"
          BY <1>6 DEF AcceptWorkerTurnStart
      <4>2. r.start \in StartIds
        <5> HIDE DEF r
        <5> QED BY <4>1, <1>2, ReportFields
      <4> QED BY <4>1, <4>2, BoundAssumption DEF StartIds
    <3>2. /\ cur = r.start /\ starts[cur].state = "starting"
          /\ UNCHANGED <<life, sel, cur, made>>
          /\ starts' = [starts EXCEPT ![cur].state = "accepted", ![cur].owner = r.lease]
          /\ status' = [status EXCEPT ![cur] = "running"]
          /\ attempt' = [attempt EXCEPT ![cur] =
               1 + (IF starts[cur].parent = 0 THEN 0 ELSE attempt[starts[cur].parent])]
        BY <1>6, <2>2 DEF AcceptWorkerTurnStart
    <3> QED BY <1>3, <3>1, <3>2, AcceptStep
  <2> QED BY <2>1, <2>2
<1>7. CASE TurnOutcome
  <2>1. CASE UNCHANGED <<life, sel, cur, made, starts, status>>
      BY <1>7, <2>1, EngineFrame DEF TurnOutcome, engine
  <2>2. CASE ~UNCHANGED <<life, sel, cur, made, starts, status>>
    <3>1. /\ CurrentIs("accepted") /\ cur = r.start /\ UNCHANGED attempt
          /\ \E t \in Targets : Select(t)
          /\ status' = [status EXCEPT ![cur] = "succeeded"]
        BY <1>7, <2>2 DEF TurnOutcome, Correlated
    <3>2. cur \in StartIds /\ status[cur] # "none"
        BY <3>1 DEF CurrentIs, EngineInv, EngineType, AttemptsFollowFailures, StartIds
    <3>3. /\ status' \in [StartIds -> Statuses]
          /\ \A s \in StartIds : (status'[s] = "none") <=> (status[s] = "none")
          /\ \A s \in StartIds : s # cur => status'[s] = status[s]
        BY <3>1, <3>2 DEF EngineInv, EngineType, Statuses
    <3> QED BY <3>1, <3>3, SelectStep
  <2> QED BY <2>1, <2>2
<1>8. CASE TurnFailed
  <2>1. CASE Correlated(r)
      BY <1>8, <2>1, FailStep DEF TurnFailed, Correlated
  <2>2. CASE ~Correlated(r)
      BY <1>8, <2>2, EngineFrame DEF TurnFailed, engine
  <2> QED BY <2>1, <2>2
<1>9. CASE WorkerFailure
  <2>1. UNCHANGED <<cur, made, attempt>>
      BY <1>9 DEF WorkerFailure
  <2>2. CASE UNCHANGED <<life, sel, starts, status>>
      BY <2>1, <2>2, EngineFrame DEF engine
  <2>3. CASE /\ CurrentIs("starting") /\ UNCHANGED <<sel, status>>
             /\ starts' = [starts EXCEPT ![cur].state = "bootstrap_failed"]
             /\ life' = "error"
      BY <2>1, <2>3, ParkStep
  <2>4. CASE CurrentRuns /\ Fail(cur) /\ UNCHANGED starts
      BY <2>1, <2>4, FailStep DEF CurrentRuns
  <2>5. CASE life' \in {life, "error"} /\ UNCHANGED <<sel, starts, status>>
      BY <2>1, <2>5, ParkStep
  <2> QED BY <1>9, <2>2, <2>3, <2>4, <2>5 DEF WorkerFailure
<1>10. CASE ParkProcess
    BY <1>10, ParkStep DEF ParkProcess
<1> QED BY <1>6, <1>7, <1>8, <1>9, <1>10 DEF Record

\* Leases and their reports: the durable half does not move.
LEMMA PhysicalIInv ==
  IInv /\ (SpawnLease \/ (\E l \in LeaseIds : Work(l)) \/ Crash) => IInv'
<1> SUFFICES ASSUME IInv, SpawnLease \/ (\E l \in LeaseIds : Work(l)) \/ Crash
             PROVE  IInv'
    OBVIOUS
<1> USE DEF IInv
<1>1. EngineInv'
  <2>1. UNCHANGED engine
      BY DEF SpawnLease, Work, Hello, Ready, TurnStarted, Terminal, LifecycleParked, FailLease,
             Drain, Exit, Crash
  <2> QED BY <2>1, EngineFrame
<1> SUFFICES PhysicalType'
    BY <1>1
<1>2. /\ cur \in 0..MaxStarts
      /\ leases \in [LeaseIds -> Lease] /\ inbox \in Seq(Report)
      /\ resuming \in BOOLEAN /\ crashes \in 0..MaxCrashes /\ opened \in 0..MaxLeases
    BY DEF EngineInv, EngineType, PhysicalType
<1>3. ASSUME NEW k \in {"accept", "outcome", "failed", "park"}, NEW l \in LeaseIds,
             NEW s \in StartIds, Enqueue(k, l, s)
      PROVE  inbox' \in Seq(Report)
  <2>1. [kind |-> k, lease |-> l, start |-> s] \in Report
      BY DEF Report
  <2> QED BY <1>2, <1>3, <2>1 DEF Enqueue
<1>4. ASSUME NEW l \in LeaseIds, Enqueue("failure", l, 0)
      PROVE  inbox' \in Seq(Report)
  <2>1. [kind |-> "failure", lease |-> l, start |-> 0] \in Report
      BY DEF Report
  <2> QED BY <1>2, <1>4, <2>1 DEF Enqueue
<1>5. \A l \in LeaseIds : leases[l].sent # 0 => leases[l].sent \in StartIds
    BY <1>2, BoundAssumption DEF Lease, StartIds
<1>6. CASE SpawnLease
  <2>1. opened + 1 \in LeaseIds /\ opened' \in 0..MaxLeases
      BY <1>2, <1>6, BoundAssumption DEF SpawnLease, LeaseIds
  <2>2. leases' \in [LeaseIds -> Lease]
      BY <1>2, <1>6, <2>1 DEF SpawnLease, Lease
  <2> QED BY <1>2, <1>6, <2>1, <2>2 DEF SpawnLease, PhysicalType
<1>7. ASSUME NEW l \in LeaseIds, Hello(l) PROVE PhysicalType'
  <2>1. [leases[l] EXCEPT !.sent = cur] \in Lease
      BY <1>2 DEF Lease
  <2>2. leases' \in [LeaseIds -> Lease]
      BY <1>2, <1>7, <2>1 DEF Hello
  <2> QED BY <1>2, <1>7, <2>2 DEF Hello, PhysicalType
<1>8. ASSUME NEW l \in LeaseIds, Ready(l) PROVE PhysicalType'
  <2>1. [leases[l] EXCEPT !.receipt = cur] \in Lease
      BY <1>2 DEF Lease
  <2>2. leases' \in [LeaseIds -> Lease]
      BY <1>2, <1>8, <2>1 DEF Ready
  <2> QED BY <1>2, <1>8, <2>2 DEF Ready, PhysicalType
<1>9. ASSUME NEW l \in LeaseIds, TurnStarted(l) PROVE PhysicalType'
    BY <1>2, <1>3, <1>5, <1>9 DEF TurnStarted, PhysicalType
<1>10. ASSUME NEW l \in LeaseIds, NEW verdict \in {"outcome", "failed"}, Terminal(l, verdict)
       PROVE  PhysicalType'
  <2>1. leases' \in [LeaseIds -> Lease]
      BY <1>2, <1>10, ZenonT(60) DEF Terminal, Lease
  <2>2. inbox' \in Seq(Report)
      BY <1>3, <1>5, <1>10 DEF Terminal
  <2> QED BY <1>2, <1>10, <2>1, <2>2 DEF Terminal, PhysicalType
<1>11. ASSUME NEW l \in LeaseIds, LifecycleParked(l) PROVE PhysicalType'
    BY <1>2, <1>3, <1>5, <1>11 DEF LifecycleParked, PhysicalType
<1>12. ASSUME NEW l \in LeaseIds, FailLease(l) PROVE PhysicalType'
  <2>1. leases' \in [LeaseIds -> Lease]
      BY <1>2, <1>12 DEF FailLease, Lease
  <2>2. inbox' \in Seq(Report)
      BY <1>4, <1>12 DEF FailLease
  <2> QED BY <1>2, <1>12, <2>1, <2>2 DEF FailLease, PhysicalType
<1>13. ASSUME NEW l \in LeaseIds, Drain(l) PROVE PhysicalType'
  <2>1. leases' \in [LeaseIds -> Lease]
      BY <1>2, <1>13 DEF Drain, Lease
  <2> QED BY <1>2, <1>13, <2>1 DEF Drain, PhysicalType
<1>14. ASSUME NEW l \in LeaseIds, Exit(l) PROVE PhysicalType'
  <2>1. leases' \in [LeaseIds -> Lease]
      BY <1>2, <1>14 DEF Exit, Lease
  <2>2. inbox' \in Seq(Report)
      BY <1>2, <1>4, <1>14 DEF Exit
  <2> QED BY <1>2, <1>14, <2>1, <2>2 DEF Exit, PhysicalType
<1>15. CASE Crash
  <2>1. \A l \in LeaseIds : [leases[l] EXCEPT !.state = "exited"] \in Lease
      BY <1>2 DEF Lease
  <2>2. leases' \in [LeaseIds -> Lease]
      BY <1>2, <1>15, <2>1 DEF Crash
  <2>3. crashes' \in 0..MaxCrashes
      BY <1>2, <1>15, BoundAssumption DEF Crash
  <2>4. inbox' \in Seq(Report) /\ resuming' \in BOOLEAN /\ opened' = opened
    <3>1. <<>> \in Seq(Report)
        OBVIOUS
    <3> QED BY <1>15, <3>1 DEF Crash
  <2> QED BY <1>2, <2>2, <2>3, <2>4 DEF PhysicalType
<1> QED BY <1>6, <1>7, <1>8, <1>9, <1>10, <1>11, <1>12, <1>13, <1>14, <1>15 DEF Work

\* Steps, stuttering included, keep the invariant.
LEMMA NextIInv == IInv /\ [Next]_vars => IInv'
<1>1. IInv /\ Next => IInv'
    BY CommandIInv, RecordIInv, PhysicalIInv DEF Next
<1>2. IInv /\ UNCHANGED vars => IInv'
  <2> SUFFICES ASSUME IInv, UNCHANGED vars PROVE IInv'
      OBVIOUS
  <2>1. EngineInv'
      BY EngineFrame DEF IInv, vars
  <2>2. PhysicalType'
      BY DEF IInv, PhysicalType, vars
  <2> QED BY <2>1, <2>2 DEF IInv
<1> QED BY <1>1, <1>2

\* The invariant holds in every reachable state.
LEMMA Invariance == Spec => []IInv
  BY InitIInv, NextIInv, PTL DEF Spec

-----------------------------------------------------------------------------
(* Theorems *)

\* Type correctness of the durable state, the leases and the inbox, for every
\* process graph, number of starts, leases and crashes.
THEOREM TypeTheorem == Spec => []TypeOK
  BY Invariance, IInvType, PTL

\* Acceptance creates exactly one attempt, and recovery counts from a record
\* that stays failed, whatever is reported late, parked or lost in a crash.
THEOREM AttemptsTheorem == Spec => []AttemptsFollowFailures
<1>1. IInv => AttemptsFollowFailures
    BY DEF IInv, EngineInv
<1> QED BY <1>1, Invariance, PTL

\* A completed or aborted process never moves again: every report that is still
\* queued, retried or parked after the end is ignored.
THEOREM EndedTheorem == Spec => EndedStaysEnded
<1>1. IInv /\ [Next]_vars => [~canAbort => engine' = engine]_vars
  <2> SUFFICES ASSUME IInv, Next, ~canAbort PROVE UNCHANGED engine
      BY DEF vars
  <2>1. cur = 0 /\ sel = None /\ life \in {"completed", "aborted"}
      BY DEF IInv, EngineInv, EndedIsClear, canAbort
  <2>2. CASE Command
      BY <2>1, <2>2 DEF Command, StartProcess, HumanAction, ProcessAction, AbortProcess,
           ObservationEnds, RetryStartup, AutomaticRetryStartup, RetryFailedTurn,
           ContinueFailedTurn, RecoverFailedTurn,
           StartupFailed, canAbort
  <2>3. CASE Record
    <3>1. inbox # <<>>
        BY <2>3 DEF Record, AcceptWorkerTurnStart, TurnOutcome, TurnFailed, WorkerFailure,
                    ParkProcess
    <3>2. Head(inbox).kind # "failure" => Head(inbox).start \in StartIds
        BY <3>1, InboxHead, ReportFields DEF IInv
    <3>3. CASE AcceptWorkerTurnStart
        BY <2>1, <3>3 DEF AcceptWorkerTurnStart, engine
    <3>4. CASE TurnOutcome
        BY <2>1, <3>4 DEF TurnOutcome, Correlated, CurrentIs, engine
    <3>5. CASE TurnFailed
        BY <2>1, <3>5 DEF TurnFailed, Correlated, CurrentIs, engine
    <3>6. CASE WorkerFailure
        BY <2>1, <3>6 DEF WorkerFailure, Stale, engine
    <3>7. CASE ParkProcess
      <4>1. Head(inbox).start \in StartIds
          BY <3>2, <3>7 DEF ParkProcess
      <4>2. starts[Head(inbox).start].turn \in Turns
          BY <4>1 DEF IInv, EngineInv, EngineType, Start
      <4> QED BY <2>1, <3>7, <4>2, GraphAssumption DEF ParkProcess, engine
    <3> QED BY <2>3, <3>3, <3>4, <3>5, <3>6, <3>7 DEF Record
  <2>4. CASE SpawnLease \/ (\E l \in LeaseIds : Work(l)) \/ Crash
      BY <2>4 DEF SpawnLease, Work, Hello, Ready, TurnStarted, Terminal, LifecycleParked,
                  FailLease, Drain, Exit, Crash
  <2> QED BY <2>2, <2>3, <2>4 DEF Next
<1> QED BY <1>1, Invariance, PTL DEF Spec, EndedStaysEnded

\* One step of TerminalFactsAreFinal.
FactsKept ==
    \A s \in StartIds :
        /\ status[s] \in {"succeeded", "superseded"} => status'[s] = status[s]
        /\ status[s] = "failed" /\ status'[s] # "failed" => s = cur
        /\ starts[s].state \notin {"none", "starting"} => starts'[s] = starts[s]

\* Selecting a turn writes no start but the next one, which is blank.
LEMMA SelectKeepsStarts ==
  ASSUME EngineInv, \/ \E t \in Targets : Select(t)
                    \/ \E t, parent, tries : Reserve(t, parent, tries)
  PROVE  \A s \in StartIds : starts[s].state \notin {"none", "starting"} => starts'[s] = starts[s]
<1>1. ASSUME NEW t, NEW parent, NEW tries, Reserve(t, parent, tries)
      PROVE  \A s \in StartIds : s <= made => starts'[s] = starts[s]
    BY <1>1 DEF Reserve, EngineInv, EngineType, StartIds
<1>2. \A s \in StartIds : s <= made => starts'[s] = starts[s]
    BY <1>1 DEF Select
<1> QED BY <1>2 DEF EngineInv, EngineType, UnmadeAreBlank, StartIds

\* Succeeded and superseded records never change, failed ones only while they
\* are current, and no start leaves a terminal state.
THEOREM FactsTheorem == Spec => TerminalFactsAreFinal
<1>1. IInv /\ Next => FactsKept
  <2> SUFFICES ASSUME IInv, Next PROVE FactsKept
      OBVIOUS
  <2> USE DEF IInv
  <2>1. cur # 0 => cur \in StartIds /\ cur = made
      BY DEF EngineInv, EngineType, NewestIsCurrent, StartIds
  <2>2. CurrentIs("accepted") => cur \in StartIds /\ status[cur] \in {"running", "failed"}
      BY <2>1 DEF EngineInv, CurrentIsOpen, CurrentIs
  <2>3. CASE Command
    <3>1. CASE AbortProcess \/ ObservationEnds
        BY <2>1, <2>2, <3>1 DEF AbortProcess, ObservationEnds, End, Supersede, CurrentRuns,
             CurrentIs, FactsKept, EngineInv, EngineType
    <3>2. CASE StartProcess \/ HumanAction \/ ProcessAction
      <4>1. status' = status /\ \E t \in Targets : Select(t)
          BY <3>2, GraphAssumption DEF StartProcess, HumanAction, ProcessAction, Targets
      <4> QED BY <4>1, SelectKeepsStarts DEF FactsKept
    <3>3. CASE RetryStartup \/ AutomaticRetryStartup \/ RetryFailedTurn \/ ContinueFailedTurn
      <4>1. cur # 0
          BY <3>3 DEF RetryStartup, AutomaticRetryStartup, RetryFailedTurn, ContinueFailedTurn,
                      RecoverFailedTurn, StartupFailed, CurrentIs
      <4>2. starts[cur].turn \in Turns
          BY <2>1, <4>1 DEF EngineInv, EngineType, Start
      <4>3. status' = status /\ \E t, parent, tries : Reserve(t, parent, tries)
          BY <3>3, <4>2 DEF RetryStartup, AutomaticRetryStartup, RetryFailedTurn,
                            ContinueFailedTurn, RecoverFailedTurn
      <4> QED BY <4>3, SelectKeepsStarts DEF FactsKept
    <3> QED BY <2>3, <3>1, <3>2, <3>3 DEF Command
  <2>4. CASE AcceptWorkerTurnStart
    <3>1. CASE UNCHANGED <<starts, status>>
        BY <3>1 DEF FactsKept
    <3>2. CASE ~UNCHANGED <<starts, status>>
      <4>1. PICK s, l :
              /\ s = cur /\ starts[s].state = "starting"
              /\ starts' = [starts EXCEPT ![s].state = "accepted", ![s].owner = l]
              /\ status' = [status EXCEPT ![s] = "running"]
          BY <2>4, <3>2 DEF AcceptWorkerTurnStart
      <4>2. \A k \in StartIds : k # cur => starts'[k] = starts[k] /\ status'[k] = status[k]
          BY <4>1 DEF EngineInv, EngineType
      <4>3. cur \in StartIds => status[cur] = "none"
          BY <4>1 DEF EngineInv, AttemptsFollowFailures, StartIds
      <4> QED BY <4>1, <4>2, <4>3 DEF FactsKept
    <3> QED BY <3>1, <3>2
  <2>5. CASE TurnOutcome
    <3>1. CASE UNCHANGED <<starts, status>>
        BY <3>1 DEF FactsKept
    <3>2. CASE ~UNCHANGED <<starts, status>>
      <4>1. /\ CurrentIs("accepted") /\ \E t \in Targets : Select(t)
            /\ status' = [status EXCEPT ![cur] = "succeeded"]
          BY <2>5, <3>2 DEF TurnOutcome, Correlated
      <4>2. \A k \in StartIds : k # cur => status'[k] = status[k]
          BY <4>1 DEF EngineInv, EngineType
      <4> QED BY <2>2, <4>1, <4>2, SelectKeepsStarts DEF FactsKept
    <3> QED BY <3>1, <3>2
  <2>6. CASE TurnFailed \/ WorkerFailure \/ ParkProcess
    <3>1. \/ status' = status
          \/ CurrentIs("accepted") /\ status' = [status EXCEPT ![cur] = "failed"]
        BY <2>6 DEF TurnFailed, WorkerFailure, ParkProcess, Fail, Correlated, CurrentRuns
    <3>2. \/ starts' = starts
          \/ /\ CurrentIs("starting")
             /\ starts' = [starts EXCEPT ![cur].state = "bootstrap_failed"]
        BY <2>6 DEF TurnFailed, WorkerFailure, ParkProcess
    <3>3. \A s \in StartIds : status'[s] # status[s] => s = cur /\ status[s] \in {"running", "failed"}
                                                       /\ status'[s] = "failed"
        BY <2>2, <3>1 DEF EngineInv, EngineType
    <3>4. \A s \in StartIds : starts'[s] # starts[s] => starts[s].state = "starting"
        BY <2>1, <3>2 DEF EngineInv, EngineType, CurrentIs
    <3> QED BY <3>3, <3>4 DEF FactsKept
  <2>7. CASE SpawnLease \/ (\E l \in LeaseIds : Work(l)) \/ Crash
    <3>1. UNCHANGED engine
        BY <2>7 DEF SpawnLease, Work, Hello, Ready, TurnStarted, Terminal, LifecycleParked,
                    FailLease, Drain, Exit, Crash
    <3> QED BY <3>1 DEF engine, FactsKept
  <2> QED BY <2>3, <2>4, <2>5, <2>6, <2>7 DEF Next, Record
<1>2. IInv /\ [Next]_vars =>
        [\A s \in StartIds :
           /\ status[s] \in {"succeeded", "superseded"} => status'[s] = status[s]
           /\ status[s] = "failed" /\ status'[s] # "failed" => s = cur
           /\ starts[s].state \notin {"none", "starting"} => starts'[s] = starts[s]]_vars
    BY <1>1 DEF FactsKept
<1> QED BY <1>2, Invariance, PTL DEF Spec, TerminalFactsAreFinal

-----------------------------------------------------------------------------
(* What leases and queued reports name *)

\* A lease that is not opened yet is blank; workers are sent starts that exist
\* and return the receipt of the start they were sent.
LeaseFacts ==
    \A l \in LeaseIds :
        /\ l > opened => leases[l].state = "none" /\ leases[l].sent = 0
        /\ leases[l].sent <= made
        /\ leases[l].receipt \in {0, leases[l].sent}

\* A report other than a failure names the start its worker was sent.
NamesWhatWasSent(r) == r.kind # "failure" => r.start = leases[r.lease].sent

InboxNames == \A i \in 1..Len(inbox) : NamesWhatWasSent(inbox[i])

\* A failure of lease l waits for the process lock.
QueuedFailure(l) == \E i \in 1..Len(inbox) : inbox[i].kind = "failure" /\ inbox[i].lease = l

\* Elements of a queue after Append and after Tail.
LEMMA QueueElements ==
  ASSUME NEW S, NEW q \in Seq(S)
  PROVE  /\ \A e \in S :
              /\ Len(Append(q, e)) = Len(q) + 1
              /\ Append(q, e)[Len(q) + 1] = e
              /\ \A i \in 1..Len(q) : Append(q, e)[i] = q[i]
         /\ q # <<>> =>
              /\ Len(q) \in Nat /\ Len(q) > 0
              /\ Len(Tail(q)) = Len(q) - 1
              /\ Head(q) = q[1]
              /\ \A i \in 1..(Len(q) - 1) : Tail(q)[i] = q[i + 1]
  OBVIOUS

\* Workers append reports that name what they were sent.
InboxGrows ==
    \/ inbox' = inbox
    \/ \E r \in Report : inbox' = Append(inbox, r) /\ NamesWhatWasSent(r)

\* Every step leaves the inbox, appends to it, or takes its head and may put it
\* back as a failure; a crash empties it.
InboxStep ==
    \/ InboxGrows
    \/ inbox # <<>> /\ inbox' = Tail(inbox)
    \/ inbox # <<>> /\ inbox' = Append(Tail(inbox), [Head(inbox) EXCEPT !.kind = "failure"])
    \/ inbox' = <<>>

\* What a lease was sent is never replaced, and a receipt names it.
LeaseStep ==
    \A l \in LeaseIds :
        /\ leases[l].sent # 0 => leases'[l].sent = leases[l].sent
        /\ leases'[l].sent \in {leases[l].sent, cur}
        /\ leases'[l].receipt \in {leases[l].receipt, leases'[l].sent}
        /\ leases'[l] # leases[l] => l <= opened'

LEMMA CommandSteps == Command => UNCHANGED Physical
  BY DEF Command, StartProcess, HumanAction, ProcessAction, AbortProcess, ObservationEnds,
         RetryStartup, AutomaticRetryStartup, RetryFailedTurn, ContinueFailedTurn,
         RecoverFailedTurn

LEMMA RecordSteps ==
  Record => /\ UNCHANGED <<opened, leases, resuming, crashes>>
            /\ inbox # <<>>
            /\ \/ inbox' = Tail(inbox)
               \/ inbox' = Append(Tail(inbox), [Head(inbox) EXCEPT !.kind = "failure"])
  BY DEF Record, AcceptWorkerTurnStart, TurnOutcome, TurnFailed, WorkerFailure, ParkProcess,
         Recover

LEMMA PhysicalSteps ==
  SpawnLease \/ (\E l \in LeaseIds : Work(l)) \/ Crash => UNCHANGED engine
  BY DEF SpawnLease, Work, Hello, Ready, TurnStarted, Terminal, LifecycleParked,
         FailLease, Drain, Exit, Crash

\* Steps of the physical half keep the two shapes above.
LEMMA PhysicalShape ==
  ASSUME IInv, LeaseFacts, SpawnLease \/ (\E l \in LeaseIds : Work(l)) \/ Crash
  PROVE  (InboxGrows \/ Crash) /\ InboxStep /\ LeaseStep /\ opened <= opened'
<1>1. /\ cur \in 0..MaxStarts /\ cur <= made /\ opened \in Nat
      /\ leases \in [LeaseIds -> Lease] /\ inbox \in Seq(Report)
    BY BoundAssumption DEF IInv, EngineInv, EngineType, PhysicalType, NewestIsCurrent
<1>2. \A l \in LeaseIds : leases[l].sent # 0 => leases[l].sent \in StartIds
    BY <1>1, BoundAssumption DEF Lease, StartIds
<1>3. \A l \in LeaseIds : l > opened => leases[l].state = "none" /\ leases[l].sent = 0
    BY DEF LeaseFacts
<1>4. ASSUME NEW k \in {"accept", "outcome", "failed", "park"}, NEW l \in LeaseIds,
             leases[l].sent # 0, Enqueue(k, l, leases[l].sent)
      PROVE  InboxGrows
  <2>1. [kind |-> k, lease |-> l, start |-> leases[l].sent] \in Report
      BY <1>2, <1>4 DEF Report
  <2>2. NamesWhatWasSent([kind |-> k, lease |-> l, start |-> leases[l].sent])
      BY DEF NamesWhatWasSent
  <2> QED BY <1>4, <2>1, <2>2 DEF Enqueue, InboxGrows
<1>5. ASSUME NEW l \in LeaseIds, Enqueue("failure", l, 0)
      PROVE  InboxGrows
  <2>1. [kind |-> "failure", lease |-> l, start |-> 0] \in Report
      BY DEF Report
  <2>2. NamesWhatWasSent([kind |-> "failure", lease |-> l, start |-> 0])
      BY DEF NamesWhatWasSent
  <2> QED BY <1>5, <2>1, <2>2 DEF Enqueue, InboxGrows
<1>6. ASSUME NEW l \in LeaseIds, leases[l].state # "none" \/ leases[l].sent # 0,
             opened' = opened,
             \A m \in LeaseIds : m # l => leases'[m] = leases[m],
             leases'[l].sent = leases[l].sent \/ (leases[l].sent = 0 /\ leases'[l].sent = cur),
             leases'[l].receipt \in {leases[l].receipt, leases[l].sent}
      PROVE  LeaseStep
  <2>1. l <= opened'
      BY <1>1, <1>3, <1>6 DEF LeaseIds
  <2> QED BY <1>1, <1>6, <2>1 DEF LeaseStep, LeaseFacts
<1>7. ASSUME UNCHANGED leases PROVE LeaseStep
    BY <1>7 DEF LeaseStep
<1>8. ASSUME SpawnLease PROVE InboxGrows /\ LeaseStep /\ opened <= opened'
  <2>1. /\ opened' = opened + 1 /\ opened + 1 \in LeaseIds
        /\ leases[opened + 1].sent = 0
        /\ leases' = [leases EXCEPT ![opened + 1].start = cur, ![opened + 1].state = "live"]
      BY <1>1, <1>3, <1>8, BoundAssumption DEF SpawnLease, LeaseIds
  <2>2. \A l \in LeaseIds : /\ leases'[l].sent = leases[l].sent
                            /\ leases'[l].receipt = leases[l].receipt
                            /\ leases'[l] # leases[l] => l = opened + 1
      BY <1>1, <2>1 DEF Lease
  <2> QED BY <1>1, <1>8, <2>1, <2>2 DEF SpawnLease, InboxGrows, LeaseStep
<1>9. ASSUME NEW l \in LeaseIds, Work(l) PROVE InboxGrows /\ LeaseStep /\ opened' = opened
  <2>1. CASE Hello(l)
    <3>1. LeaseStep
        BY <1>1, <1>6, <2>1 DEF Hello, Lease
    <3> QED BY <2>1, <3>1 DEF Hello, InboxGrows
  <2>2. CASE Ready(l)
    <3>1. LeaseStep
        BY <1>1, <1>6, <2>2 DEF Ready, Lease
    <3> QED BY <2>2, <3>1 DEF Ready, InboxGrows
  <2>3. CASE TurnStarted(l)
      BY <1>4, <1>7, <2>3 DEF TurnStarted
  <2>4. ASSUME NEW verdict \in {"outcome", "failed"}, Terminal(l, verdict)
        PROVE  InboxGrows /\ LeaseStep /\ opened' = opened
    <3>1. LeaseStep
        BY <1>1, <1>6, <2>4 DEF Terminal, Lease
    <3> QED BY <1>4, <2>4, <3>1 DEF Terminal
  <2>5. CASE LifecycleParked(l)
      BY <1>4, <1>7, <2>5 DEF LifecycleParked
  <2>6. CASE FailLease(l)
    <3>1. LeaseStep
        BY <1>1, <1>6, <2>6 DEF FailLease, Lease
    <3> QED BY <1>5, <2>6, <3>1 DEF FailLease
  <2>7. CASE Drain(l)
    <3>1. LeaseStep
        BY <1>1, <1>6, <2>7 DEF Drain, Lease
    <3> QED BY <2>7, <3>1 DEF Drain, InboxGrows
  <2>8. CASE Exit(l)
    <3>1. LeaseStep
        BY <1>1, <1>6, <2>8 DEF Exit, Active, Lease
    <3>2. InboxGrows
        BY <1>5, <2>8 DEF Exit, InboxGrows
    <3> QED BY <2>8, <3>1, <3>2 DEF Exit
  <2> QED BY <1>9, <2>1, <2>2, <2>3, <2>4, <2>5, <2>6, <2>7, <2>8 DEF Work
<1>10. ASSUME Crash PROVE InboxStep /\ LeaseStep /\ opened' = opened
  <2>1. \A l \in LeaseIds : /\ leases'[l].sent = leases[l].sent
                            /\ leases'[l].receipt = leases[l].receipt
                            /\ leases'[l] # leases[l] => leases[l].state # "none"
      BY <1>1, <1>10 DEF Crash, Active, Lease
  <2> QED BY <1>1, <1>3, <1>10, <2>1 DEF Crash, InboxStep, LeaseStep, LeaseIds
<1> QED BY <1>1, <1>8, <1>9, <1>10 DEF InboxStep

\* Starts are only added.
LEMMA MadeGrows == IInv /\ [Next]_vars => made <= made'
<1> SUFFICES ASSUME IInv, [Next]_vars PROVE made <= made'
    OBVIOUS
<1>1. made \in Nat
    BY BoundAssumption DEF IInv, EngineInv, EngineType
<1> SUFFICES made' \in {made, made + 1}
    BY <1>1
<1>2. ASSUME NEW t, Select(t) PROVE made' \in {made, made + 1}
    BY <1>2 DEF Select, Reserve
<1>3. CASE Command
    BY <1>2, <1>3 DEF Command, StartProcess, HumanAction, ProcessAction, AbortProcess,
         ObservationEnds, End, RetryStartup, AutomaticRetryStartup, RetryFailedTurn,
         ContinueFailedTurn, RecoverFailedTurn, Reserve
<1>4. CASE Record
    BY <1>2, <1>4 DEF Record, AcceptWorkerTurnStart, TurnOutcome, TurnFailed, WorkerFailure,
         ParkProcess
<1>5. CASE SpawnLease \/ (\E l \in LeaseIds : Work(l)) \/ Crash
    BY <1>5, PhysicalSteps DEF engine
<1> QED BY <1>3, <1>4, <1>5 DEF Next, vars, engine

\* The physical facts are kept.
LEMMA FactsStep == IInv /\ LeaseFacts /\ InboxNames /\ [Next]_vars => LeaseFacts' /\ InboxNames'
<1> SUFFICES ASSUME IInv, LeaseFacts, InboxNames, [Next]_vars PROVE LeaseFacts' /\ InboxNames'
    OBVIOUS
<1> DEFINE StillNames(r) == r.kind # "failure" => r.start = leases'[r.lease].sent
<1>1. /\ cur \in Nat /\ cur <= made /\ made \in Nat /\ opened \in Nat /\ made <= made'
      /\ made' \in Nat /\ opened' \in Nat
      /\ leases \in [LeaseIds -> Lease] /\ inbox \in Seq(Report)
      /\ leases' \in [LeaseIds -> Lease] /\ inbox' \in Seq(Report)
    BY MadeGrows, NextIInv, BoundAssumption
       DEF IInv, EngineInv, EngineType, PhysicalType, NewestIsCurrent
<1>2. InboxStep /\ LeaseStep /\ opened <= opened'
  <2>1. CASE Command \/ UNCHANGED vars
      BY <1>1, <2>1, CommandSteps DEF Physical, vars, InboxStep, InboxGrows, LeaseStep
  <2>2. CASE Record
      BY <1>1, <2>2, RecordSteps DEF InboxStep, LeaseStep
  <2> QED BY <2>1, <2>2, PhysicalShape DEF Next
<1>3. LeaseFacts'
  <2> SUFFICES ASSUME NEW l \in LeaseIds
               PROVE  /\ l > opened' => leases'[l].state = "none" /\ leases'[l].sent = 0
                      /\ leases'[l].sent <= made'
                      /\ leases'[l].receipt \in {0, leases'[l].sent}
      BY DEF LeaseFacts
  <2>1. /\ l > opened => leases[l].state = "none" /\ leases[l].sent = 0
        /\ leases[l].sent <= made
        /\ leases[l].receipt \in {0, leases[l].sent}
        /\ leases[l].sent \in Nat /\ leases'[l].sent \in Nat /\ l \in Nat
      BY <1>1, BoundAssumption DEF LeaseFacts, Lease, LeaseIds
  <2>2. /\ leases[l].sent # 0 => leases'[l].sent = leases[l].sent
        /\ leases'[l].sent \in {leases[l].sent, cur}
        /\ leases'[l].receipt \in {leases[l].receipt, leases'[l].sent}
        /\ leases'[l] # leases[l] => l <= opened'
      BY <1>2 DEF LeaseStep
  <2> QED BY <1>1, <1>2, <2>1, <2>2
<1>4. \A r \in Report : NamesWhatWasSent(r) => StillNames(r)
  <2> SUFFICES ASSUME NEW r \in Report, r.kind # "failure", r.start = leases[r.lease].sent
               PROVE  r.start = leases'[r.lease].sent
      BY DEF NamesWhatWasSent
  <2>1. r.lease \in LeaseIds /\ r.start \in StartIds
      BY ReportFields
  <2>2. r.start # 0
      BY <2>1, BoundAssumption DEF StartIds
  <2> QED BY <1>2, <2>1, <2>2 DEF LeaseStep
<1>5. \A i \in 1..Len(inbox) : inbox[i] \in Report /\ StillNames(inbox[i])
    BY <1>1, <1>4 DEF InboxNames
<1>6. InboxNames'
  <2> SUFFICES ASSUME NEW i \in 1..Len(inbox') PROVE StillNames(inbox'[i])
      BY DEF InboxNames, NamesWhatWasSent
  <2>1. ASSUME NEW r \in Report, inbox' = Append(inbox, r), NamesWhatWasSent(r)
        PROVE  StillNames(inbox'[i])
    <3>1. i \in 1..Len(inbox) \/ inbox'[i] = r
        BY <1>1, <2>1, QueueElements
    <3>2. CASE i \in 1..Len(inbox)
      <4>1. inbox'[i] = inbox[i]
          BY <1>1, <2>1, <3>2, QueueElements
      <4> QED BY <1>5, <3>2, <4>1
    <3> QED BY <1>4, <2>1, <3>1, <3>2
  <2>2. CASE inbox # <<>> /\ inbox' = Tail(inbox)
    <3>1. i + 1 \in 1..Len(inbox) /\ inbox'[i] = inbox[i + 1]
        BY <1>1, <2>2, QueueElements
    <3> QED BY <1>5, <3>1
  <2>3. CASE inbox # <<>> /\ inbox' = Append(Tail(inbox), [Head(inbox) EXCEPT !.kind = "failure"])
    <3> DEFINE r == [Head(inbox) EXCEPT !.kind = "failure"]
    <3>1. r \in Report /\ Tail(inbox) \in Seq(Report) /\ r.kind = "failure"
      <4>1. Head(inbox) \in Report /\ Tail(inbox) \in Seq(Report)
          BY <1>1, <2>3
      <4>2. r \in Report
          BY <4>1, ReportFields
      <4> QED BY <4>1, <4>2 DEF Report
    <3>2. \/ inbox'[i] = r
          \/ i \in 1..(Len(inbox) - 1) /\ inbox'[i] = inbox[i + 1]
      <4> HIDE DEF r
      <4>1. /\ Len(Append(Tail(inbox), r)) = Len(inbox)
            /\ Append(Tail(inbox), r)[Len(inbox)] = r
            /\ \A j \in 1..(Len(inbox) - 1) : Append(Tail(inbox), r)[j] = inbox[j + 1]
          BY <1>1, <2>3, <3>1, QueueElements
      <4> QED BY <1>1, <2>3, <4>1, QueueElements DEF r
    <3>3. CASE inbox'[i] = r
        BY <3>1, <3>3
    <3>4. CASE i \in 1..(Len(inbox) - 1) /\ inbox'[i] = inbox[i + 1]
      <4>1. i + 1 \in 1..Len(inbox)
          BY <1>1, <2>3, <3>4, QueueElements
      <4> QED BY <1>5, <3>4, <4>1
    <3> QED BY <3>2, <3>3, <3>4
  <2>4. CASE inbox' = inbox
      BY <1>5, <2>4
  <2>5. CASE inbox' = <<>>
      BY <2>5
  <2> QED BY <1>2, <2>1, <2>2, <2>3, <2>4, <2>5 DEF InboxStep, InboxGrows
<1> QED BY <1>3, <1>6

LEMMA FactsInvariance == Spec => [](IInv /\ LeaseFacts /\ InboxNames)
<1>1. Init => LeaseFacts /\ InboxNames
    BY BoundAssumption DEF Init, LeaseFacts, InboxNames
<1> QED BY <1>1, InitIInv, NextIInv, FactsStep, PTL DEF Spec

\* A report other than a park moves the process only while the current start is
\* the one its worker was opened for or was sent: what a replaced worker still
\* reports is ignored, whatever was lost, repeated or recovered as a failure.
THEOREM LateReportsTheorem == Spec => LateReportsAreIgnored
<1>1. IInv /\ LeaseFacts /\ InboxNames /\ [Next]_vars =>
        [HandlesReport /\ Head(inbox).kind # "park" => Given(Head(inbox).lease, cur)]_vars
  <2> SUFFICES ASSUME IInv, LeaseFacts, InboxNames, Next, HandlesReport, Head(inbox).kind # "park"
               PROVE  Given(Head(inbox).lease, cur)
      BY DEF vars
  <2> DEFINE r == Head(inbox)
  <2>1. /\ inbox # <<>> /\ inbox \in Seq(Report) /\ r \in Report
        /\ inbox' = Tail(inbox) /\ engine' # engine
      BY InboxHead DEF HandlesReport, IInv, PhysicalType
  <2>2. inbox' # inbox
      BY <2>1, QueueElements
  <2>3. Record
      BY <2>1, <2>2, CommandSteps, PhysicalSteps DEF Next, Physical
  <2>4. r.kind # "failure" => r.start = leases[r.lease].sent /\ r.start # 0
    <3>1. 1 \in 1..Len(inbox) /\ r = inbox[1]
        BY <2>1, QueueElements
    <3>2. r.kind # "failure" => r.start \in StartIds
      <4> HIDE DEF r
      <4> QED BY <2>1, ReportFields
    <3> QED BY <3>1, <3>2, BoundAssumption DEF InboxNames, NamesWhatWasSent, StartIds
  <2>5. CASE AcceptWorkerTurnStart
      BY <2>1, <2>4, <2>5 DEF AcceptWorkerTurnStart, engine, Given
  <2>6. CASE TurnOutcome
      BY <2>1, <2>4, <2>6 DEF TurnOutcome, Correlated, engine, Given
  <2>7. CASE TurnFailed
      BY <2>1, <2>4, <2>7 DEF TurnFailed, Correlated, engine, Given
  <2>8. CASE WorkerFailure
      BY <2>1, <2>8 DEF WorkerFailure, Stale, engine, Given
  <2>9. CASE ParkProcess
      BY <2>9 DEF ParkProcess
  <2> QED BY <2>3, <2>5, <2>6, <2>7, <2>8, <2>9 DEF Record
<1> QED BY <1>1, FactsInvariance, PTL DEF Spec, LateReportsAreIgnored

-----------------------------------------------------------------------------
(* An engine that did not stray *)

\* Only worker turns have executions.
WorkersExecute == cur # 0 => Kind[starts[cur].turn] # "human"

Straight == CurrentExecutionIsAnchored /\ ErrorIsRecoverable /\ WorkersExecute

\* Reserving a start of a worker turn, once nothing else waits or runs.
LEMMA ReserveStraight ==
  ASSUME IInv, IInv', NEW t \in Turns, NEW parent, NEW tries, Reserve(t, parent, tries),
         Kind[t] # "human",
         \A s \in StartIds : starts[s].state # "starting" /\ status'[s] # "running"
  PROVE  Straight'
<1> DEFINE n == made + 1
<1>1. n \in StartIds /\ made' = n /\ cur' = n /\ cur' # 0 /\ sel' = t
    BY BoundAssumption DEF Reserve, IInv, EngineInv, EngineType, StartIds
<1>2. PICK st \in {"starting", "preparation_failed"} :
        /\ starts' = [starts EXCEPT ![n] = [turn |-> t, parent |-> parent, owner |-> 0,
                                            tries |-> tries, state |-> st]]
        /\ life' = IF st = "starting" THEN "active" ELSE "error"
    BY DEF Reserve, Preflight
<1>3. /\ starts'[n].state = st /\ starts'[n].turn = t
      /\ \A s \in StartIds : s # n => starts'[s] = starts[s]
    BY <1>1, <1>2 DEF IInv, EngineInv, EngineType
<1>4. CurrentExecutionIsAnchored'
    BY <1>1, <1>2, <1>3 DEF CurrentExecutionIsAnchored
<1>5. ErrorIsRecoverable' /\ WorkersExecute'
    BY <1>1, <1>2, <1>3 DEF ErrorIsRecoverable, StartupFailed, CurrentIs, WorkersExecute
<1> QED BY <1>4, <1>5 DEF Straight

LEMMA SelectStraight ==
  ASSUME IInv, IInv', NEW t \in Targets, Select(t),
         \A s \in StartIds : starts[s].state # "starting" /\ status'[s] # "running"
  PROVE  Straight'
<1>1. CASE t \in Turns /\ Kind[t] # "human"
    BY <1>1, ReserveStraight DEF Select
<1>2. CASE ~(t \in Turns /\ Kind[t] # "human")
    BY <1>2 DEF Select, Straight, CurrentExecutionIsAnchored, ErrorIsRecoverable, WorkersExecute
<1> QED BY <1>1, <1>2

\* Ending leaves no execution at all.
LEMMA EndStraight ==
  ASSUME IInv, Straight, NEW outcome \in {"completed", "aborted"}, End(outcome)
  PROVE  Straight'
<1>1. /\ life' = outcome /\ cur' = 0
      /\ starts' = (IF CurrentIs("starting")
                    THEN [starts EXCEPT ![cur].state = "superseded"] ELSE starts)
      /\ status' = (IF CurrentRuns THEN [status EXCEPT ![cur] = "superseded"] ELSE status)
    BY DEF End, Supersede
<1>2. \A s \in StartIds : (starts[s].state = "starting" => CurrentIs("starting") /\ s = cur)
                          /\ (status[s] = "running" => CurrentRuns /\ s = cur)
    BY BoundAssumption DEF IInv, EngineInv, AttemptsFollowFailures, Straight,
         CurrentExecutionIsAnchored, CurrentIs, CurrentRuns, StartIds
<1>3. \A s \in StartIds : starts'[s].state # "starting" /\ status'[s] # "running"
    BY <1>1, <1>2 DEF IInv, EngineInv, EngineType
<1> QED BY <1>1, <1>3 DEF Straight, CurrentExecutionIsAnchored, ErrorIsRecoverable, WorkersExecute

\* What is known of the current execution, and of the rest, while straight.
LEMMA StraightFacts ==
  ASSUME IInv, Straight
  PROVE  /\ cur # 0 => /\ cur \in StartIds /\ sel = starts[cur].turn /\ sel \in Turns
                       /\ life \in {"active", "error"} /\ Kind[sel] # "human"
         /\ \A s \in StartIds : starts[s].state = "starting" \/ status[s] = "running" => s = cur
         /\ cur # 0 => (status[cur] # "none") = (starts[cur].state = "accepted")
         /\ CurrentIs("starting") \/ CurrentRuns => life = "active"
         /\ life \notin {"active", "error"} => cur = 0
  BY DEF IInv, EngineInv, EngineType, AttemptsFollowFailures, Straight,
         CurrentExecutionIsAnchored, ErrorIsRecoverable, WorkersExecute, StartupFailed, CurrentIs, CurrentRuns, Start, StartIds

\* Every step but a process-level action and a park keeps the engine straight.
LEMMA StraightStep ==
  IInv /\ IInv' /\ Straight /\ [Next]_vars /\ ~ProcessAction /\ ~ParkProcess => Straight'
<1> SUFFICES ASSUME IInv, IInv', Straight, [Next]_vars, ~ProcessAction, ~ParkProcess
             PROVE  Straight'
    OBVIOUS
<1>1. /\ cur # 0 => /\ cur \in StartIds /\ sel = starts[cur].turn /\ sel \in Turns
                    /\ life \in {"active", "error"} /\ Kind[sel] # "human"
      /\ \A s \in StartIds : starts[s].state = "starting" \/ status[s] = "running" => s = cur
      /\ cur # 0 => (status[cur] # "none") = (starts[cur].state = "accepted")
      /\ CurrentIs("starting") \/ CurrentRuns => life = "active"
      /\ life \notin {"active", "error"} => cur = 0
    BY StraightFacts
<1>2. 0 \notin StartIds /\ starts \in [StartIds -> Start] /\ status \in [StartIds -> Statuses]
    BY BoundAssumption DEF StartIds, IInv, EngineInv, EngineType
<1>3. ASSUME cur = 0, UNCHANGED status, NEW t \in Targets, Select(t) PROVE Straight'
    BY <1>1, <1>2, <1>3, SelectStraight
<1>4. ASSUME cur # 0, starts[cur].state # "starting", status[cur] # "running", UNCHANGED status,
             NEW parent, NEW tries, Reserve(starts[cur].turn, parent, tries)
      PROVE  Straight'
  <2>1. \A s \in StartIds : starts[s].state # "starting" /\ status'[s] # "running"
      BY <1>1, <1>4
  <2> QED BY <1>1, <1>4, <2>1, ReserveStraight
<1>5. CASE Command
  <2>1. CASE StartProcess
      BY <1>1, <1>3, <2>1, GraphAssumption DEF StartProcess, Targets
  <2>2. CASE HumanAction
      BY <1>1, <1>3, <2>2 DEF HumanAction
  <2>3. CASE AbortProcess \/ ObservationEnds
      BY <2>3, EndStraight DEF AbortProcess, ObservationEnds
  <2>4. CASE RetryStartup \/ AutomaticRetryStartup
      BY <1>1, <1>2, <1>4, <2>4 DEF RetryStartup, AutomaticRetryStartup, StartupFailed, CurrentIs
  <2>5. CASE RetryFailedTurn \/ ContinueFailedTurn
      BY <1>1, <1>4, <2>5 DEF RetryFailedTurn, ContinueFailedTurn, RecoverFailedTurn, CurrentIs
  <2> QED BY <1>5, <2>1, <2>2, <2>3, <2>4, <2>5 DEF Command
<1>6. ASSUME UNCHANGED <<life, sel, cur, starts, status>> PROVE Straight'
    BY <1>6 DEF Straight, CurrentExecutionIsAnchored, ErrorIsRecoverable, WorkersExecute,
         StartupFailed, CurrentIs, CurrentRuns
<1>7. ASSUME CurrentIs("accepted"), Fail(cur), UNCHANGED <<cur, starts>> PROVE Straight'
  <2>1. /\ cur # 0 /\ cur \in StartIds /\ status' = [status EXCEPT ![cur] = "failed"]
        /\ sel' = starts[cur].turn /\ life' = "error"
      BY <1>1, <1>7 DEF Fail, CurrentIs
  <2>2. status'[cur] = "failed" /\ \A s \in StartIds : s # cur => status'[s] = status[s]
      BY <1>2, <2>1
  <2> QED BY <1>1, <1>7, <2>1, <2>2
        DEF Straight, CurrentExecutionIsAnchored, ErrorIsRecoverable, WorkersExecute, CurrentIs
<1>8. CASE AcceptWorkerTurnStart
  <2>1. CASE UNCHANGED <<starts, status, attempt>>
      BY <1>6, <1>8, <2>1 DEF AcceptWorkerTurnStart
  <2>2. CASE ~UNCHANGED <<starts, status, attempt>>
    <3>1. PICK s, l :
            /\ life = "active" /\ cur = s /\ starts[s].state = "starting"
            /\ starts' = [starts EXCEPT ![s].state = "accepted", ![s].owner = l]
            /\ status' = [status EXCEPT ![s] = "running"]
            /\ UNCHANGED <<life, sel, cur>> /\ s \in StartIds
      <4>1. Head(inbox).start \in StartIds
          BY <1>8, InboxHead, ReportFields DEF AcceptWorkerTurnStart, IInv
      <4> QED BY <1>8, <2>2, <4>1 DEF AcceptWorkerTurnStart
    <3>2. /\ starts'[cur].state = "accepted" /\ starts'[cur].turn = starts[cur].turn
          /\ status'[cur] = "running"
          /\ \A k \in StartIds : k # cur => starts'[k] = starts[k] /\ status'[k] = status[k]
        BY <1>2, <3>1 DEF Start
    <3> QED BY <1>1, <1>2, <3>1, <3>2 DEF Straight, CurrentExecutionIsAnchored,
          ErrorIsRecoverable, WorkersExecute, CurrentIs, CurrentRuns
  <2> QED BY <2>1, <2>2
<1>9. CASE TurnOutcome
  <2>1. CASE UNCHANGED <<life, sel, cur, made, starts, status>>
      BY <1>6, <2>1
  <2>2. CASE ~UNCHANGED <<life, sel, cur, made, starts, status>>
    <3>1. /\ CurrentIs("accepted") /\ \E t \in Targets : Select(t)
          /\ status' = [status EXCEPT ![cur] = "succeeded"]
        BY <1>9, <2>2 DEF TurnOutcome, Correlated
    <3>2. \A s \in StartIds : starts[s].state # "starting" /\ status'[s] # "running"
        BY <1>1, <1>2, <3>1 DEF CurrentIs
    <3> QED BY <3>1, <3>2, SelectStraight
  <2> QED BY <2>1, <2>2
<1>10. CASE TurnFailed
    BY <1>6, <1>7, <1>10 DEF TurnFailed, Correlated
<1>11. CASE WorkerFailure
  <2>1. CASE UNCHANGED <<life, sel, starts, status>>
      BY <1>6, <1>11, <2>1 DEF WorkerFailure
  <2>2. CASE CurrentRuns /\ Fail(cur) /\ UNCHANGED starts
      BY <1>7, <1>11, <2>2 DEF WorkerFailure, CurrentRuns
  <2>3. CASE /\ CurrentIs("starting") /\ life' = "error" /\ UNCHANGED <<sel, status>>
             /\ starts' = [starts EXCEPT ![cur].state = "bootstrap_failed"]
    <3>1. /\ cur # 0 /\ cur' = cur
          /\ starts'[cur].state = "bootstrap_failed" /\ starts'[cur].turn = starts[cur].turn
          /\ \A k \in StartIds : k # cur => starts'[k] = starts[k]
        BY <1>1, <1>2, <1>11, <2>3 DEF CurrentIs, WorkerFailure, Start
    <3> QED BY <1>1, <2>3, <3>1 DEF Straight, CurrentExecutionIsAnchored,
          ErrorIsRecoverable, WorkersExecute, StartupFailed, CurrentIs
  <2>4. CASE /\ ~CurrentIs("starting") /\ ~CurrentRuns /\ RequiresWorker
      BY <1>11, <2>4 DEF RequiresWorker, Straight, ErrorIsRecoverable
  <2> QED BY <1>11, <2>1, <2>2, <2>3, <2>4 DEF WorkerFailure
<1>12. CASE SpawnLease \/ (\E l \in LeaseIds : Work(l)) \/ Crash \/ UNCHANGED vars
    BY <1>6, <1>12, PhysicalSteps DEF engine, vars
<1> QED BY <1>5, <1>8, <1>9, <1>10, <1>11, <1>12 DEF Next, Record

\* No restart, and no lease was sent another start than it was opened for.
Settled == crashes = 0 /\ \A l \in LeaseIds : leases[l].sent \in {0, leases[l].start}

\* A worker that failed with the current start has a failure in the inbox for as
\* long as that start waits or runs.
FailedIsQueued ==
    CurrentIs("starting") \/ CurrentRuns =>
        \A l \in LeaseIds : leases[l].state = "failed" /\ leases[l].sent = cur => QueuedFailure(l)

\* The worker accepted for the running record is there, or its failure is queued.
OwnerIsThere ==
    CurrentRuns =>
        /\ starts[cur].owner \in LeaseIds
        /\ leases[starts[cur].owner].sent = cur
        /\ \/ leases[starts[cur].owner].state \in {"live", "draining"}
           \/ QueuedFailure(starts[cur].owner)

HistoryInv ==
    /\ IInv /\ LeaseFacts /\ InboxNames
    /\ strayed \in BOOLEAN
    /\ ~strayed => Straight /\ (Settled => FailedIsQueued /\ OwnerIsThere)

\* A queued failure stays queued until it is the one that is taken.
LEMMA FailureStays ==
  ASSUME inbox \in Seq(Report), NEW l \in LeaseIds, QueuedFailure(l)
  PROVE  /\ inbox' = inbox => QueuedFailure(l)'
         /\ \A r \in Report : inbox' = Append(inbox, r) => QueuedFailure(l)'
         /\ inbox' = Tail(inbox) =>
              (Head(inbox).kind = "failure" /\ Head(inbox).lease = l) \/ QueuedFailure(l)'
         /\ \A r \in Report : inbox' = Append(Tail(inbox), r) =>
              (Head(inbox).kind = "failure" /\ Head(inbox).lease = l) \/ QueuedFailure(l)'
<1>1. PICK i \in 1..Len(inbox) : inbox[i].kind = "failure" /\ inbox[i].lease = l
    BY DEF QueuedFailure
<1>2. inbox # <<>> /\ Tail(inbox) \in Seq(Report) /\ Head(inbox) = inbox[1]
    BY <1>1
<1>3. inbox' = inbox => QueuedFailure(l)'
    BY <1>1 DEF QueuedFailure
<1>4. ASSUME NEW r \in Report, inbox' = Append(inbox, r) PROVE QueuedFailure(l)'
  <2>1. i \in 1..Len(inbox') /\ inbox'[i] = inbox[i]
      BY <1>4, QueueElements
  <2> QED BY <1>1, <2>1 DEF QueuedFailure
<1>5. CASE i = 1
    BY <1>1, <1>2, <1>3, <1>4, <1>5
<1>6. CASE i # 1
  <2>1. i - 1 \in 1..Len(Tail(inbox)) /\ Tail(inbox)[i - 1] = inbox[i] /\ Len(Tail(inbox)) \in Nat
      BY <1>2, <1>6, QueueElements
  <2>2. inbox' = Tail(inbox) => QueuedFailure(l)'
      BY <1>1, <2>1 DEF QueuedFailure
  <2>3. ASSUME NEW r \in Report, inbox' = Append(Tail(inbox), r) PROVE QueuedFailure(l)'
    <3>1. i - 1 \in 1..Len(inbox') /\ inbox'[i - 1] = inbox[i]
        BY <1>2, <2>1, <2>3, QueueElements
    <3> QED BY <1>1, <3>1 DEF QueuedFailure
  <2> QED BY <1>3, <1>4, <2>2, <2>3
<1> QED BY <1>5, <1>6

\* Enqueuing a failure queues it.
LEMMA FailureQueued ==
  ASSUME inbox \in Seq(Report), NEW l \in LeaseIds, Enqueue("failure", l, 0)
  PROVE  QueuedFailure(l)'
<1>1. [kind |-> "failure", lease |-> l, start |-> 0] \in Report
    BY DEF Report
<1>2. /\ Len(inbox) + 1 \in 1..Len(inbox')
      /\ inbox'[Len(inbox) + 1] = [kind |-> "failure", lease |-> l, start |-> 0]
    BY <1>1, QueueElements DEF Enqueue
<1> QED BY <1>2 DEF QueuedFailure

\* What a settled state was settled before.
LEMMA SettledBefore ==
  ASSUME IInv, LeaseFacts, [Next]_vars, Settled'
  PROVE  Settled /\ ~Crash
<1>1. leases \in [LeaseIds -> Lease] /\ crashes \in Nat /\ opened \in Nat
    BY BoundAssumption DEF IInv, PhysicalType
<1>2. ~Crash
    BY <1>1 DEF Crash, Settled
<1>3. CASE Command \/ Record \/ UNCHANGED vars
    BY <1>2, <1>3, CommandSteps, RecordSteps DEF Settled, Physical, vars
<1>4. CASE SpawnLease
  <2>1. opened + 1 \in LeaseIds => leases[opened + 1].sent = 0
      BY <1>1 DEF LeaseFacts
  <2>2. \A l \in LeaseIds : /\ leases'[l].sent = leases[l].sent
                            /\ l # opened + 1 => leases'[l].start = leases[l].start
      BY <1>1, <1>4 DEF SpawnLease, Lease
  <2> QED BY <1>1, <1>2, <1>4, <2>1, <2>2 DEF Settled, SpawnLease
<1>5. ASSUME NEW l \in LeaseIds, Work(l) PROVE Settled
  <2>1. \A m \in LeaseIds : /\ leases'[m].start = leases[m].start
                            /\ leases'[m].sent = leases[m].sent \/ leases[m].sent = 0
      BY <1>1, <1>5 DEF Work, Hello, Ready, TurnStarted, Terminal, LifecycleParked, FailLease,
                        Drain, Exit, Lease
  <2>2. crashes' = crashes
      BY <1>5 DEF Work, Hello, Ready, TurnStarted, Terminal, LifecycleParked, FailLease,
                  Drain, Exit
  <2> QED BY <2>1, <2>2 DEF Settled
<1> QED BY <1>2, <1>3, <1>4, <1>5 DEF Next

\* A selection leaves no execution, or one that no worker was sent yet.
LEMMA FreshSelection ==
  ASSUME IInv, LeaseFacts, UNCHANGED leases,
         cur' = 0 \/ (cur' = made + 1 /\ cur' \in StartIds /\ starts'[cur'].state # "accepted")
  PROVE  FailedIsQueued' /\ OwnerIsThere'
<1>1. \A l \in LeaseIds : leases'[l].sent # made + 1
  <2>1. leases \in [LeaseIds -> Lease] /\ made \in Nat
      BY BoundAssumption DEF IInv, PhysicalType, EngineInv, EngineType
  <2>2. \A l \in LeaseIds : leases[l].sent \in Nat /\ leases[l].sent <= made
      BY <2>1, BoundAssumption DEF Lease, LeaseFacts
  <2> QED BY <2>1, <2>2
<1> QED BY <1>1 DEF FailedIsQueued, OwnerIsThere, CurrentRuns, CurrentIs

LEMMA SelectIsFresh ==
  ASSUME IInv, \/ \E t : Select(t)
               \/ \E t, parent, tries : Reserve(t, parent, tries)
               \/ \E outcome : End(outcome)
  PROVE  cur' = 0 \/ (cur' = made + 1 /\ cur' \in StartIds /\ starts'[cur'].state # "accepted")
<1>1. ASSUME NEW t, NEW parent, NEW tries, Reserve(t, parent, tries)
      PROVE  cur' = made + 1 /\ cur' \in StartIds /\ starts'[cur'].state # "accepted"
    BY <1>1, BoundAssumption DEF Reserve, Preflight, IInv, EngineInv, EngineType, StartIds
<1> QED BY <1>1 DEF Select, End

\* An execution that neither waits nor runs needs no worker.
LEMMA NothingOwed ==
  ASSUME ~CurrentIs("starting")', ~CurrentRuns'
  PROVE  FailedIsQueued' /\ OwnerIsThere'
  BY DEF FailedIsQueued, OwnerIsThere

\* Taking a report that changes nothing loses at most a failure of another lease.
LEMMA RecordNothing ==
  ASSUME IInv, FailedIsQueued, OwnerIsThere, Record, UNCHANGED <<cur, starts, status>>,
         CurrentIs("starting") \/ CurrentRuns =>
           (Head(inbox).kind = "failure" => leases[Head(inbox).lease].sent # cur)
  PROVE  FailedIsQueued' /\ OwnerIsThere'
<1> SUFFICES ASSUME CurrentIs("starting") \/ CurrentRuns PROVE FailedIsQueued' /\ OwnerIsThere'
    BY NothingOwed DEF CurrentIs, CurrentRuns
<1>1. UNCHANGED leases /\ inbox \in Seq(Report) /\ inbox # <<>>
    BY RecordSteps DEF IInv, PhysicalType
<1>2. [Head(inbox) EXCEPT !.kind = "failure"] \in Report
    BY <1>1, InboxHead, ReportFields DEF IInv
<1>3. ASSUME NEW l \in LeaseIds, leases[l].sent = cur, QueuedFailure(l) PROVE QueuedFailure(l)'
    BY <1>1, <1>2, <1>3, FailureStays, RecordSteps
<1> QED BY <1>1, <1>3 DEF FailedIsQueued, OwnerIsThere, CurrentIs, CurrentRuns

\* Recording keeps every failed or running execution accounted for.
LEMMA RecordAccounts ==
  ASSUME IInv, LeaseFacts, Straight, Settled, FailedIsQueued, OwnerIsThere, Record, ~ParkProcess
  PROVE  FailedIsQueued' /\ OwnerIsThere'
<1>1. /\ UNCHANGED leases /\ inbox \in Seq(Report) /\ inbox # <<>>
      /\ Head(inbox) \in Report /\ Head(inbox).lease \in LeaseIds
      /\ Head(inbox).kind # "failure" => Head(inbox).start \in StartIds
    BY RecordSteps, InboxHead, ReportFields DEF IInv, PhysicalType
<1>2. /\ starts \in [StartIds -> Start] /\ status \in [StartIds -> Statuses]
      /\ leases \in [LeaseIds -> Lease] /\ 0 \notin StartIds
      /\ cur # 0 => cur \in StartIds
      /\ CurrentIs("starting") \/ CurrentRuns => life = "active"
    BY StraightFacts, BoundAssumption DEF IInv, EngineInv, EngineType, PhysicalType, StartIds
<1>3. CASE UNCHANGED <<cur, starts, status>> /\ Head(inbox).kind # "failure"
    BY <1>3, RecordNothing
<1>4. CASE AcceptWorkerTurnStart
  <2>1. CASE UNCHANGED <<starts, status, attempt>>
      BY <1>3, <1>4, <2>1 DEF AcceptWorkerTurnStart
  <2>2. CASE ~UNCHANGED <<starts, status, attempt>>
    <3> DEFINE l == Head(inbox).lease
    <3>1. /\ CurrentIs("starting") /\ cur \in StartIds /\ cur' = cur
          /\ Head(inbox).kind = "accept" /\ inbox' = Tail(inbox)
          /\ leases[l].receipt = cur /\ Active(l)
          /\ starts' = [starts EXCEPT ![cur].state = "accepted", ![cur].owner = l]
          /\ status' = [status EXCEPT ![cur] = "running"]
        BY <1>1, <1>2, <1>4, <2>2 DEF AcceptWorkerTurnStart, CurrentIs
    <3>2. starts'[cur].owner = l /\ starts'[cur].state = "accepted" /\ status'[cur] = "running"
        BY <1>2, <3>1 DEF Start
    <3>3. leases[l].sent = cur
        BY <1>1, <1>2, <3>1 DEF LeaseFacts
    <3>4. \A m \in LeaseIds : QueuedFailure(m) => QueuedFailure(m)'
        BY <1>1, <3>1, FailureStays
    <3> QED BY <1>1, <3>1, <3>2, <3>3, <3>4
          DEF FailedIsQueued, OwnerIsThere, CurrentIs, CurrentRuns, Active
  <2> QED BY <2>1, <2>2
<1>5. CASE TurnOutcome
  <2>1. CASE UNCHANGED <<life, sel, cur, made, starts, status>>
      BY <1>3, <1>5, <2>1 DEF TurnOutcome
  <2>2. CASE ~UNCHANGED <<life, sel, cur, made, starts, status>>
      BY <1>1, <1>5, <2>2, SelectIsFresh, FreshSelection DEF TurnOutcome
  <2> QED BY <2>1, <2>2
<1>6. ASSUME CurrentIs("accepted"), Fail(cur), UNCHANGED <<cur, starts>>
      PROVE  FailedIsQueued' /\ OwnerIsThere'
  <2>1. status'[cur] = "failed"
      BY <1>2, <1>6 DEF Fail, CurrentIs
  <2> QED BY <1>6, <2>1, NothingOwed DEF CurrentIs, CurrentRuns
<1>7. CASE TurnFailed
    BY <1>3, <1>6, <1>7 DEF TurnFailed, Correlated
<1>8. CASE WorkerFailure
  <2>1. CASE Stale(Head(inbox).lease) /\ UNCHANGED <<life, sel, starts, status>>
    <3>1. cur' = cur /\ (cur = 0 \/ leases[Head(inbox).lease].start # cur)
        BY <1>8, <2>1 DEF WorkerFailure, Stale
    <3>2. cur # 0 => leases[Head(inbox).lease].sent # cur
        BY <1>1, <3>1 DEF Settled
    <3> QED BY <2>1, <3>1, <3>2, RecordNothing DEF CurrentIs, CurrentRuns
  <2>2. CASE CurrentIs("starting") /\ ~Stale(Head(inbox).lease)
    <3>1. /\ cur' = cur /\ status' = status /\ cur \in StartIds
          /\ starts' = [starts EXCEPT ![cur].state = "bootstrap_failed"]
        BY <1>2, <1>8, <2>2 DEF WorkerFailure, CurrentIs, CurrentRuns
    <3>2. starts'[cur].state = "bootstrap_failed"
        BY <1>2, <3>1 DEF Start
    <3> QED BY <3>1, <3>2, NothingOwed DEF CurrentIs, CurrentRuns
  <2>3. CASE CurrentRuns /\ Fail(cur) /\ UNCHANGED starts
      BY <1>6, <1>8, <2>3 DEF WorkerFailure, CurrentRuns
  <2>4. CASE ~CurrentIs("starting") /\ ~CurrentRuns /\ UNCHANGED <<sel, starts, status>>
      BY <1>8, <2>4, NothingOwed DEF WorkerFailure, CurrentIs, CurrentRuns
  <2> QED BY <1>8, <2>1, <2>2, <2>3, <2>4 DEF WorkerFailure
<1> QED BY <1>4, <1>5, <1>7, <1>8 DEF Record

\* Workers that come, fail and leave keep it accounted for.
LEMMA PhysicalAccounts ==
  ASSUME IInv, LeaseFacts, Straight, FailedIsQueued, OwnerIsThere,
         SpawnLease \/ (\E l \in LeaseIds : Work(l)), ~Crash
  PROVE  FailedIsQueued' /\ OwnerIsThere'
<1> SUFFICES ASSUME CurrentIs("starting") \/ CurrentRuns PROVE FailedIsQueued' /\ OwnerIsThere'
    BY NothingOwed, PhysicalSteps DEF CurrentIs, CurrentRuns, engine
<1>1. /\ UNCHANGED <<cur, starts, status>> /\ inbox \in Seq(Report)
      /\ leases \in [LeaseIds -> Lease] /\ opened \in Nat /\ cur # 0 /\ life = "active"
    BY PhysicalSteps, StraightFacts, BoundAssumption
       DEF engine, IInv, PhysicalType, CurrentIs, CurrentRuns
<1>2. \A m \in LeaseIds : QueuedFailure(m) => QueuedFailure(m)'
    BY <1>1, PhysicalShape, FailureStays DEF InboxGrows
<1>3. ASSUME NEW l \in LeaseIds,
             \A m \in LeaseIds : m # l => leases'[m] = leases[m],
             leases'[l].sent = cur => \/ leases'[l].state \in {"live", "draining"}
                                      \/ QueuedFailure(l)'
                                      \/ leases'[l].state # "failed" /\ starts[cur].owner # l,
             leases[l].sent = cur => leases'[l].sent = cur
      PROVE  FailedIsQueued' /\ OwnerIsThere'
    BY <1>1, <1>2, <1>3 DEF FailedIsQueued, OwnerIsThere, CurrentIs, CurrentRuns
<1>4. CASE SpawnLease
  <2>1. opened + 1 \in LeaseIds
      BY <1>1, <1>4, BoundAssumption DEF SpawnLease, LeaseIds
  <2>2. leases[opened + 1].sent = 0
      BY <1>1, <2>1 DEF LeaseFacts
  <2> QED BY <1>1, <1>3, <1>4, <2>1, <2>2 DEF SpawnLease, Lease
<1>5. ASSUME NEW l \in LeaseIds, Work(l) PROVE FailedIsQueued' /\ OwnerIsThere'
  <2>1. CASE Hello(l)
      BY <1>1, <1>3, <2>1 DEF Hello, Lease
  <2>2. CASE UNCHANGED leases
      BY <1>1, <1>2, <2>2 DEF FailedIsQueued, OwnerIsThere, CurrentIs, CurrentRuns
  <2>3. ASSUME leases'[l].state = leases[l].state, leases'[l].sent = leases[l].sent,
               \A m \in LeaseIds : m # l => leases'[m] = leases[m]
        PROVE  FailedIsQueued' /\ OwnerIsThere'
      BY <1>1, <1>2, <2>3 DEF FailedIsQueued, OwnerIsThere, CurrentIs, CurrentRuns
  <2>4. CASE Ready(l)
      BY <1>1, <2>3, <2>4 DEF Ready, Lease
  <2>5. ASSUME NEW verdict \in {"outcome", "failed"}, Terminal(l, verdict)
        PROVE  FailedIsQueued' /\ OwnerIsThere'
      BY <1>1, <2>3, <2>5 DEF Terminal, Lease
  <2>6. CASE FailLease(l)
    <3>1. QueuedFailure(l)'
        BY <1>1, <2>6, FailureQueued DEF FailLease
    <3> QED BY <1>1, <1>3, <2>6, <3>1 DEF FailLease, Lease
  <2>7. CASE Drain(l)
      BY <1>1, <1>3, <2>7 DEF Drain, Lease
  <2>8. CASE Exit(l)
    <3>1. /\ \A m \in LeaseIds : m # l => leases'[m] = leases[m]
          /\ leases'[l].sent = leases[l].sent /\ leases'[l].state = "exited"
        BY <1>1, <2>8 DEF Exit, Lease
    <3>2. CASE leases[l].state = "live" \/ (leases[l].state = "draining" /\ OwnsRunningTurn(l))
      <4>1. QueuedFailure(l)'
          BY <1>1, <2>8, <3>2, FailureQueued DEF Exit
      <4> QED BY <1>3, <3>1, <4>1
    <3>3. CASE leases[l].state = "draining" /\ ~OwnsRunningTurn(l)
      <4>1. CurrentRuns => starts[cur].owner # l
          BY <1>1, <3>3 DEF OwnsRunningTurn
      <4> QED BY <1>1, <1>2, <3>1, <4>1
            DEF FailedIsQueued, OwnerIsThere, CurrentIs, CurrentRuns
    <3>4. CASE leases[l].state = "failed"
      <4>1. leases[l].sent = cur => QueuedFailure(l)
          BY <3>4 DEF FailedIsQueued
      <4> QED BY <1>2, <1>3, <3>1, <4>1
    <3> QED BY <2>8, <3>2, <3>3, <3>4 DEF Exit, Active
  <2> QED BY <1>5, <2>1, <2>2, <2>4, <2>5, <2>6, <2>7, <2>8 DEF Work, TurnStarted, LifecycleParked
<1> QED BY <1>4, <1>5

\* The history invariant is inductive.
LEMMA HistoryStep == HistoryInv /\ [StrayNext]_<<vars, strayed>> => HistoryInv'
<1> SUFFICES ASSUME HistoryInv, [StrayNext]_<<vars, strayed>> PROVE HistoryInv'
    OBVIOUS
<1>1. [Next]_vars /\ IInv /\ LeaseFacts /\ InboxNames
    BY DEF HistoryInv, StrayNext
<1>2. IInv' /\ LeaseFacts' /\ InboxNames'
    BY <1>1, NextIInv, FactsStep
<1>3. CASE UNCHANGED <<vars, strayed>>
    BY <1>2, <1>3 DEF HistoryInv, vars, engine, Straight, CurrentExecutionIsAnchored,
         ErrorIsRecoverable, WorkersExecute, StartupFailed, CurrentIs, CurrentRuns, Settled,
         FailedIsQueued, OwnerIsThere, QueuedFailure
<1>4. CASE StrayNext
  <2>1. strayed' \in BOOLEAN
      BY <1>4 DEF StrayNext
  <2> SUFFICES ASSUME ~strayed' PROVE Straight' /\ (Settled' => FailedIsQueued' /\ OwnerIsThere')
      BY <1>2, <2>1 DEF HistoryInv
  <2>2. Next /\ ~strayed /\ ~ProcessAction /\ ~ParkProcess
      BY <1>4 DEF StrayNext, HistoryInv
  <2>3. Straight /\ Straight'
      BY <1>1, <1>2, <2>2, StraightStep DEF HistoryInv
  <2> SUFFICES ASSUME Settled' PROVE FailedIsQueued' /\ OwnerIsThere'
      BY <2>3
  <2>4. Settled /\ ~Crash /\ FailedIsQueued /\ OwnerIsThere
      BY <1>1, <2>2, SettledBefore DEF HistoryInv
  <2>5. CASE Command
    <3>1. UNCHANGED leases
        BY <2>5, CommandSteps DEF Physical
    <3>2. \/ \E t : Select(t)
          \/ \E t, parent, tries : Reserve(t, parent, tries)
          \/ \E outcome : End(outcome)
        BY <2>5 DEF Command, StartProcess, HumanAction, ProcessAction, AbortProcess,
             ObservationEnds, RetryStartup, AutomaticRetryStartup, RetryFailedTurn,
             ContinueFailedTurn, RecoverFailedTurn
    <3> QED BY <1>1, <3>1, <3>2, SelectIsFresh, FreshSelection
  <2>6. CASE Record
      BY <1>1, <2>2, <2>3, <2>4, <2>6, RecordAccounts
  <2>7. CASE SpawnLease \/ (\E l \in LeaseIds : Work(l))
      BY <1>1, <2>3, <2>4, <2>7, PhysicalAccounts
  <2> QED BY <2>2, <2>4, <2>5, <2>6, <2>7 DEF Next
<1> QED BY <1>3, <1>4

\* While no process-level action left a worker turn and no park was recorded on
\* its own, the current execution is the start of the selected turn, an active
\* process has one that waits or runs, one in error has one that can be retried,
\* and (before any restart, and while no lease was sent a start it was not
\* opened for) the worker of a running turn is there or its failure is queued.
THEOREM AccountedTheorem == StraySpec => []ExecutionIsAccounted
<1>1. StrayInit => HistoryInv
  <2> SUFFICES ASSUME StrayInit PROVE HistoryInv
      OBVIOUS
  <2>1. IInv /\ strayed = FALSE
      BY InitIInv DEF StrayInit
  <2>2. LeaseFacts /\ InboxNames
      BY BoundAssumption DEF StrayInit, Init, LeaseFacts, InboxNames
  <2>3. Straight /\ FailedIsQueued /\ OwnerIsThere
      BY DEF StrayInit, Init, Straight, CurrentExecutionIsAnchored, ErrorIsRecoverable,
             WorkersExecute, FailedIsQueued, OwnerIsThere, CurrentIs, CurrentRuns
  <2> QED BY <2>1, <2>2, <2>3 DEF HistoryInv
<1>2. HistoryInv => ExecutionIsAccounted
  <2> SUFFICES ASSUME HistoryInv PROVE ExecutionIsAccounted
      OBVIOUS
  <2>1. AnchoredUnlessStrayed /\ RecoverableUnlessStrayed
      BY DEF HistoryInv, Straight, AnchoredUnlessStrayed, RecoverableUnlessStrayed
  <2>2. OwnedByItsLease
    <3> SUFFICES ASSUME ~strayed, Settled, CurrentRuns PROVE RunningTurnHasWorker
        BY DEF OwnedByItsLease, Settled, RunningTurnHasWorker
    <3> DEFINE o == starts[cur].owner
    <3>1. /\ o \in LeaseIds /\ leases[o].sent = cur /\ cur # 0
          /\ leases[o].state \in {"live", "draining"} \/ QueuedFailure(o)
        BY DEF HistoryInv, OwnerIsThere, CurrentRuns, CurrentIs
    <3>2. leases[o].start = cur
        BY <3>1 DEF Settled
    <3> QED BY <3>1, <3>2 DEF RunningTurnHasWorker, QueuedFailure
  <2> QED BY <2>1, <2>2 DEF ExecutionIsAccounted
<1> QED BY <1>1, <1>2, HistoryStep, PTL DEF StraySpec
=============================================================================
