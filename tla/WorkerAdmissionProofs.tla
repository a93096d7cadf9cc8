----------------------- MODULE WorkerAdmissionProofs -----------------------
(* Theorems about WorkerAdmission for every set of processes and limit. *)
EXTENDS WorkerAdmissionHistory, FiniteSetTheorems, TLAPS

USE ProcsAssumption, LimitAssumption, BudgetAssumption

\* A suspended effect is the head of its tail.
SuspendedHasEffect == \A p \in Procs : pc[p] # "ready" => tail[p] # <<>>

\* Dropping one element of a sequence leaves a sequence of the same elements.
LEMMA DropType ==
    ASSUME NEW S, NEW q \in Seq(S), NEW i \in 1..Len(q)
    PROVE  /\ Drop(q, i) \in Seq(S)
           /\ Len(Drop(q, i)) = Len(q) - 1
           /\ \A j \in 1..(Len(q) - 1) :
                 Drop(q, i)[j] = IF j < i THEN q[j] ELSE q[j + 1]
  BY DEF Drop

\* The Map operations keep the queue a sequence of entries.
LEMMA MapType ==
    ASSUME TypeOK, NEW p \in Procs, NEW s \in Starts
    PROVE  MapDelete(p) \in Seq(Entry) /\ MapSet(p, s) \in Seq(Entry)
<1>1. MapDelete(p) \in Seq(Entry)
  <2>1. CASE Queued(p)
    <3>1. (CHOOSE i \in 1..Len(waiting) : waiting[i].p = p) \in 1..Len(waiting)
      BY <2>1 DEF Queued
    <3> QED BY <2>1, <3>1, DropType DEF MapDelete, TypeOK
  <2>2. CASE ~Queued(p)
    BY <2>2 DEF MapDelete, TypeOK
  <2> QED BY <2>1, <2>2
<1>2. MapSet(p, s) \in Seq(Entry)
  <2> DEFINE e == [p |-> p, s |-> s]
  <2>1. e \in Entry
    BY DEF Entry
  <2>2. waiting \in Seq(Entry)
    BY DEF TypeOK
  <2> HIDE DEF e
  <2>3. [i \in 1..Len(waiting) |-> IF waiting[i].p = p THEN e ELSE waiting[i]] \in Seq(Entry)
    BY <2>1, <2>2
  <2>4. Append(waiting, e) \in Seq(Entry)
    BY <2>1, <2>2
  <2> QED BY <2>3, <2>4 DEF MapSet, e
<1> QED BY <1>1, <1>2

\* The initial state is well typed.
LEMMA TypeInit == Init => TypeOK
<1> SUFFICES ASSUME Init PROVE TypeOK
  OBVIOUS
<1> USE DEF Init, Starts
<1>1. live \in [Procs -> BOOLEAN] /\ {scheduled, sweeping, stopped} \subseteq BOOLEAN
  BY Zenon
<1>2. /\ undelivered \in [Procs -> Seq(EffectKinds)]
      /\ tail \in [Procs -> Seq(EffectKinds)]
      /\ waiting \in Seq(Entry)
  OBVIOUS
<1>3. cur \in [Procs -> Starts] /\ made \in [Procs -> Starts]
  OBVIOUS
<1>4. pc \in [Procs -> {"ready", "cancelling", "stopping", "exited", "spawning"}]
  OBVIOUS
<1>5. bound \in [Procs -> Starts] /\ served \in [Procs -> Starts]
  OBVIOUS
<1>6. /\ closed \in SUBSET Procs /\ starting \in SUBSET Procs /\ workers \in SUBSET Procs
      /\ greeted \in SUBSET Procs /\ accepted \in SUBSET Procs /\ draining \in SUBSET Procs
      /\ reports \in SUBSET Entry
  OBVIOUS
<1> QED BY <1>1, <1>2, <1>3, <1>4, <1>5, <1>6, Zenon DEF TypeOK

\* An allocation reserves a slot for the process and opens a lease for it.
LEMMA LaunchType ==
    ASSUME TypeOK, NEW p \in Procs, Launch(p)
    PROVE  starting' \in SUBSET Procs /\ bound' \in [Procs -> Starts]
  BY DEF TypeOK, Launch

\* wake() leaves a Boolean.
LEMMA WakeType ==
    ASSUME TypeOK, NEW w, wake(w)
    PROVE  scheduled' \in BOOLEAN
  BY Zenon DEF TypeOK, wake

\* Finishing an effect pops it off its tail.
LEMMA PopType ==
    ASSUME TypeOK, NEW p \in Procs, Pop(p), tail[p] # <<>>
    PROVE  /\ tail' \in [Procs -> Seq(EffectKinds)]
           /\ pc' \in [Procs -> {"ready", "cancelling", "stopping", "exited", "spawning"}]
<1>1. Tail(tail[p]) \in Seq(EffectKinds)
  BY DEF TypeOK
<1> QED BY <1>1 DEF TypeOK, Pop

\* Asking the supervisor for a worker keeps the types it touches.
LEMMA SpawnType ==
    ASSUME TypeOK, NEW p \in Procs, tail[p] # <<>>, SpawnForEffect(p)
    PROVE  /\ tail' \in [Procs -> Seq(EffectKinds)]
           /\ pc' \in [Procs -> {"ready", "cancelling", "stopping", "exited", "spawning"}]
           /\ waiting' \in Seq(Entry)
           /\ starting' \in SUBSET Procs
           /\ scheduled' \in BOOLEAN
           /\ bound' \in [Procs -> Starts]
<1>0. cur[p] \in Starts
  BY DEF TypeOK
<1>1. CASE p \in workers \/ cur[p] = 0 \/ stopped
  BY <1>1, PopType DEF SpawnForEffect, TypeOK
<1>2. CASE ~(p \in workers \/ cur[p] = 0 \/ stopped) /\ p \in starting
  BY <1>2 DEF SpawnForEffect, TypeOK
<1>3. CASE /\ ~(p \in workers \/ cur[p] = 0 \/ stopped) /\ p \notin starting
           /\ AdmitsAtOnce
  BY <1>3, LaunchType DEF SpawnForEffect, TypeOK
<1>4. CASE /\ ~(p \in workers \/ cur[p] = 0 \/ stopped) /\ p \notin starting
           /\ ~AdmitsAtOnce
  <2>1. /\ waiting' = MapSet(p, cur[p]) /\ wake(waiting') /\ Pop(p)
        /\ starting' = starting /\ bound' = bound
    BY <1>4 DEF SpawnForEffect
  <2> QED BY <2>1, <1>0, MapType, WakeType, PopType DEF TypeOK
<1> QED BY <1>1, <1>2, <1>3, <1>4

\* A commit keeps the types of the durable facts and of the reactions.
LEMMA CommitType ==
    ASSUME TypeOK, NEW p \in Procs, NEW s \in Starts, NEW w \in BOOLEAN,
           NEW k \in EffectKinds, Commit(p, s, w, k)
    PROVE  /\ cur' \in [Procs -> Starts]
           /\ live' \in [Procs -> BOOLEAN]
           /\ accepted' \in SUBSET Procs
           /\ undelivered' \in [Procs -> Seq(EffectKinds)]
<1>1. live' \in [Procs -> BOOLEAN]
  BY Zenon DEF TypeOK, Commit
<1>2. Append(undelivered[p], k) \in Seq(EffectKinds)
  BY DEF TypeOK
<1> QED BY <1>1, <1>2 DEF TypeOK, Commit

\* A reaction reaches the tail in its turn or before it.
LEMMA AnyDelivery ==
    ASSUME TypeOK, NEW p \in Procs, Deliver(p) \/ Overtake(p)
    PROVE  \E i \in 1..Len(undelivered[p]) : DeliverNth(p, i)
<1>1. CASE Deliver(p)
  <2>1. 1 \in 1..Len(undelivered[p])
    BY <1>1 DEF Deliver, TypeOK
  <2> QED BY <1>1, <2>1 DEF Deliver
<1>2. CASE Overtake(p)
  BY <1>2 DEF Overtake, TypeOK
<1> QED BY <1>1, <1>2

\* Every step keeps the types.
LEMMA TypeStep == TypeOK /\ SuspendedHasEffect /\ [Next]_vars => TypeOK'
<1> SUFFICES ASSUME TypeOK, SuspendedHasEffect, [Next]_vars PROVE TypeOK'
  OBVIOUS
<1>1. ASSUME TimerFires PROVE TypeOK'
  BY <1>1 DEF TimerFires, durable, effects, units, TypeOK
<1>2. ASSUME SweepDropsStale PROVE TypeOK'
  BY <1>2 DEF SweepDropsStale, durable, effects, units, TypeOK
<1>3. ASSUME SweepLaunches PROVE TypeOK'
  <2>1. Head(waiting) \in Entry /\ waiting' \in Seq(Entry)
    BY <1>3 DEF SweepLaunches, TypeOK
  <2>2. starting' \in SUBSET Procs /\ bound' \in [Procs -> Starts]
    BY <1>3, <2>1, LaunchType DEF SweepLaunches, Entry
  <2> QED BY <1>3, <2>1, <2>2 DEF SweepLaunches, durable, effects, unitsButBound, TypeOK
<1>4. ASSUME SweepEnds PROVE TypeOK'
  BY <1>4 DEF SweepEnds, durable, effects, units, TypeOK
<1>5. ASSUME NEW p \in Procs, BeginEffect(p) PROVE TypeOK'
  <2> USE <1>5
  <2>1. /\ tail' \in [Procs -> Seq(EffectKinds)]
        /\ pc' \in [Procs -> {"ready", "cancelling", "stopping", "exited", "spawning"}]
        /\ waiting' \in Seq(Entry)
        /\ starting' \in SUBSET Procs
        /\ scheduled' \in BOOLEAN
        /\ bound' \in [Procs -> Starts]
    <3>0. tail[p] # <<>>
      BY DEF BeginEffect
    <3>1. CASE Head(tail[p]) = "stop" \/ p \in workers
      <4>1. /\ waiting' = MapDelete(p) /\ wake(waiting')
            /\ pc' = [pc EXCEPT ![p] = "cancelling"]
            /\ tail' = tail /\ starting' = starting /\ bound' = bound
        BY <3>1 DEF BeginEffect
      <4>2. waiting' \in Seq(Entry)
        BY <4>1, MapType DEF Starts
      <4> QED BY <4>1, <4>2, WakeType DEF TypeOK
    <3>2. CASE Head(tail[p]) = "leave" /\ p \notin workers
      BY <3>0, <3>2, PopType DEF BeginEffect, TypeOK
    <3>3. CASE Head(tail[p]) = "enter" /\ p \notin workers
      BY <3>0, <3>3, SpawnType DEF BeginEffect
    <3> QED BY <3>1, <3>2, <3>3 DEF BeginEffect
  <2> QED BY <2>1 DEF BeginEffect, durable, unitsButBound, TypeOK
<1>6. ASSUME NEW p \in Procs, StopRegistered(p) PROVE TypeOK'
  BY <1>6 DEF StopRegistered, durable, queue, TypeOK
<1>7. ASSUME NEW p \in Procs, EffectContinues(p) PROVE TypeOK'
  <2>0. tail[p] # <<>>
    BY <1>7 DEF EffectContinues, SuspendedHasEffect
  <2>1. CASE Head(tail[p]) = "enter"
    BY <1>7, <2>0, <2>1, SpawnType DEF EffectContinues, durable, unitsButBound, TypeOK
  <2>2. CASE Head(tail[p]) # "enter"
    BY <1>7, <2>0, <2>2, PopType DEF EffectContinues, durable, unitsButBound, TypeOK
  <2> QED BY <2>1, <2>2
<1>8. ASSUME NEW p \in Procs, CommitStart(p) PROVE TypeOK'
  <2>1. /\ made[p] + 1 \in Starts /\ "enter" \in EffectKinds
        /\ made' \in [Procs -> Starts]
    BY <1>8 DEF CommitStart, TypeOK, Starts, EffectKinds
  <2> QED BY <1>8, <2>1, CommitType DEF CommitStart, queue, units, TypeOK
<1>9. ASSUME NEW p \in Procs, CommitLeave(p) PROVE TypeOK'
  <2>1. PICK kept \in {0, cur[p]} : Commit(p, kept, FALSE, "leave")
    BY <1>9 DEF CommitLeave
  <2>2. kept \in Starts /\ "leave" \in EffectKinds
    BY DEF TypeOK, Starts, EffectKinds
  <2> QED BY <1>9, <2>1, <2>2, CommitType DEF CommitLeave, queue, units, TypeOK
<1>10. ASSUME NEW p \in Procs, CommitAbort(p) PROVE TypeOK'
  <2>1. 0 \in Starts /\ "leave" \in EffectKinds
    BY DEF Starts, EffectKinds
  <2> QED BY <1>10, <2>1, CommitType DEF CommitAbort, queue, units, TypeOK
<1>11. ASSUME NEW p \in Procs, CommitInterrupt(p) PROVE TypeOK'
  <2>1. 0 \in Starts /\ "stop" \in EffectKinds
    BY DEF Starts, EffectKinds
  <2> QED BY <1>11, <2>1, CommitType DEF CommitInterrupt, queue, units, TypeOK
<1>12. ASSUME NEW e \in reports, CommitFailure(e) PROVE TypeOK'
  <2>1. e.p \in Procs /\ cur[e.p] \in Starts /\ "stop" \in EffectKinds
    BY DEF TypeOK, Entry, EffectKinds
  <2>2. CASE isCurrent(e)
    BY <1>12, <2>1, <2>2, CommitType DEF CommitFailure, queue, TypeOK
  <2>3. CASE ~isCurrent(e)
    BY <1>12, <2>3 DEF CommitFailure, queue, TypeOK
  <2> QED BY <2>2, <2>3
<1>13. ASSUME NEW p \in Procs, Deliver(p) \/ Overtake(p) PROVE TypeOK'
  <2>1. PICK i \in 1..Len(undelivered[p]) : DeliverNth(p, i)
    BY <1>13, AnyDelivery
  <2>2. undelivered[p] \in Seq(EffectKinds) /\ tail[p] \in Seq(EffectKinds)
    BY DEF TypeOK
  <2>3. Drop(undelivered[p], i) \in Seq(EffectKinds)
    BY <2>2, DropType
  <2>4. Append(tail[p], undelivered[p][i]) \in Seq(EffectKinds)
    BY <2>2
  <2> QED BY <2>1, <2>3, <2>4 DEF DeliverNth, durable, queue, units, TypeOK
<1>14. ASSUME NEW p \in Procs, Settle(p)
       PROVE  /\ starting' \in SUBSET Procs /\ scheduled' \in BOOLEAN
              /\ tail' \in [Procs -> Seq(EffectKinds)]
              /\ pc' \in [Procs -> {"ready", "cancelling", "stopping", "exited", "spawning"}]
  <2>1. starting' \in SUBSET Procs /\ scheduled' \in BOOLEAN
    BY <1>14, WakeType DEF Settle, TypeOK
  <2>2. CASE pc[p] = "spawning"
    BY <1>14, <2>1, <2>2, PopType DEF Settle, SuspendedHasEffect
  <2>3. CASE pc[p] # "spawning"
    BY <1>14, <2>1, <2>3 DEF Settle, TypeOK
  <2> QED BY <2>2, <2>3
<1>15. ASSUME NEW p \in Procs, Register(p) PROVE TypeOK'
  BY <1>14, <1>15 DEF Register, durable, TypeOK
<1>16. ASSUME NEW p \in Procs, reports' = Report(p) PROVE reports' \in SUBSET Entry
  BY <1>16 DEF Report, Entry, TypeOK
<1>17. ASSUME NEW p \in Procs, AllocationFails(p) PROVE TypeOK'
  BY <1>14, <1>16, <1>17 DEF AllocationFails, durable, TypeOK
<1>18. ASSUME NEW p \in Procs, Hello(p) PROVE TypeOK'
  <2>1. (IF live[p] THEN cur[p] ELSE 0) \in Starts
    BY DEF TypeOK, Starts
  <2> QED BY <1>18, <2>1 DEF Hello, durable, effects, queue, TypeOK
<1>19. ASSUME NEW p \in Procs, AcceptStart(p) PROVE TypeOK'
  BY <1>19 DEF AcceptStart, effects, queue, units, TypeOK
<1>20. ASSUME NEW p \in Procs, Exit(p) PROVE TypeOK'
  <2>1. reports' \in SUBSET Entry
    BY <1>16, <1>20 DEF Exit, TypeOK
  <2>2. scheduled' \in BOOLEAN
    BY <1>20, WakeType DEF Exit
  <2>3. 0 \in Starts
    BY DEF Starts
  <2> QED BY <1>20, <2>1, <2>2, <2>3 DEF Exit, durable, TypeOK
<1>21. ASSUME NEW p \in Procs, InputSpawns(p) PROVE TypeOK'
  <2>1. CASE AdmitsAtOnce
    BY <1>21, <2>1, LaunchType DEF InputSpawns, durable, effects, unitsButBound, TypeOK
  <2>2. CASE ~AdmitsAtOnce
    <3>1. waiting' = MapSet(p, cur[p]) /\ wake(waiting') /\ UNCHANGED <<starting, bound>>
      BY <1>21, <2>2 DEF InputSpawns
    <3>2. waiting' \in Seq(Entry) /\ scheduled' \in BOOLEAN
      BY <3>1, MapType, WakeType DEF TypeOK
    <3> QED BY <1>21, <3>1, <3>2 DEF InputSpawns, durable, effects, unitsButBound, TypeOK
  <2> QED BY <2>1, <2>2
<1>22. ASSUME Shutdown PROVE TypeOK'
  <2>1. <<>> \in Seq(Entry)
    OBVIOUS
  <2> QED BY <1>22, <2>1 DEF Shutdown, durable, effects, units, TypeOK
<1>23. ASSUME NEW p \in Procs, SpawnRefused(p) PROVE TypeOK'
  BY <1>23, PopType DEF SpawnRefused, durable, queue, units, TypeOK
<1>24. ASSUME NEW p \in Procs, StopFails(p) PROVE TypeOK'
  BY <1>24, PopType DEF StopFails, durable, queue, units, TypeOK, SuspendedHasEffect
<1>25. ASSUME NEW p \in Procs, SpawnThrows(p) PROVE TypeOK'
  BY <1>14, <1>25 DEF SpawnThrows, durable, units, TypeOK
<1>26. CASE UNCHANGED vars
  BY <1>26 DEF vars, durable, effects, queue, units, TypeOK
<1> QED BY <1>1, <1>2, <1>3, <1>4, <1>5, <1>6, <1>7, <1>8, <1>9, <1>10, <1>11, <1>12,
           <1>13, <1>15, <1>17, <1>18, <1>19, <1>20, <1>21, <1>22, <1>23, <1>24, <1>25, <1>26
        DEF Next, Usual, Unusual, Sweep, RunEffects, RunUnit

\* The suspended effect stays the head of its tail.
LEMMA SuspendedStep ==
    TypeOK /\ SuspendedHasEffect /\ [Next]_vars => SuspendedHasEffect'
<1> SUFFICES ASSUME TypeOK, SuspendedHasEffect, [Next]_vars,
                    NEW q \in Procs, pc'[q] # "ready"
             PROVE  tail'[q] # <<>>
  BY DEF SuspendedHasEffect
<1>0. /\ pc \in [Procs -> {"ready", "cancelling", "stopping", "exited", "spawning"}]
      /\ tail \in [Procs -> Seq(EffectKinds)]
      /\ pc[q] # "ready" => tail[q] # <<>>
  BY DEF TypeOK, SuspendedHasEffect
<1>1. CASE UNCHANGED <<pc, tail>>
  BY <1>0, <1>1
<1>2. ASSUME NEW p \in Procs, Pop(p) PROVE tail'[q] # <<>>
  BY <1>0, <1>2 DEF Pop
<1>3. ASSUME NEW p \in Procs, tail[p] # <<>>, SpawnForEffect(p) PROVE tail'[q] # <<>>
  BY <1>0, <1>2, <1>3 DEF SpawnForEffect
<1>4. ASSUME NEW p \in Procs, BeginEffect(p) PROVE tail'[q] # <<>>
  BY <1>0, <1>2, <1>3, <1>4 DEF BeginEffect
<1>5. ASSUME NEW p \in Procs, StopRegistered(p) PROVE tail'[q] # <<>>
  BY <1>0, <1>5 DEF StopRegistered
<1>6. ASSUME NEW p \in Procs, EffectContinues(p) PROVE tail'[q] # <<>>
  <2>1. tail[p] # <<>>
    BY <1>6 DEF EffectContinues, SuspendedHasEffect
  <2> QED BY <1>2, <1>3, <1>6, <2>1 DEF EffectContinues
<1>7. ASSUME NEW p \in Procs, Deliver(p) \/ Overtake(p) PROVE tail'[q] # <<>>
  <2>1. PICK i \in 1..Len(undelivered[p]) :
          tail' = [tail EXCEPT ![p] = Append(@, undelivered[p][i])]
    BY <1>7, AnyDelivery DEF DeliverNth
  <2>2. pc' = pc
    BY <1>7, AnyDelivery DEF DeliverNth
  <2>3. CASE p = q
    <3>1. tail'[q] = Append(tail[q], undelivered[p][i]) /\ tail[q] \in Seq(EffectKinds)
      BY <1>0, <2>1, <2>3
    <3>2. undelivered[p][i] \in EffectKinds
      BY DEF TypeOK
    <3> QED BY <3>1, <3>2
  <2>4. CASE p # q
    BY <1>0, <2>1, <2>2, <2>4
  <2> QED BY <2>3, <2>4
<1>8. ASSUME NEW p \in Procs, Settle(p) PROVE tail'[q] # <<>>
  BY <1>1, <1>2, <1>8 DEF Settle
<1>9. ASSUME NEW p \in Procs, Exit(p) PROVE tail'[q] # <<>>
  BY <1>0, <1>9 DEF Exit
<1>10. ASSUME NEW p \in Procs, SpawnRefused(p) \/ StopFails(p) PROVE tail'[q] # <<>>
  BY <1>2, <1>10 DEF SpawnRefused, StopFails
<1> QED
  BY <1>1, <1>4, <1>5, <1>6, <1>7, <1>8, <1>9, <1>10
  DEF Next, Usual, Unusual, Sweep, RunEffects, RunUnit, vars, effects,
      TimerFires, SweepDropsStale, SweepLaunches, SweepEnds,
      CommitStart, CommitLeave, CommitAbort, CommitInterrupt, CommitFailure,
      Register, AllocationFails, SpawnThrows, Hello, AcceptStart, InputSpawns, Shutdown

-----------------------------------------------------------------------------
(* Capacity *)

\* A new reservation fits when there is capacity.
LEMMA LaunchFits ==
    ASSUME TypeOK, NEW p \in Procs, hasCapacity, Launch(p), workers' = workers
    PROVE  CapacityRespected'
<1>1. IsFiniteSet(workers) /\ IsFiniteSet(starting)
  BY FS_Subset DEF TypeOK
<1>2. /\ Cardinality(workers \cup starting)
           = Cardinality(workers) + Cardinality(starting) - Cardinality(workers \cap starting)
      /\ IsFiniteSet(workers \cup starting)
  BY <1>1, FS_Union
<1>3. IsFiniteSet(workers \cap starting)
  BY <1>1, FS_Subset
<1>4. /\ Cardinality(workers) \in Nat /\ Cardinality(starting) \in Nat
      /\ Cardinality(workers \cap starting) \in Nat
  BY <1>1, <1>3, FS_CardinalityType
<1>5. Cardinality(workers \cup starting) + 1 <= Limit
  BY <1>2, <1>4 DEF hasCapacity
<1>6. workers' \cup starting' = (workers \cup starting) \cup {p}
  BY DEF Launch
<1>7. Cardinality((workers \cup starting) \cup {p}) \in
        {Cardinality(workers \cup starting), Cardinality(workers \cup starting) + 1}
  BY <1>2, FS_AddElement
<1>8. Cardinality(workers \cup starting) \in Nat
  BY <1>2, FS_CardinalityType
<1>9. \A c \in Nat : c + 1 <= Limit => c <= Limit
  OBVIOUS
<1>10. Cardinality(workers' \cup starting') <= Limit
  BY <1>5, <1>6, <1>7, <1>8, <1>9
<1> QED BY <1>10 DEF CapacityRespected

\* Steps that only remove places keep the limit.
LEMMA ShrinkFits ==
    ASSUME TypeOK, CapacityRespected,
           (workers \cup starting)' \subseteq workers \cup starting
    PROVE  CapacityRespected'
<1>1. IsFiniteSet(workers \cup starting)
  BY FS_Subset DEF TypeOK
<1>2. /\ IsFiniteSet((workers \cup starting)')
      /\ Cardinality((workers \cup starting)') <= Cardinality(workers \cup starting)
  BY <1>1, FS_Subset
<1>3. /\ Cardinality((workers \cup starting)') \in Nat
      /\ Cardinality(workers \cup starting) \in Nat
  BY <1>1, <1>2, FS_CardinalityType
<1> QED BY <1>2, <1>3 DEF CapacityRespected

\* Every step keeps the limit.
LEMMA CapacityStep ==
    TypeOK /\ CapacityRespected /\ [Next]_vars => CapacityRespected'
<1> SUFFICES ASSUME TypeOK, CapacityRespected, [Next]_vars PROVE CapacityRespected'
  OBVIOUS
<1>1. CASE UNCHANGED <<workers, starting>>
  BY <1>1 DEF CapacityRespected
<1>2. ASSUME SweepLaunches PROVE CapacityRespected'
  <2>1. Head(waiting) \in Entry
    BY <1>2 DEF SweepLaunches, TypeOK
  <2> QED BY <1>2, <2>1, LaunchFits DEF SweepLaunches, Entry, unitsButBound
<1>3. ASSUME NEW p \in Procs, SpawnForEffect(p), workers' = workers
      PROVE  CapacityRespected'
  BY <1>1, <1>3, LaunchFits DEF SpawnForEffect, AdmitsAtOnce
<1>4. ASSUME NEW p \in Procs, BeginEffect(p) PROVE CapacityRespected'
  BY <1>1, <1>3, <1>4 DEF BeginEffect, unitsButBound
<1>5. ASSUME NEW p \in Procs, EffectContinues(p) PROVE CapacityRespected'
  BY <1>1, <1>3, <1>5 DEF EffectContinues, unitsButBound
<1>6. ASSUME NEW p \in Procs, InputSpawns(p) PROVE CapacityRespected'
  BY <1>1, <1>6, LaunchFits DEF InputSpawns, AdmitsAtOnce, unitsButBound
<1>7. ASSUME NEW p \in Procs, Register(p) PROVE CapacityRespected'
  BY <1>7, ShrinkFits DEF Register, Settle
<1>8. ASSUME NEW p \in Procs, AllocationFails(p) \/ SpawnThrows(p) PROVE CapacityRespected'
  BY <1>8, ShrinkFits DEF AllocationFails, SpawnThrows, Settle, units
<1>9. ASSUME NEW p \in Procs, Exit(p) PROVE CapacityRespected'
  BY <1>9, ShrinkFits DEF Exit
<1> QED
  BY <1>1, <1>2, <1>4, <1>5, <1>6, <1>7, <1>8, <1>9
  DEF Next, Usual, Unusual, Sweep, RunEffects, RunUnit, vars, queue, units,
      TimerFires, SweepDropsStale, SweepEnds, StopRegistered, Deliver, Overtake, DeliverNth,
      SpawnRefused, StopFails, CommitStart, CommitLeave, CommitAbort, CommitInterrupt,
      CommitFailure, Hello, AcceptStart, Shutdown

-----------------------------------------------------------------------------
(* The queue *)

\* Map.delete removes one entry and adds none.
LEMMA DeleteKeepsPlaces ==
    ASSUME TypeOK, OnePlacePerProcess, NEW p \in Procs, waiting' = MapDelete(p),
           starting' = starting
    PROVE  OnePlacePerProcess'
<1>1. CASE ~Queued(p)
  BY <1>1 DEF MapDelete, OnePlacePerProcess
<1>2. CASE Queued(p)
  <2>1. PICK i \in 1..Len(waiting) : waiting' = Drop(waiting, i)
    BY <1>2 DEF MapDelete, Queued
  <2>2. /\ waiting \in Seq(Entry) /\ Len(waiting) \in Nat
        /\ Len(waiting') = Len(waiting) - 1
        /\ \A j \in 1..(Len(waiting) - 1) :
              waiting'[j] = IF j < i THEN waiting[j] ELSE waiting[j + 1]
    <3>1. waiting \in Seq(Entry) /\ Len(waiting) \in Nat
      BY DEF TypeOK
    <3>2. /\ Len(Drop(waiting, i)) = Len(waiting) - 1
          /\ \A j \in 1..(Len(waiting) - 1) :
                Drop(waiting, i)[j] = IF j < i THEN waiting[j] ELSE waiting[j + 1]
      BY <3>1, DropType
    <3> QED BY <2>1, <3>1, <3>2
  <2>3. ASSUME NEW j \in 1..Len(waiting'), NEW k \in 1..Len(waiting'),
               waiting'[j].p = waiting'[k].p
        PROVE  j = k
    <3> DEFINE a == IF j < i THEN j ELSE j + 1
               b == IF k < i THEN k ELSE k + 1
    <3>1. /\ a \in 1..Len(waiting) /\ waiting'[j] = waiting[a]
          /\ b \in 1..Len(waiting) /\ waiting'[k] = waiting[b]
      BY <2>2
    <3>2. a = b
      BY <2>3, <3>1 DEF OnePlacePerProcess
    <3> QED BY <3>2
  <2>4. ASSUME NEW j \in 1..Len(waiting') PROVE waiting'[j].p \notin starting
    <3> DEFINE a == IF j < i THEN j ELSE j + 1
    <3>1. a \in 1..Len(waiting) /\ waiting'[j] = waiting[a]
      BY <2>2
    <3> QED BY <3>1 DEF OnePlacePerProcess
  <2> QED BY <2>3, <2>4 DEF OnePlacePerProcess
<1> QED BY <1>1, <1>2

\* Map.set adds at most one entry, for a process that has none.
LEMMA SetKeepsPlaces ==
    ASSUME TypeOK, OnePlacePerProcess, NEW p \in Procs, NEW s \in Starts,
           p \notin starting, waiting' = MapSet(p, s), starting' = starting
    PROVE  OnePlacePerProcess'
<1> DEFINE e == [p |-> p, s |-> s]
<1>0. waiting \in Seq(Entry) /\ Len(waiting) \in Nat /\ e \in Entry /\ e.p = p
  BY DEF TypeOK, Entry
<1> HIDE DEF e
<1>1. CASE Queued(p)
  <2>1. waiting' = [i \in 1..Len(waiting) |-> IF waiting[i].p = p THEN e ELSE waiting[i]]
    BY <1>1 DEF MapSet, e
  <2>2. /\ Len(waiting') = Len(waiting)
        /\ \A i \in 1..Len(waiting) : waiting'[i].p = waiting[i].p
    BY <1>0, <2>1
  <2> QED BY <2>2 DEF OnePlacePerProcess
<1>2. CASE ~Queued(p)
  <2>1. waiting' = Append(waiting, e)
    BY <1>2 DEF MapSet, e
  <2>2. /\ Len(waiting') = Len(waiting) + 1
        /\ \A i \in 1..Len(waiting) : waiting'[i] = waiting[i] /\ waiting[i].p # p
        /\ waiting'[Len(waiting) + 1].p = p
    BY <1>0, <1>2, <2>1 DEF Queued
  <2>3. \A i \in 1..(Len(waiting) + 1) : i \in 1..Len(waiting) \/ i = Len(waiting) + 1
    BY <1>0
  <2> QED BY <2>2, <2>3 DEF OnePlacePerProcess
<1> QED BY <1>1, <1>2

\* Removing the head, launched or stale, keeps the places of the others.
LEMMA HeadKeepsPlaces ==
    ASSUME TypeOK, OnePlacePerProcess, waiting # <<>>, waiting' = Tail(waiting),
           starting' \subseteq starting \cup {Head(waiting).p}
    PROVE  OnePlacePerProcess'
<1>1. /\ Len(waiting) \in Nat \ {0} /\ Len(waiting') = Len(waiting) - 1
      /\ \A i \in 1..Len(waiting') : waiting'[i] = waiting[i + 1]
      /\ Head(waiting) = waiting[1]
  BY DEF TypeOK
<1>2. \A i \in 1..Len(waiting') : /\ i + 1 \in 1..Len(waiting)
                                  /\ waiting[i + 1].p # waiting[1].p
                                  /\ waiting[i + 1].p \notin starting
  BY <1>1 DEF OnePlacePerProcess
<1>3. \A i, j \in 1..Len(waiting') : waiting'[i].p = waiting'[j].p => i = j
  BY <1>1, <1>2 DEF OnePlacePerProcess
<1> QED BY <1>1, <1>2, <1>3 DEF OnePlacePerProcess

\* An effect that asks for a worker keeps the places.
LEMMA SpawnKeepsPlaces ==
    ASSUME TypeOK, OnePlacePerProcess, NEW p \in Procs, SpawnForEffect(p)
    PROVE  OnePlacePerProcess'
<1>1. CASE UNCHANGED <<waiting, starting>>
  BY <1>1 DEF OnePlacePerProcess
<1>2. CASE waiting = <<>> /\ UNCHANGED waiting
  BY <1>2 DEF OnePlacePerProcess
<1>3. CASE p \notin starting /\ waiting' = MapSet(p, cur[p]) /\ UNCHANGED starting
  BY <1>3, SetKeepsPlaces DEF TypeOK
<1> QED BY <1>1, <1>2, <1>3 DEF SpawnForEffect, AdmitsAtOnce

\* Every step keeps one place per process.
LEMMA PlacesStep ==
    TypeOK /\ OnePlacePerProcess /\ [Next]_vars => OnePlacePerProcess'
<1> SUFFICES ASSUME TypeOK, OnePlacePerProcess, [Next]_vars PROVE OnePlacePerProcess'
  OBVIOUS
<1>1. CASE UNCHANGED waiting /\ starting' \subseteq starting
  BY <1>1 DEF OnePlacePerProcess
<1>2. ASSUME SweepDropsStale \/ SweepLaunches PROVE OnePlacePerProcess'
  BY <1>2, HeadKeepsPlaces DEF SweepDropsStale, SweepLaunches, Launch
<1>3. ASSUME NEW p \in Procs, BeginEffect(p) PROVE OnePlacePerProcess'
  BY <1>1, <1>3, DeleteKeepsPlaces, SpawnKeepsPlaces DEF BeginEffect
<1>4. ASSUME NEW p \in Procs, EffectContinues(p) PROVE OnePlacePerProcess'
  BY <1>1, <1>4, SpawnKeepsPlaces DEF EffectContinues
<1>5. ASSUME NEW p \in Procs, InputSpawns(p) PROVE OnePlacePerProcess'
  <2>1. CASE waiting = <<>> /\ UNCHANGED waiting
    BY <2>1 DEF OnePlacePerProcess
  <2>2. CASE p \notin starting /\ waiting' = MapSet(p, cur[p]) /\ UNCHANGED starting
    BY <2>2, SetKeepsPlaces DEF TypeOK
  <2> QED BY <1>5, <2>1, <2>2 DEF InputSpawns, AdmitsAtOnce
<1>6. ASSUME Shutdown PROVE OnePlacePerProcess'
  BY <1>6 DEF Shutdown, OnePlacePerProcess
<1> QED
  BY <1>1, <1>2, <1>3, <1>4, <1>5, <1>6
  DEF Next, Usual, Unusual, Sweep, RunEffects, RunUnit, vars, queue, TimerFires, SweepEnds,
      StopRegistered, Deliver, Overtake, DeliverNth, SpawnRefused, StopFails, SpawnThrows,
      CommitStart, CommitLeave, CommitAbort, CommitInterrupt, CommitFailure, Register,
      AllocationFails, Settle, Hello, AcceptStart, Exit

\* Every step keeps the wakeup: whatever frees a slot or adds a request wakes the
\* queue, and the callback ends only at a head that no slot is left for.
LEMMA WakeupStep ==
    TypeOK /\ OnePlacePerProcess /\ NoLostWakeup /\ [Next]_vars => NoLostWakeup'
<1> SUFFICES ASSUME TypeOK, OnePlacePerProcess, NoLostWakeup, [Next]_vars
             PROVE  NoLostWakeup'
  OBVIOUS
<1>1. CASE UNCHANGED <<waiting, starting, scheduled, sweeping, stopped, workers>>
  BY <1>1 DEF NoLostWakeup, hasCapacity
<1>2. CASE wake(waiting') /\ stopped' = stopped
  BY <1>2 DEF wake, NoLostWakeup
<1>3. CASE waiting' = <<>> \/ sweeping'
  BY <1>3 DEF NoLostWakeup
<1>4. ASSUME SweepEnds PROVE NoLostWakeup'
  <2>1. waiting # <<>> => Head(waiting) = waiting[1] /\ 1 \in 1..Len(waiting)
    BY DEF TypeOK
  <2>2. waiting # <<>> => ~hasCapacity
    BY <1>4, <2>1 DEF SweepEnds, OnePlacePerProcess
  <2> QED BY <1>4, <2>2 DEF SweepEnds, NoLostWakeup, hasCapacity, units
<1>5. ASSUME NEW p \in Procs, SpawnForEffect(p), UNCHANGED <<sweeping, stopped, workers>>
      PROVE  NoLostWakeup'
  BY <1>1, <1>2, <1>3, <1>5 DEF SpawnForEffect, AdmitsAtOnce
<1>6. ASSUME NEW p \in Procs, BeginEffect(p) PROVE NoLostWakeup'
  BY <1>1, <1>2, <1>5, <1>6 DEF BeginEffect, unitsButBound
<1>7. ASSUME NEW p \in Procs, EffectContinues(p) PROVE NoLostWakeup'
  BY <1>1, <1>5, <1>7 DEF EffectContinues, unitsButBound
<1>8. ASSUME NEW p \in Procs, InputSpawns(p) PROVE NoLostWakeup'
  BY <1>2, <1>3, <1>8 DEF InputSpawns, AdmitsAtOnce
<1>9. ASSUME NEW p \in Procs, Register(p) \/ AllocationFails(p) \/ SpawnThrows(p) \/ Exit(p)
      PROVE  NoLostWakeup'
  BY <1>2, <1>9 DEF Register, AllocationFails, SpawnThrows, Settle, Exit
<1>10. ASSUME TimerFires \/ SweepDropsStale \/ SweepLaunches \/ Shutdown PROVE NoLostWakeup'
  BY <1>3, <1>10 DEF TimerFires, SweepDropsStale, SweepLaunches, Shutdown
<1> QED
  BY <1>1, <1>4, <1>6, <1>7, <1>8, <1>9, <1>10
  DEF Next, Usual, Unusual, Sweep, RunEffects, RunUnit, vars, queue, units, StopRegistered,
      Deliver, Overtake, DeliverNth, SpawnRefused, StopFails,
      CommitStart, CommitLeave, CommitAbort, CommitInterrupt, CommitFailure, Hello, AcceptStart

-----------------------------------------------------------------------------
(* Theorems *)

\* The inductive invariant: types, the head of a suspended tail, the limit, the
\* places and the wakeup.
IInv ==
    /\ TypeOK
    /\ SuspendedHasEffect
    /\ CapacityRespected
    /\ OnePlacePerProcess
    /\ NoLostWakeup

\* The invariant holds in every reachable state.
LEMMA Invariance == Spec => []IInv
<1>1. Init => IInv
  <2> SUFFICES ASSUME Init PROVE IInv
    OBVIOUS
  <2>1. SuspendedHasEffect /\ OnePlacePerProcess /\ NoLostWakeup
    BY DEF Init, SuspendedHasEffect, OnePlacePerProcess, NoLostWakeup
  <2>2. Cardinality({}) = 0 /\ workers \cup starting = {}
    BY FS_EmptySet DEF Init
  <2>3. CapacityRespected
    BY <2>2 DEF CapacityRespected
  <2> QED BY TypeInit, <2>1, <2>3 DEF IInv
<1>2. IInv /\ [Next]_vars => IInv'
  BY TypeStep, SuspendedStep, CapacityStep, PlacesStep, WakeupStep DEF IInv
<1> QED BY <1>1, <1>2, PTL DEF Spec

\* Type correctness of the queue, the tails and the physical workers.
THEOREM TypeTheorem == Spec => []TypeOK
<1>1. IInv => TypeOK
  BY DEF IInv
<1> QED BY <1>1, Invariance, PTL

\* The configured limit holds in every reachable state: registered workers and
\* allocations in flight never exceed max_parallel_processes.
THEOREM CapacityTheorem == Spec => []CapacityRespected
<1>1. IInv => CapacityRespected
  BY DEF IInv
<1> QED BY <1>1, Invariance, PTL

\* A process never holds two places of the queue, nor one beside its allocation.
THEOREM PlacesTheorem == Spec => []OnePlacePerProcess
<1>1. IInv => OnePlacePerProcess
  BY DEF IInv
<1> QED BY <1>1, Invariance, PTL

\* No wakeup is lost: a waiting request with a free slot finds the timer armed.
THEOREM WakeupTheorem == Spec => []NoLostWakeup
<1>1. IInv => NoLostWakeup
  BY DEF IInv
<1> QED BY <1>1, Invariance, PTL

\* First come, first served: a reservation is made either when nobody waits or
\* for the head of the queue.
THEOREM FifoTheorem == Spec => NoOvertaking
<1> DEFINE Fifo == \A p \in Procs : p \in starting' /\ p \notin starting =>
             \A i \in 1..Len(waiting) :
                isCurrent(waiting[i]) /\ waiting[i].p \notin starting' =>
                   \E j \in 1..Len(waiting) : j < i /\ waiting[j].p = p
<1>1. ASSUME IInv, Next PROVE Fifo
  <2>1. ASSUME starting' \subseteq starting PROVE Fifo
    BY <2>1
  <2>2. ASSUME waiting = <<>> PROVE Fifo
    <3>1. 1..Len(waiting) = {}
      BY <2>2
    <3> QED BY <3>1
  <2>3. CASE SweepLaunches
    <3>1. /\ Len(waiting) \in Nat \ {0} /\ Head(waiting) = waiting[1]
          /\ starting' = starting \cup {waiting[1].p}
      BY <1>1, <2>3 DEF SweepLaunches, Launch, IInv, TypeOK
    <3>2. ASSUME NEW p \in Procs, p \in starting', p \notin starting,
                 NEW i \in 1..Len(waiting), waiting[i].p \notin starting'
          PROVE  \E j \in 1..Len(waiting) : j < i /\ waiting[j].p = p
      <4>1. p = waiting[1].p /\ i # 1
        BY <3>1, <3>2
      <4> QED BY <3>1, <4>1
    <3> QED BY <3>2
  <2>4. ASSUME NEW p \in Procs, SpawnForEffect(p) PROVE Fifo
    BY <2>1, <2>2, <2>4 DEF SpawnForEffect, AdmitsAtOnce
  <2>5. ASSUME NEW p \in Procs, BeginEffect(p) \/ EffectContinues(p) \/ InputSpawns(p) PROVE Fifo
    BY <2>1, <2>2, <2>4, <2>5 DEF BeginEffect, EffectContinues, InputSpawns, AdmitsAtOnce
  <2> QED
    BY <1>1, <2>1, <2>3, <2>5
    DEF Next, Usual, Unusual, Sweep, RunEffects, RunUnit, queue, TimerFires, SweepDropsStale,
        SweepEnds, StopRegistered, Deliver, Overtake, DeliverNth, SpawnRefused, StopFails,
        SpawnThrows, CommitStart, CommitLeave, CommitAbort, CommitInterrupt, CommitFailure,
        Register, AllocationFails, Settle, Hello, AcceptStart, Exit, Shutdown
<1>2. IInv /\ [Next]_vars => [Fifo]_vars
  BY <1>1
<1> QED BY <1>2, Invariance, PTL DEF Spec, NoOvertaking

-----------------------------------------------------------------------------
(* Reactions *)

\* There is a reaction behind the one at the head of the tail.
More(p) == undelivered[p] # <<>> \/ Len(tail[p]) >= 2
\* The newest reaction asks for a worker.
EnterIsLast(p) ==
    /\ undelivered[p] # <<>> => undelivered[p][Len(undelivered[p])] = "enter"
    /\ undelivered[p] = <<>> /\ tail[p] # <<>> => tail[p][Len(tail[p])] = "enter"

\* The reactions of a process are sequences of effects.
LEMMA ReactionTypes ==
    ASSUME TypeOK, NEW p \in Procs
    PROVE  /\ tail[p] \in Seq(EffectKinds) /\ undelivered[p] \in Seq(EffectKinds)
           /\ Len(tail[p]) \in Nat /\ Len(undelivered[p]) \in Nat
  BY DEF TypeOK

\* A finished effect leaves the others.
LEMMA PopFacts ==
    ASSUME TypeOK, NEW p \in Procs, Pop(p), tail[p] # <<>>, undelivered' = undelivered
    PROVE  /\ pc'[p] = "ready"
           /\ \A q \in Procs : q # p => tail'[q] = tail[q] /\ pc'[q] = pc[q]
           /\ Idle(p)' => ~More(p)
           /\ EnterIsLast(p) => EnterIsLast(p)'
<1>1. /\ tail[p] \in Seq(EffectKinds) /\ Len(tail[p]) \in Nat \ {0} /\ tail'[p] = Tail(tail[p])
      /\ pc'[p] = "ready" /\ \A q \in Procs : q # p => tail'[q] = tail[q] /\ pc'[q] = pc[q]
  BY DEF Pop, TypeOK
<1>2. /\ Len(tail'[p]) = Len(tail[p]) - 1 /\ Head(tail[p]) = tail[p][1]
      /\ \A i \in 1..(Len(tail[p]) - 1) : tail'[p][i] = tail[p][i + 1]
  BY <1>1
<1>3. Idle(p)' => ~More(p)
  <2>1. ASSUME Idle(p)' PROVE undelivered[p] = <<>> /\ Len(tail'[p]) = 0
    BY <2>1 DEF Idle
  <2>2. Len(tail[p]) \in Int /\ Len(tail'[p]) = Len(tail[p]) - 1
    BY <1>1, <1>2
  <2>3. Len(tail'[p]) = 0 => ~(Len(tail[p]) >= 2)
    BY <2>2
  <2> QED BY <2>1, <2>3 DEF More
<1>4. ASSUME EnterIsLast(p) PROVE EnterIsLast(p)'
  <2>1. ASSUME undelivered[p] = <<>>, tail'[p] # <<>> PROVE tail'[p][Len(tail'[p])] = "enter"
    <3>1. Len(tail[p]) >= 2
      BY <1>1, <1>2, <2>1
    <3>2. Len(tail'[p]) \in 1..(Len(tail[p]) - 1) /\ Len(tail'[p]) + 1 = Len(tail[p])
      BY <1>1, <1>2, <3>1
    <3> QED BY <1>2, <1>4, <2>1, <3>2 DEF EnterIsLast
  <2> QED BY <1>4, <2>1 DEF EnterIsLast
<1> QED BY <1>1, <1>3, <1>4

\* A commit adds a reaction.
LEMMA CommitFacts ==
    ASSUME TypeOK, NEW p \in Procs, NEW s, NEW w, NEW k \in EffectKinds, Commit(p, s, w, k),
           tail' = tail
    PROVE  /\ undelivered'[p] # <<>> /\ cur'[p] = s /\ live'[p] = w
           /\ \A q \in Procs : q # p => cur'[q] = cur[q] /\ live'[q] = live[q] /\ undelivered'[q] = undelivered[q]
           /\ k = "enter" => EnterIsLast(p)'
<1>1. /\ undelivered[p] \in Seq(EffectKinds) /\ undelivered'[p] = Append(undelivered[p], k)
      /\ cur'[p] = s /\ \A q \in Procs : q # p => cur'[q] = cur[q] /\ undelivered'[q] = undelivered[q]
  BY DEF Commit, TypeOK
<1>2. live'[p] = w /\ \A q \in Procs : q # p => live'[q] = live[q]
  BY Zenon DEF Commit, TypeOK
<1>3. /\ Len(undelivered[p]) \in Nat /\ Len(undelivered'[p]) = Len(undelivered[p]) + 1
      /\ undelivered'[p][Len(undelivered[p]) + 1] = k
      /\ \A i \in 1..Len(undelivered[p]) : i \in 1..Len(undelivered'[p]) /\ undelivered'[p][i] = undelivered[p][i]
      /\ undelivered'[p] # <<>>
  BY <1>1
<1>4. k = "enter" => EnterIsLast(p)'
  BY <1>3 DEF EnterIsLast
<1> QED BY <1>1, <1>2, <1>3, <1>4

\* Appending to a sequence.
LEMMA AppendFacts ==
    ASSUME NEW S, NEW t \in Seq(S), NEW k \in S
    PROVE  /\ Append(t, k) # <<>> /\ Len(Append(t, k)) = Len(t) + 1
           /\ Append(t, k)[Len(t) + 1] = k
           /\ \A j \in 1..Len(t) : j \in 1..Len(Append(t, k)) /\ Append(t, k)[j] = t[j]
           /\ t # <<>> => Len(Append(t, k)) >= 2 /\ Head(Append(t, k)) = Head(t)
<1>1. Len(t) \in Nat /\ Len(Append(t, k)) = Len(t) + 1 /\ Append(t, k)[Len(t) + 1] = k
  OBVIOUS
<1>2. \A j \in 1..Len(t) : j \in 1..Len(Append(t, k)) /\ Append(t, k)[j] = t[j]
  OBVIOUS
<1>3. Append(t, k) # <<>>
  BY <1>1
<1>4. t # <<>> => Len(Append(t, k)) >= 2 /\ Head(Append(t, k)) = Head(t)
  BY <1>1, <1>2
<1> QED BY <1>1, <1>2, <1>3, <1>4

\* A reaction that reaches the tail is behind the ones that are there.
LEMMA DeliverFacts ==
    ASSUME TypeOK, NEW p \in Procs, Deliver(p) \/ Overtake(p)
    PROVE  /\ tail'[p] # <<>> /\ (tail[p] # <<>> => Len(tail'[p]) >= 2 /\ Head(tail'[p]) = Head(tail[p]))
           /\ ~Idle(p) /\ ~Idle(p)'
           /\ \A q \in Procs : q # p => tail'[q] = tail[q] /\ undelivered'[q] = undelivered[q]
           /\ pc' = pc
           /\ EnterIsLast(p) => EnterIsLast(p)' \/ LeavesStopBehind(p)
<1> DEFINE u == undelivered[p]
<1>1. PICK i \in 1..Len(u) :
        /\ tail' = [tail EXCEPT ![p] = Append(@, u[i])]
        /\ undelivered' = [undelivered EXCEPT ![p] = Drop(@, i)]
        /\ Deliver(p) => i = 1
  <2>1. CASE Deliver(p)
    <3>1. 1 \in 1..Len(u)
      BY <2>1 DEF Deliver, TypeOK
    <3> QED BY <2>1, <3>1 DEF Deliver, DeliverNth
  <2>2. CASE ~Deliver(p)
    BY <2>2, AnyDelivery DEF DeliverNth
  <2> QED BY <2>1, <2>2
<1>2. /\ tail[p] \in Seq(EffectKinds) /\ u \in Seq(EffectKinds) /\ Len(u) \in Nat /\ Len(tail[p]) \in Nat
      /\ u[i] \in EffectKinds /\ u # <<>>
  BY <1>1 DEF TypeOK
<1>3. /\ tail'[p] = Append(tail[p], u[i]) /\ undelivered'[p] = Drop(u, i)
      /\ \A q \in Procs : q # p => tail'[q] = tail[q] /\ undelivered'[q] = undelivered[q]
  BY <1>1 DEF TypeOK
<1>4. /\ Drop(u, i) \in Seq(EffectKinds) /\ Len(Drop(u, i)) = Len(u) - 1
      /\ \A j \in 1..(Len(u) - 1) : Drop(u, i)[j] = IF j < i THEN u[j] ELSE u[j + 1]
  BY <1>1, <1>2, DropType
<1>5. /\ tail'[p] # <<>> /\ Len(tail'[p]) = Len(tail[p]) + 1 /\ tail'[p][Len(tail[p]) + 1] = u[i]
      /\ tail[p] # <<>> => Len(tail'[p]) >= 2 /\ Head(tail'[p]) = Head(tail[p])
      /\ \A j \in 1..Len(tail[p]) : j \in 1..Len(tail'[p]) /\ tail'[p][j] = tail[p][j]
  BY <1>2, <1>3, AppendFacts
<1> HIDE DEF u
<1>6. ~Idle(p) /\ ~Idle(p)'
  BY <1>2, <1>5 DEF Idle, u
<1>7. ASSUME EnterIsLast(p), ~LeavesStopBehind(p) PROVE EnterIsLast(p)'
  <2>1. CASE Deliver(p)
    <3>1. /\ Len(undelivered'[p]) = Len(u) - 1
          /\ \A j \in 1..(Len(u) - 1) : undelivered'[p][j] = u[j + 1]
      BY <1>1, <1>2, <1>3, <1>4, <2>1
    <3>2. u[Len(u)] = "enter"
      BY <1>2, <1>7 DEF EnterIsLast, u
    <3>3. CASE Len(u) = 1
      <4>1. undelivered'[p] = <<>> /\ tail'[p][Len(tail'[p])] = "enter"
        BY <1>1, <1>2, <1>3, <1>4, <1>5, <2>1, <3>1, <3>2, <3>3
      <4> QED BY <4>1 DEF EnterIsLast
    <3>4. CASE Len(u) # 1
      <4>1. /\ Len(u) - 1 \in 1..(Len(u) - 1) /\ (Len(u) - 1) + 1 = Len(u)
            /\ undelivered'[p] # <<>>
        BY <1>2, <1>3, <1>4, <3>1, <3>4
      <4>2. undelivered'[p][Len(undelivered'[p])] = "enter"
        BY <3>1, <3>2, <4>1
      <4> QED BY <4>1, <4>2 DEF EnterIsLast
    <3> QED BY <3>3, <3>4
  <2>2. CASE Overtake(p)
    <3>1. undelivered'[p][Len(undelivered'[p])] = "enter"
      BY <1>7, <2>2 DEF LeavesStopBehind
    <3>2. undelivered'[p] # <<>>
      <4>1. PICK j \in 2..Len(u) : DeliverNth(p, j)
        BY <2>2 DEF Overtake, u
      <4>2. j \in 1..Len(u) /\ undelivered'[p] = Drop(u, j)
        BY <1>2, <4>1 DEF DeliverNth, TypeOK, u
      <4>3. Len(Drop(u, j)) = Len(u) - 1
        BY <1>2, <4>2, DropType
      <4> QED BY <1>2, <4>1, <4>2, <4>3
    <3> QED BY <3>1, <3>2 DEF EnterIsLast
  <2> QED BY <2>1, <2>2
<1> QED BY <1>3, <1>5, <1>6, <1>7, AnyDelivery DEF DeliverNth

-----------------------------------------------------------------------------
(* Places and workers *)

InQueue(e) == \E i \in 1..Len(waiting) : waiting[i] = e

\* Map.delete: the process is gone from the queue, the others stay.
LEMMA DeleteFacts ==
    ASSUME TypeOK, OnePlacePerProcess, NEW p \in Procs, waiting' = MapDelete(p)
    PROVE  /\ ~Queued(p)' /\ \A q \in Procs : Queued(q)' => Queued(q)
           /\ \A e \in Entry : InQueue(e) /\ e.p # p => InQueue(e)'
<1>1. CASE ~Queued(p)
  BY <1>1 DEF MapDelete, Queued, InQueue
<1>2. CASE Queued(p)
  <2>1. PICK i \in 1..Len(waiting) : waiting' = Drop(waiting, i) /\ waiting[i].p = p
    BY <1>2 DEF MapDelete, Queued
  <2>2. waiting \in Seq(Entry) /\ Len(waiting) \in Nat
    BY DEF TypeOK
  <2>3. /\ Len(Drop(waiting, i)) = Len(waiting) - 1
        /\ \A j \in 1..(Len(waiting) - 1) :
              Drop(waiting, i)[j] = IF j < i THEN waiting[j] ELSE waiting[j + 1]
    BY <2>2, DropType
  <2>4. /\ Len(waiting') = Len(waiting) - 1
        /\ \A j \in 1..(Len(waiting) - 1) :
              waiting'[j] = IF j < i THEN waiting[j] ELSE waiting[j + 1]
    BY <2>1, <2>3
  <2>5. ASSUME NEW j \in 1..Len(waiting') PROVE \E k \in 1..Len(waiting) : k # i /\ waiting'[j] = waiting[k]
    <3> DEFINE k == IF j < i THEN j ELSE j + 1
    <3>1. k \in 1..Len(waiting) /\ k # i /\ waiting'[j] = waiting[k]
      BY <2>2, <2>4
    <3> QED BY <3>1
  <2>6. ASSUME NEW q \in Procs, Queued(q)' PROVE Queued(q) /\ q # p
    <3>1. PICK j \in 1..Len(waiting') : waiting'[j].p = q
      BY <2>6 DEF Queued
    <3>2. PICK k \in 1..Len(waiting) : k # i /\ waiting'[j] = waiting[k]
      BY <2>5
    <3> QED BY <2>1, <3>1, <3>2 DEF Queued, OnePlacePerProcess
  <2>7. ASSUME NEW e \in Entry, InQueue(e), e.p # p PROVE InQueue(e)'
    <3>1. PICK k \in 1..Len(waiting) : waiting[k] = e
      BY <2>7 DEF InQueue
    <3>2. k # i
      BY <2>1, <2>7, <3>1
    <3> DEFINE j == IF k < i THEN k ELSE k - 1
    <3>3. j \in 1..Len(waiting') /\ waiting'[j] = waiting[k]
      BY <2>2, <2>4, <3>2
    <3> QED BY <3>1, <3>3 DEF InQueue
  <2> QED BY <2>6, <2>7
<1> QED BY <1>1, <1>2

\* Map.set: the process has the new entry, the others stay.
LEMMA SetFacts ==
    ASSUME TypeOK, NEW p \in Procs, NEW s \in Starts, waiting' = MapSet(p, s)
    PROVE  /\ InQueue([p |-> p, s |-> s])' /\ \A q \in Procs : Queued(q)' => Queued(q) \/ q = p
           /\ \A e \in Entry : InQueue(e) /\ e.p # p => InQueue(e)'
<1> DEFINE f == [p |-> p, s |-> s]
<1>0. waiting \in Seq(Entry) /\ Len(waiting) \in Nat /\ f \in Entry /\ f.p = p
  BY DEF TypeOK, Entry
<1> HIDE DEF f
<1>1. CASE Queued(p)
  <2>1. waiting' = [i \in 1..Len(waiting) |-> IF waiting[i].p = p THEN f ELSE waiting[i]]
    BY <1>1 DEF MapSet, f
  <2>2. /\ Len(waiting') = Len(waiting)
        /\ \A i \in 1..Len(waiting) : waiting'[i] = IF waiting[i].p = p THEN f ELSE waiting[i]
    BY <1>0, <2>1
  <2>3. InQueue(f)'
    BY <1>1, <2>2 DEF Queued, InQueue
  <2>4. \A q \in Procs : Queued(q)' => Queued(q) \/ q = p
    BY <1>0, <2>2 DEF Queued
  <2>5. \A e \in Entry : InQueue(e) /\ e.p # p => InQueue(e)'
    BY <2>2 DEF InQueue
  <2> QED BY <2>3, <2>4, <2>5 DEF f
<1>2. CASE ~Queued(p)
  <2>1. waiting' = Append(waiting, f)
    BY <1>2 DEF MapSet, f
  <2>2. /\ Len(waiting') = Len(waiting) + 1 /\ Len(waiting) + 1 \in 1..Len(waiting')
        /\ \A i \in 1..Len(waiting) : i \in 1..Len(waiting') /\ waiting'[i] = waiting[i]
        /\ waiting'[Len(waiting) + 1] = f
    BY <1>0, <2>1
  <2>3. \A i \in 1..(Len(waiting) + 1) : i \in 1..Len(waiting) \/ i = Len(waiting) + 1
    BY <1>0
  <2>4. InQueue(f)'
    BY <2>2 DEF InQueue
  <2>5. \A q \in Procs : Queued(q)' => Queued(q) \/ q = p
    BY <1>0, <2>2, <2>3 DEF Queued
  <2>6. \A e \in Entry : InQueue(e) /\ e.p # p => InQueue(e)'
    BY <2>2 DEF InQueue
  <2> QED BY <2>4, <2>5, <2>6 DEF f
<1> QED BY <1>1, <1>2

\* The head leaves the queue.
LEMMA HeadFacts ==
    ASSUME TypeOK, OnePlacePerProcess, waiting # <<>>, waiting' = Tail(waiting)
    PROVE  /\ Head(waiting) \in Entry /\ Head(waiting).p \in Procs /\ Queued(Head(waiting).p)
           /\ \A q \in Procs : Queued(q)' => Queued(q) /\ q # Head(waiting).p
           /\ \A e \in Entry : InQueue(e) /\ e # Head(waiting) => InQueue(e)'
<1>1. /\ waiting \in Seq(Entry) /\ Len(waiting) \in Nat \ {0} /\ Len(waiting') = Len(waiting) - 1
      /\ \A i \in 1..Len(waiting') : waiting'[i] = waiting[i + 1] /\ i + 1 \in 1..Len(waiting)
      /\ Head(waiting) = waiting[1] /\ 1 \in 1..Len(waiting)
  BY DEF TypeOK
<1>2. waiting[1] \in Entry
  BY <1>1
<1>3. waiting[1].p \in Procs /\ Queued(waiting[1].p)
  BY <1>1, <1>2 DEF Entry, Queued
<1>4. \A q \in Procs : Queued(q)' => Queued(q)
  BY <1>1 DEF Queued
<1>5. ASSUME NEW q \in Procs, Queued(q)' PROVE q # waiting[1].p
  <2>1. PICK i \in 1..Len(waiting') : waiting'[i].p = q
    BY <1>5 DEF Queued
  <2>2. i + 1 \in 1..Len(waiting) /\ i + 1 # 1 /\ waiting'[i] = waiting[i + 1]
    BY <1>1
  <2> QED BY <1>1, <2>1, <2>2 DEF OnePlacePerProcess
<1>6. ASSUME NEW e \in Entry, InQueue(e), e # waiting[1] PROVE InQueue(e)'
  <2>1. PICK i \in 1..Len(waiting) : waiting[i] = e
    BY <1>6 DEF InQueue
  <2>2. i # 1 /\ i - 1 \in 1..Len(waiting') /\ (i - 1) + 1 = i
    BY <1>1, <1>6, <2>1
  <2>3. waiting'[i - 1] = e
    BY <1>1, <2>1, <2>2
  <2> QED BY <2>2, <2>3 DEF InQueue
<1> QED BY <1>1, <1>2, <1>3, <1>4, <1>5, <1>6

\* A registered worker has no allocation and no place; who greeted, or is asked to
\* stop, is registered.
Apart ==
    /\ \A p \in workers : p \notin starting /\ ~Queued(p)
    /\ greeted \subseteq workers /\ draining \subseteq workers

LEMMA ApartStep == IInv /\ Apart /\ [Next]_vars => Apart'
<1> SUFFICES ASSUME IInv, Apart, [Next]_vars PROVE Apart'
  OBVIOUS
<1>0. TypeOK /\ OnePlacePerProcess /\ SuspendedHasEffect /\ workers \subseteq Procs
  BY DEF IInv, TypeOK
<1>1. ASSUME UNCHANGED <<workers, greeted, draining>>, starting' \subseteq starting,
             \A q \in Procs : Queued(q)' => Queued(q)
      PROVE  Apart'
  BY <1>0, <1>1 DEF Apart
<1>2. ASSUME UNCHANGED <<workers, greeted, draining>>, NEW p \in Procs, p \notin workers,
             starting' \subseteq starting \cup {p}, \A q \in Procs : Queued(q)' => Queued(q) \/ q = p
      PROVE  Apart'
  BY <1>0, <1>2 DEF Apart
<1>3. CASE UNCHANGED <<workers, greeted, draining, starting, waiting>>
  BY <1>1, <1>3 DEF Queued
<1>4. CASE SweepDropsStale
  BY <1>0, <1>1, <1>4, HeadFacts DEF SweepDropsStale, units
<1>5. CASE SweepLaunches
  <2>1. Head(waiting).p \in Procs /\ Head(waiting).p \notin workers
    BY <1>0, <1>5, HeadFacts DEF SweepLaunches, Apart
  <2>2. \A q \in Procs : Queued(q)' => Queued(q)
    BY <1>0, <1>5, HeadFacts DEF SweepLaunches
  <2>3. UNCHANGED <<workers, greeted, draining>> /\ starting' = starting \cup {Head(waiting).p}
    BY <1>5 DEF SweepLaunches, unitsButBound, Launch
  <2> QED BY <1>2, <2>1, <2>2, <2>3
<1>6. ASSUME NEW p \in Procs, UNCHANGED <<workers, greeted, draining>>, SpawnForEffect(p) PROVE Apart'
  <2>1. CASE UNCHANGED <<waiting, starting>>
    BY <1>3, <1>6, <2>1
  <2>2. CASE p \notin workers /\ Launch(p) /\ UNCHANGED waiting
    BY <1>2, <1>6, <2>2 DEF Launch, Queued
  <2>3. CASE p \notin workers /\ waiting' = MapSet(p, cur[p]) /\ UNCHANGED starting
    <3>1. cur[p] \in Starts
      BY <1>0 DEF TypeOK
    <3>2. \A q \in Procs : Queued(q)' => Queued(q) \/ q = p
      BY <1>0, <2>3, <3>1, SetFacts
    <3> QED BY <1>2, <1>6, <2>3, <3>2
  <2> QED BY <1>6, <2>1, <2>2, <2>3 DEF SpawnForEffect
<1>7. ASSUME NEW p \in Procs, BeginEffect(p) PROVE Apart'
  <2>1. UNCHANGED <<workers, greeted, draining>>
    BY <1>7 DEF BeginEffect, unitsButBound
  <2>2. CASE waiting' = MapDelete(p) /\ UNCHANGED starting
    BY <1>0, <1>1, <2>1, <2>2, DeleteFacts
  <2>3. CASE UNCHANGED <<waiting, starting>>
    BY <1>3, <2>1, <2>3
  <2> QED BY <1>6, <1>7, <2>1, <2>2, <2>3 DEF BeginEffect
<1>8. ASSUME NEW p \in Procs, EffectContinues(p) PROVE Apart'
  <2>1. UNCHANGED <<workers, greeted, draining>>
    BY <1>8 DEF EffectContinues, unitsButBound
  <2> QED BY <1>3, <1>6, <1>8, <2>1 DEF EffectContinues
<1>9. ASSUME NEW p \in Procs, InputSpawns(p) PROVE Apart'
  <2>1. UNCHANGED <<workers, greeted, draining>> /\ p \notin workers /\ cur[p] \in Starts
    BY <1>0, <1>9 DEF InputSpawns, unitsButBound, TypeOK
  <2>2. CASE Launch(p) /\ UNCHANGED waiting
    BY <1>2, <2>1, <2>2 DEF Launch, Queued
  <2>3. CASE waiting' = MapSet(p, cur[p]) /\ UNCHANGED starting
    <3>1. \A q \in Procs : Queued(q)' => Queued(q) \/ q = p
      BY <1>0, <2>1, <2>3, SetFacts
    <3> QED BY <1>2, <2>1, <2>3, <3>1
  <2> QED BY <1>9, <2>2, <2>3 DEF InputSpawns
<1>10. ASSUME NEW p \in Procs, Register(p) PROVE Apart'
  <2>1. /\ p \in starting /\ workers' = workers \cup {p} /\ starting' = starting \ {p}
        /\ UNCHANGED <<waiting, greeted, draining>>
    BY <1>10 DEF Register, Settle
  <2>2. ~Queued(p)
    BY <1>0, <2>1 DEF OnePlacePerProcess, Queued
  <2> QED BY <2>1, <2>2 DEF Apart, Queued
<1>11. ASSUME NEW p \in Procs, AllocationFails(p) \/ SpawnThrows(p) PROVE Apart'
  BY <1>1, <1>11 DEF AllocationFails, SpawnThrows, Settle, Queued, units
<1>12. ASSUME NEW p \in Procs, Hello(p) PROVE Apart'
  BY <1>12 DEF Hello, queue, Apart, Queued
<1>13. ASSUME NEW p \in Procs, Exit(p) PROVE Apart'
  BY <1>13 DEF Exit, Apart, Queued
<1>14. CASE Shutdown
  BY <1>1, <1>14 DEF Shutdown, units, Queued
<1>15. ASSUME NEW p \in Procs, StopRegistered(p) PROVE Apart'
  BY <1>15 DEF StopRegistered, queue, Apart, Queued
<1> QED
  BY <1>3, <1>4, <1>5, <1>7, <1>8, <1>9, <1>10, <1>11, <1>12, <1>13, <1>14, <1>15
  DEF Next, Usual, Unusual, Sweep, RunEffects, RunUnit, vars, queue, units, TimerFires, SweepEnds,
      Deliver, Overtake, DeliverNth, SpawnRefused, StopFails, CommitStart, CommitLeave,
      CommitAbort, CommitInterrupt, CommitFailure, AcceptStart

-----------------------------------------------------------------------------
(* Unwanted workers *)

\* A worker that was sent a start the process does not want is being stopped, or
\* a reaction that is not yet behind it will stop it.
Leaving(p) ==
    \/ p \in draining \/ More(p)
    \/ tail[p] # <<>> /\ pc[p] \in {"ready", "cancelling"}
Unwanted(p) == p \in workers /\ ~live[p] /\ p \in greeted /\ served[p] # 0
ExitsAreUnderWay == \A p \in Procs : Unwanted(p) => Leaving(p)

LEMMA ExitsStep == IInv /\ Apart /\ ExitsAreUnderWay /\ [Next]_vars => ExitsAreUnderWay'
<1> SUFFICES ASSUME IInv, Apart, ExitsAreUnderWay, [Next]_vars, NEW q \in Procs, Unwanted(q)'
             PROVE  Leaving(q)'
  BY DEF ExitsAreUnderWay
<1>0. /\ TypeOK /\ SuspendedHasEffect /\ (Unwanted(q) => Leaving(q)) /\ tail \in [Procs -> Seq(EffectKinds)]
      /\ pc \in [Procs -> {"ready", "cancelling", "stopping", "exited", "spawning"}]
  BY DEF IInv, ExitsAreUnderWay, TypeOK
<1>1. ASSUME UNCHANGED <<workers, live, greeted, served>> PROVE Leaving(q)
  BY <1>0, <1>1 DEF Unwanted
<1>2. CASE UNCHANGED <<workers, live, greeted, served, draining, undelivered, tail, pc>>
  BY <1>1, <1>2 DEF Leaving, More
<1>3. ASSUME NEW p \in Procs, Pop(p), tail[p] # <<>>, UNCHANGED <<workers, live, greeted, served, draining, undelivered>>,
             p = q => pc[p] \notin {"ready", "cancelling"} \/ q \notin workers
      PROVE  Leaving(q)'
  <2>1. Leaving(q) /\ q \in workers
    BY <1>1, <1>3 DEF Unwanted
  <2>2. /\ pc'[p] = "ready" /\ (Idle(p)' => ~More(p))
        /\ \A x \in Procs : x # p => tail'[x] = tail[x] /\ pc'[x] = pc[x]
    BY <1>0, <1>3, PopFacts
  <2>3. CASE p # q
    BY <1>3, <2>1, <2>2, <2>3 DEF Leaving, More
  <2>4. CASE p = q
    <3>1. q \in draining \/ ~Idle(q)'
      BY <1>3, <2>1, <2>2, <2>4 DEF Leaving
    <3> QED BY <1>3, <2>2, <2>4, <3>1 DEF Leaving, Idle, More
  <2> QED BY <2>3, <2>4
<1>4. ASSUME NEW p \in Procs, tail[p] # <<>>, UNCHANGED <<workers, live, greeted, served, draining, undelivered>>,
             SpawnForEffect(p), pc[p] # "cancelling" \/ p \notin workers, pc[p] # "ready" \/ p \notin workers
      PROVE  Leaving(q)'
  <2>1. CASE Pop(p)
    BY <1>3, <1>4, <2>1
  <2>2. CASE p \notin workers /\ pc' = [pc EXCEPT ![p] = "spawning"] /\ tail' = tail
    <3>1. Leaving(q) /\ q \in workers
      BY <1>1, <1>4 DEF Unwanted
    <3>2. pc'[q] = pc[q]
      BY <1>0, <2>2, <3>1
    <3> QED BY <1>4, <2>2, <3>1, <3>2 DEF Leaving, More
  <2> QED BY <1>4, <2>1, <2>2 DEF SpawnForEffect
<1>5. ASSUME NEW p \in Procs, BeginEffect(p) PROVE Leaving(q)'
  <2>1. UNCHANGED <<workers, live, greeted, served, draining, undelivered>> /\ pc[p] = "ready" /\ tail[p] # <<>>
    BY <1>5 DEF BeginEffect, unitsButBound, durable
  <2>2. CASE pc' = [pc EXCEPT ![p] = "cancelling"] /\ tail' = tail
    <3>1. Leaving(q)
      BY <1>1, <2>1
    <3>2. pc'[q] = pc[q] \/ (q = p /\ pc'[q] = "cancelling")
      BY <1>0, <2>2
    <3> QED BY <2>1, <2>2, <3>1, <3>2 DEF Leaving, More
  <2>3. CASE p \notin workers /\ Pop(p)
    BY <1>3, <2>1, <2>3
  <2>4. CASE p \notin workers /\ SpawnForEffect(p)
    BY <1>4, <2>1, <2>4
  <2> QED BY <1>5, <2>2, <2>3, <2>4 DEF BeginEffect
<1>6. ASSUME NEW p \in Procs, StopRegistered(p) PROVE Leaving(q)'
  <2>1. UNCHANGED <<workers, live, greeted, served, undelivered, tail>> /\ draining' = draining \cup {p}
        /\ pc' = [pc EXCEPT ![p] = "stopping"]
    BY <1>6 DEF StopRegistered, durable
  <2>2. Leaving(q) /\ (pc'[q] = pc[q] \/ q = p)
    BY <1>0, <1>1, <2>1
  <2> QED BY <2>1, <2>2 DEF Leaving, More
<1>7. ASSUME NEW p \in Procs, EffectContinues(p) PROVE Leaving(q)'
  <2>1. /\ UNCHANGED <<workers, live, greeted, served, draining, undelivered>>
        /\ pc[p] = "exited" \/ (pc[p] = "cancelling" /\ p \notin workers)
    BY <1>7 DEF EffectContinues, unitsButBound, durable
  <2>2. tail[p] # <<>>
    BY <1>0, <2>1 DEF SuspendedHasEffect
  <2>3. CASE SpawnForEffect(p)
    BY <1>4, <2>1, <2>2, <2>3
  <2>4. CASE Pop(p)
    BY <1>3, <2>1, <2>2, <2>4
  <2> QED BY <1>7, <2>3, <2>4 DEF EffectContinues
<1>8. ASSUME NEW p \in Procs, NEW s, NEW w, NEW k \in EffectKinds, Commit(p, s, w, k),
             UNCHANGED <<workers, greeted, served, draining, tail, pc>>
      PROVE  Leaving(q)'
  <2>1. /\ undelivered'[p] # <<>>
        /\ \A x \in Procs : x # p => live'[x] = live[x] /\ undelivered'[x] = undelivered[x]
    BY <1>0, <1>8, CommitFacts
  <2>2. CASE p = q
    BY <2>1, <2>2 DEF Leaving, More
  <2>3. CASE p # q
    <3>1. Leaving(q)
      BY <1>0, <1>8, <2>1, <2>3 DEF Unwanted
    <3> QED BY <1>8, <2>1, <2>3, <3>1 DEF Leaving, More
  <2> QED BY <2>2, <2>3
<1>9. ASSUME NEW p \in Procs, CommitStart(p) \/ CommitLeave(p) \/ CommitAbort(p) \/ CommitInterrupt(p)
      PROVE  Leaving(q)'
  <2>1. UNCHANGED <<workers, greeted, served, draining, tail, pc>>
    BY <1>9 DEF CommitStart, CommitLeave, CommitAbort, CommitInterrupt, units
  <2>2. \E s, w : \E k \in EffectKinds : Commit(p, s, w, k)
    <3>1. CASE CommitStart(p)
      BY <3>1 DEF CommitStart, EffectKinds
    <3>2. CASE CommitLeave(p)
      BY <3>2 DEF CommitLeave, EffectKinds
    <3>3. CASE CommitAbort(p)
      BY <3>3 DEF CommitAbort, EffectKinds
    <3>4. CASE CommitInterrupt(p)
      BY <3>4 DEF CommitInterrupt, EffectKinds
    <3> QED BY <1>9, <3>1, <3>2, <3>3, <3>4
  <2> QED BY <1>8, <2>1, <2>2
<1>10. ASSUME NEW e \in reports, CommitFailure(e) PROVE Leaving(q)'
  <2>1. UNCHANGED <<workers, greeted, served, draining, tail, pc>> /\ e.p \in Procs
    BY <1>0, <1>10 DEF CommitFailure, TypeOK, Entry
  <2>2. CASE Commit(e.p, cur[e.p], FALSE, "stop")
    BY <1>8, <2>1, <2>2 DEF EffectKinds
  <2>3. CASE UNCHANGED <<cur, live, accepted, undelivered>>
    BY <1>2, <2>1, <2>3
  <2> QED BY <1>10, <2>2, <2>3 DEF CommitFailure
<1>11. ASSUME NEW p \in Procs, Deliver(p) \/ Overtake(p) PROVE Leaving(q)'
  <2>1. UNCHANGED <<workers, live, greeted, served, draining, pc>>
    BY <1>0, <1>11, AnyDelivery DEF DeliverNth, durable, units
  <2>2. /\ tail'[p] # <<>> /\ (tail[p] # <<>> => Len(tail'[p]) >= 2)
        /\ \A x \in Procs : x # p => tail'[x] = tail[x] /\ undelivered'[x] = undelivered[x]
    BY <1>0, <1>11, DeliverFacts
  <2>3. CASE p # q
    BY <1>1, <2>1, <2>2, <2>3 DEF Leaving, More
  <2>4. CASE p = q /\ tail[q] # <<>>
    BY <2>2, <2>4 DEF Leaving, More
  <2>5. CASE p = q /\ tail[q] = <<>>
    BY <1>0, <2>1, <2>2, <2>5 DEF Leaving, SuspendedHasEffect
  <2> QED BY <2>3, <2>4, <2>5
<1>12. ASSUME NEW p \in Procs, Register(p) \/ AllocationFails(p) \/ SpawnThrows(p) PROVE Leaving(q)'
  <2>1. /\ UNCHANGED <<live, greeted, served, draining, undelivered>> /\ p \in starting
        /\ workers' \subseteq workers \cup {p} /\ Settle(p)
    BY <1>12 DEF Register, AllocationFails, SpawnThrows, durable, units
  <2>2. q \in workers /\ q # p
    BY <2>1 DEF Apart, Unwanted
  <2>3. Leaving(q)
    BY <1>0, <2>1, <2>2 DEF Unwanted
  <2>4. tail'[q] = tail[q] /\ pc'[q] = pc[q]
    BY <1>0, <2>1, <2>2 DEF Settle, Pop
  <2> QED BY <2>1, <2>3, <2>4 DEF Leaving, More
<1>13. ASSUME NEW p \in Procs, Hello(p) PROVE Leaving(q)'
  <2>1. /\ UNCHANGED <<workers, live, draining, undelivered, tail, pc>> /\ greeted' = greeted \cup {p}
        /\ served' = [served EXCEPT ![p] = IF live[p] THEN cur[p] ELSE 0]
    BY <1>13 DEF Hello, durable, effects
  <2>2. CASE p # q
    BY <1>0, <2>1, <2>2 DEF Unwanted, Leaving, More, TypeOK
  <2>3. CASE p = q
    BY <1>0, <2>1, <2>3 DEF Unwanted, TypeOK
  <2> QED BY <2>2, <2>3
<1>14. ASSUME NEW p \in Procs, Exit(p) PROVE Leaving(q)'
  <2>1. /\ UNCHANGED <<live, undelivered, tail>> /\ workers' = workers \ {p} /\ greeted' = greeted \ {p}
        /\ draining' = draining \ {p} /\ served' = [served EXCEPT ![p] = 0]
        /\ pc' = [pc EXCEPT ![p] = IF @ = "stopping" THEN "exited" ELSE @]
    BY <1>14 DEF Exit, durable
  <2>2. q # p /\ Unwanted(q)
    BY <2>1 DEF Unwanted, TypeOK
  <2>3. pc'[q] = pc[q]
    BY <1>0, <2>1, <2>2
  <2> QED BY <1>0, <2>1, <2>2, <2>3 DEF Leaving, More
<1>15. ASSUME NEW p \in Procs, InputSpawns(p) \/ AcceptStart(p) PROVE Leaving(q)'
  BY <1>2, <1>15 DEF InputSpawns, AcceptStart, effects, units, unitsButBound, durable
<1>16. CASE TimerFires \/ SweepDropsStale \/ SweepLaunches \/ SweepEnds \/ Shutdown
  BY <1>2, <1>16 DEF TimerFires, SweepDropsStale, SweepLaunches, SweepEnds, Shutdown, effects, units, unitsButBound, durable
<1>17. ASSUME NEW p \in Procs, SpawnRefused(p) \/ StopFails(p) PROVE Leaving(q)'
  <2>1. /\ UNCHANGED <<workers, live, greeted, served, draining, undelivered>> /\ Pop(p)
        /\ p \notin workers \/ pc[p] = "stopping"
    BY <1>17 DEF SpawnRefused, StopFails, units, durable
  <2>2. tail[p] # <<>>
    BY <1>0, <1>17 DEF SpawnRefused, StopFails, SuspendedHasEffect
  <2> QED BY <1>3, <2>1, <2>2
<1>18. CASE UNCHANGED vars
  BY <1>2, <1>18 DEF vars, effects, units, durable
<1> QED
  BY <1>5, <1>6, <1>7, <1>9, <1>10, <1>11, <1>12, <1>13, <1>14, <1>15, <1>16, <1>17, <1>18
  DEF Next, Usual, Unusual, Sweep, RunEffects, RunUnit

\* A worker the process no longer wants is on its way out, in whatever order the
\* reactions reach the tail: every commit that makes it unwanted leaves a
\* reaction that has still to stop it (reconcileWorkerForProcessTurnSelection).
THEOREM ExitsTheorem == Spec => []UnwantedWorkerLeaves
<1>1. Init => Apart /\ ExitsAreUnderWay
  BY DEF Init, Apart, ExitsAreUnderWay, Unwanted
<1>2. IInv /\ Apart /\ ExitsAreUnderWay => UnwantedWorkerLeaves
  <2> SUFFICES ASSUME IInv, ExitsAreUnderWay, NEW p \in workers, ~live[p],
                      p \notin draining, p \in greeted, served[p] # 0
               PROVE  HasEffect(p, EffectKinds)
    BY DEF UnwantedWorkerLeaves
  <2>1. TypeOK /\ p \in Procs
    BY DEF IInv, TypeOK
  <2>2. tail[p] # <<>> \/ undelivered[p] # <<>>
    <3>1. Leaving(p)
      BY <2>1 DEF ExitsAreUnderWay, Unwanted
    <3>2. Len(tail[p]) >= 2 => tail[p] # <<>>
      OBVIOUS
    <3> QED BY <3>1, <3>2 DEF Leaving, More
  <2>3. ASSUME NEW s \in Seq(EffectKinds), s # <<>> PROVE \E i \in 1..Len(s) : s[i] \in EffectKinds
    <3>1. 1 \in 1..Len(s)
      BY <2>3
    <3>2. s[1] \in EffectKinds
      BY <3>1
    <3> QED BY <3>1, <3>2
  <2>4. tail[p] \in Seq(EffectKinds) /\ undelivered[p] \in Seq(EffectKinds)
    BY <2>1, ReactionTypes
  <2> QED BY <2>2, <2>3, <2>4 DEF HasEffect
<1> QED BY <1>1, <1>2, ApartStep, ExitsStep, Invariance, PTL DEF Spec

-----------------------------------------------------------------------------
(* Who answers for a live start *)

Asked(p) == InQueue([p |-> p, s |-> cur[p]])
Reported(p) == [p |-> p, s |-> cur[p]] \in reports

\* The worker or the allocation the process has is for another start, was sent
\* another one, or is being stopped.
Stale(p) ==
    \/ p \in starting \cup workers /\ bound[p] # cur[p]
    \/ p \in workers \cap greeted /\ served[p] # cur[p]
    \/ p \in draining

\* A reaction will still replace it.
Replaced(p) ==
    \/ More(p)
    \/ tail[p] # <<>> /\ pc[p] \in {"ready", "cancelling", "stopping"}

Held(p) == p \in starting \cup workers \/ Reported(p) \/ Asked(p)

\* The newest reaction of a live start asks for a worker; what another start left
\* behind is replaced before that; when no reaction is left, the start is held.
Covered(p) ==
    /\ cur[p] # 0 /\ EnterIsLast(p)
    /\ Stale(p) => Replaced(p)
    /\ Idle(p) => Held(p)

StartsAreCovered ==
    ~stopped => \A p \in Procs \ astray : live[p] => Covered(p)

\* A step that leaves the live process q alone.
Same(q) ==
    /\ cur'[q] = cur[q] /\ bound'[q] = bound[q] /\ served'[q] = served[q]
    /\ undelivered'[q] = undelivered[q] /\ tail'[q] = tail[q] /\ pc'[q] = pc[q]
    /\ (q \in starting' <=> q \in starting) /\ (q \in workers' <=> q \in workers)
    /\ (q \in greeted' <=> q \in greeted) /\ (q \in draining' <=> q \in draining)
    /\ (Asked(q) => Asked(q)') /\ (Reported(q) => Reported(q)')

LEMMA SameKeeps == ASSUME NEW q \in Procs, Covered(q), Same(q) PROVE Covered(q)'
<1>1. /\ (Idle(q)' <=> Idle(q)) /\ (More(q)' <=> More(q)) /\ (EnterIsLast(q)' <=> EnterIsLast(q))
  BY DEF Same, Idle, More, EnterIsLast
<1>2. (Stale(q)' <=> Stale(q)) /\ (Replaced(q)' <=> Replaced(q)) /\ (Held(q) => Held(q)')
  BY <1>1 DEF Same, Stale, Replaced, Held
<1> QED BY <1>1, <1>2 DEF Covered, Same

\* A queue entry of a process whose start does not change stays its entry.
LEMMA AskedKeeps ==
    ASSUME TypeOK, NEW q \in Procs, cur'[q] = cur[q], Asked(q),
           \A e \in Entry : e.p = q /\ e.s = cur[q] /\ InQueue(e) => InQueue(e)'
    PROVE  Asked(q)'
<1>1. PICK e \in Entry : e = [p |-> q, s |-> cur[q]]
  BY DEF TypeOK, Entry
<1>2. e.p = q /\ e.s = cur[q] /\ InQueue(e)
  BY <1>1 DEF Asked, InQueue
<1>3. InQueue(e)'
  BY <1>2
<1> QED BY <1>1, <1>3 DEF Asked, InQueue

\* When the newest reaction asks for a worker, one that does not is not the last.
LEMMA OthersFollow ==
    ASSUME TypeOK, NEW p \in Procs, tail[p] # <<>>, EnterIsLast(p), Head(tail[p]) # "enter"
    PROVE  More(p)
<1>1. tail[p] \in Seq(EffectKinds) /\ Len(tail[p]) \in Nat \ {0} /\ Head(tail[p]) = tail[p][1]
  BY DEF TypeOK
<1>2. CASE undelivered[p] # <<>>
  BY <1>2 DEF More
<1>3. CASE undelivered[p] = <<>>
  <2>1. tail[p][Len(tail[p])] = "enter"
    BY <1>3 DEF EnterIsLast
  <2>2. Len(tail[p]) # 1
    BY <1>1, <2>1
  <2>3. Len(tail[p]) \in Int /\ Len(tail[p]) >= 1
    BY <1>1
  <2>4. \A n \in Int : n >= 1 /\ n # 1 => n >= 2
    OBVIOUS
  <2>5. Len(tail[p]) >= 2
    BY <2>2, <2>3, <2>4
  <2> QED BY <2>5 DEF More
<1> QED BY <1>2, <1>3

\* A finished effect that was not the last leaves one that replaces what is stale.
LEMMA PopReplaces ==
    ASSUME TypeOK, NEW p \in Procs, Pop(p), tail[p] # <<>>, undelivered' = undelivered
    PROVE  /\ EnterIsLast(p) => EnterIsLast(p)'
           /\ ~Idle(p)' => Replaced(p)'
           /\ More(p) => ~Idle(p)'
<1>1. pc'[p] = "ready" /\ (Idle(p)' => ~More(p)) /\ (EnterIsLast(p) => EnterIsLast(p)')
  BY PopFacts
<1> QED BY <1>1 DEF Idle, Replaced, More

\* A reaction that asks for a worker joins or opens an allocation, or leaves a
\* place in the queue; joining the allocation of another start as the last
\* reaction is the defect the history remembers.
LEMMA SpawnCovers ==
    ASSUME TypeOK, Apart, NEW p \in Procs, SpawnForEffect(p), Covered(p), ~JoinsAnother(p),
           ~stopped, tail[p] # <<>>, pc[p] \in {"ready", "exited", "cancelling"},
           p \in workers => pc[p] = "exited",
           UNCHANGED <<cur, undelivered, workers, greeted, served, draining, reports>>
    PROVE  Covered(p)'
<1>1. /\ cur[p] \in Starts /\ bound \in [Procs -> Starts]
      /\ tail[p] \in Seq(EffectKinds) /\ Len(tail[p]) \in Nat \ {0}
      /\ pc \in [Procs -> {"ready", "cancelling", "stopping", "exited", "spawning"}]
  BY DEF TypeOK
<1>2. CASE p \in workers /\ Pop(p) /\ UNCHANGED <<waiting, starting, scheduled, bound>>
  <2>1. Stale(p)' <=> Stale(p)
    BY <1>2 DEF Stale
  <2>2. Stale(p) => ~Idle(p)'
    BY <1>2, PopReplaces DEF Covered, Replaced
  <2> QED BY <1>2, <2>1, <2>2, PopReplaces DEF Covered, Held
<1>3. CASE /\ p \notin workers /\ p \in starting /\ pc' = [pc EXCEPT ![p] = "spawning"]
           /\ UNCHANGED <<tail, waiting, starting, scheduled, bound>>
  <2>1. pc'[p] = "spawning" /\ ~Idle(p)' /\ (EnterIsLast(p)' <=> EnterIsLast(p)) /\ (More(p)' <=> More(p))
    BY <1>1, <1>3 DEF Idle, EnterIsLast, More
  <2>2. CASE bound[p] = cur[p]
    BY <1>3, <2>1, <2>2 DEF Covered, Stale, Apart
  <2>3. CASE bound[p] # cur[p]
    <3>1. ~IsLast(p)
      BY <1>1, <1>3, <2>1, <2>3 DEF JoinsAnother
    <3>2. \A n \in Nat \ {0} : n # 1 => n >= 2
      OBVIOUS
    <3>3. Len(tail[p]) # 1 => Len(tail[p]) >= 2
      BY <1>1, <3>2
    <3>4. More(p)
      BY <3>1, <3>3 DEF IsLast, More
    <3> QED BY <2>1, <3>4 DEF Covered, Replaced
  <2> QED BY <2>2, <2>3
<1>4. CASE /\ p \notin workers /\ p \notin starting /\ Launch(p)
           /\ pc' = [pc EXCEPT ![p] = "spawning"] /\ UNCHANGED <<tail, waiting, scheduled>>
  <2>1. bound'[p] = cur[p] /\ p \in starting'
    BY <1>1, <1>4 DEF Launch
  <2>2. (EnterIsLast(p)' <=> EnterIsLast(p)) /\ ~Idle(p)'
    BY <1>4 DEF EnterIsLast, Idle
  <2> QED BY <1>4, <2>1, <2>2 DEF Covered, Stale, Apart
<1>5. CASE /\ p \notin workers /\ p \notin starting /\ waiting' = MapSet(p, cur[p])
           /\ Pop(p) /\ UNCHANGED <<starting, bound>>
  <2>1. PICK n \in Starts : n = cur[p]
    BY <1>1
  <2>2. InQueue([p |-> p, s |-> n])'
    BY <1>5, <2>1, SetFacts
  <2>3. Asked(p)'
    BY <2>1, <2>2 DEF Asked, InQueue
  <2>4. EnterIsLast(p)'
    BY <1>5, PopReplaces DEF Covered
  <2> QED BY <1>5, <2>3, <2>4 DEF Covered, Stale, Held, Apart
<1> QED BY <1>2, <1>3, <1>4, <1>5 DEF SpawnForEffect, Covered

\* A settled allocation: the worker it delivered, or the failure it reported, is
\* for the start that is current, unless a reaction is still to come.
LEMMA SettleCovers ==
    ASSUME TypeOK, Apart, SuspendedHasEffect, NEW p \in Procs, p \in starting, Settle(p), Covered(p),
           \/ workers' = workers \cup {p} /\ reports' = reports
           \/ workers' = workers /\ reports' = Report(p)
           \/ workers' = workers /\ reports' = reports /\ ~Idle(p)',
           UNCHANGED <<cur, undelivered, waiting, bound, greeted, served, draining>>
    PROVE  Covered(p)'
<1>1. p \notin workers /\ p \notin greeted /\ p \notin draining
  BY DEF Apart
<1>2. /\ EnterIsLast(p)'
      /\ Replaced(p) => Replaced(p)' /\ ~Idle(p)'
  <2>1. CASE pc[p] = "spawning"
    <3>1. Pop(p) /\ tail[p] # <<>>
      BY <2>1 DEF Settle, SuspendedHasEffect
    <3> QED BY <2>1, <3>1, PopReplaces DEF Covered, Replaced
  <2>2. CASE pc[p] # "spawning"
    <3>1. UNCHANGED <<tail, pc, undelivered>>
      BY <2>2 DEF Settle
    <3>2. Len(tail[p]) >= 2 => tail[p] # <<>>
      OBVIOUS
    <3> QED BY <3>1, <3>2 DEF Covered, EnterIsLast, Replaced, More, Idle
  <2> QED BY <2>1, <2>2
<1>3. Stale(p)' => bound[p] # cur[p]
  BY <1>1 DEF Stale
<1>4. bound[p] # cur[p] => Replaced(p)
  BY DEF Covered, Stale
<1>5. Idle(p)' => Held(p)'
  BY <1>2, <1>4 DEF Held, Reported, Report
<1> QED BY <1>2, <1>3, <1>4, <1>5 DEF Covered

\* A reaction that is behind the others replaces what is stale.
LEMMA DeliveryCovers ==
    ASSUME TypeOK, SuspendedHasEffect, NEW p \in Procs, Deliver(p) \/ Overtake(p),
           Covered(p), ~LeavesStopBehind(p)
    PROVE  Covered(p)'
<1>1. /\ tail'[p] # <<>> /\ (tail[p] # <<>> => Len(tail'[p]) >= 2)
      /\ ~Idle(p)' /\ pc' = pc /\ EnterIsLast(p)'
  BY DeliverFacts DEF Covered
<1>2. cur' = cur
  BY AnyDelivery DEF DeliverNth, durable
<1>3. Replaced(p)'
  BY <1>1 DEF Replaced, More, SuspendedHasEffect
<1> QED BY <1>1, <1>2, <1>3 DEF Covered

\* A finished effect that is not the last leaves the process covered.
LEMMA PopCovers ==
    ASSUME TypeOK, Apart, NEW p \in Procs, Pop(p), tail[p] # <<>>, NEW q \in Procs, Covered(q),
           q = p => ~Idle(p)' \/ Head(tail[p]) # "enter",
           UNCHANGED <<cur, undelivered, waiting, starting, workers, bound, greeted, served,
                       draining, reports>>
    PROVE  Covered(q)'
<1>1. CASE q # p
  <2>1. tail'[q] = tail[q] /\ pc'[q] = pc[q]
    BY <1>1, PopFacts
  <2>2. Same(q)
    BY <2>1 DEF Same, Asked, InQueue, Reported
  <2> QED BY <2>2, SameKeeps
<1>2. CASE q = p
  <2>1. ~Idle(p)'
    BY <1>2, OthersFollow, PopReplaces DEF Covered
  <2>2. EnterIsLast(p)' /\ Replaced(p)'
    BY <1>2, <2>1, PopReplaces DEF Covered
  <2> QED BY <1>2, <2>1, <2>2 DEF Covered
<1> QED BY <1>1, <1>2

\* The effect of one process keeps every live start covered.
LEMMA SpawnKeeps ==
    ASSUME TypeOK, Apart, NEW p \in Procs, SpawnForEffect(p), NEW q \in Procs, Covered(q),
           ~GoesAstray(q), ~stopped, tail[p] # <<>>, pc[p] \in {"ready", "exited", "cancelling"},
           p \in workers => pc[p] = "exited",
           UNCHANGED <<cur, undelivered, workers, greeted, served, draining, reports>>
    PROVE  Covered(q)'
<1>1. CASE q # p
  <2>1. /\ cur[p] \in Starts /\ tail \in [Procs -> Seq(EffectKinds)] /\ bound \in [Procs -> Starts]
        /\ pc \in [Procs -> {"ready", "cancelling", "stopping", "exited", "spawning"}]
    BY DEF TypeOK
  <2>2. /\ tail'[q] = tail[q] /\ pc'[q] = pc[q] /\ bound'[q] = bound[q]
        /\ q \in starting' <=> q \in starting
    BY <1>1, <2>1 DEF SpawnForEffect, Pop, Launch
  <2>3. \A e \in Entry : e.p # p /\ InQueue(e) => InQueue(e)'
    <3>1. CASE waiting' = waiting
      BY <3>1 DEF InQueue
    <3>2. CASE waiting' = MapSet(p, cur[p])
      <4>1. PICK n \in Starts : n = cur[p]
        BY <2>1
      <4> QED BY <3>2, <4>1, SetFacts
    <3> QED BY <3>1, <3>2 DEF SpawnForEffect
  <2>4. Asked(q) => Asked(q)'
    BY <1>1, <2>3, AskedKeeps
  <2>5. Same(q)
    BY <1>1, <2>2, <2>4 DEF Same, Reported
  <2> QED BY <2>5, SameKeeps
<1>2. CASE q = p
  BY <1>2, SpawnCovers DEF GoesAstray
<1> QED BY <1>1, <1>2

\* Every step keeps the live starts covered, but for the defects the history
\* remembers.
LEMMA CoveredStep ==
    IInv /\ Apart /\ StartsAreCovered /\ [HistoryNext]_historyVars => StartsAreCovered'
<1> SUFFICES ASSUME IInv, Apart, StartsAreCovered, [HistoryNext]_historyVars,
                    ~stopped', NEW q \in Procs, q \notin astray', live'[q]
             PROVE  Covered(q)'
  BY DEF StartsAreCovered
<1>0. /\ TypeOK /\ OnePlacePerProcess /\ SuspendedHasEffect
      /\ pc \in [Procs -> {"ready", "cancelling", "stopping", "exited", "spawning"}]
  BY DEF IInv, TypeOK
<1>1. CASE UNCHANGED historyVars
  <2>1. UNCHANGED <<vars, astray>>
    BY <1>1 DEF historyVars
  <2>2. Covered(q)
    BY <2>1 DEF StartsAreCovered, vars, durable, queue
  <2>3. Same(q)
    BY <2>1 DEF Same, Asked, InQueue, Reported, vars, durable, effects, queue, units
  <2> QED BY <2>2, <2>3, SameKeeps
<1>2. CASE HistoryNext
  <2>1. Next /\ ~GoesAstray(q) /\ (made'[q] = made[q] => q \notin astray)
    BY <1>2 DEF HistoryNext, Next
  <2>2. ASSUME ~stopped, live[q], made'[q] = made[q] PROVE Covered(q)
    BY <2>1, <2>2 DEF StartsAreCovered
  <2>3. ASSUME UNCHANGED <<cur, live, made, stopped>>, Covered(q) => Covered(q)' PROVE Covered(q)'
    BY <2>2, <2>3
  <2>4. ASSUME UNCHANGED <<cur, live, made, stopped>>, Same(q) PROVE Covered(q)'
    BY <2>3, <2>4, SameKeeps
  <2>5. CASE /\ UNCHANGED <<cur, live, made, undelivered, tail, pc, waiting, starting, stopped>>
             /\ UNCHANGED <<workers, bound, greeted, served, draining, reports>>
    <3>1. Same(q)
      BY <2>5 DEF Same, Asked, InQueue, Reported
    <3> QED BY <2>4, <2>5, <3>1
  <2>6. CASE TimerFires \/ SweepEnds \/ (\E p \in Procs : AcceptStart(p))
    BY <2>5, <2>6 DEF TimerFires, SweepEnds, AcceptStart, durable, effects, queue, units
  <2>7. CASE SweepDropsStale
    <3>1. /\ UNCHANGED <<cur, live, made, undelivered, tail, pc, starting, stopped>>
          /\ UNCHANGED <<workers, bound, greeted, served, draining, reports>>
          /\ waiting # <<>> /\ waiting' = Tail(waiting) /\ ~isCurrent(Head(waiting))
      BY <2>7 DEF SweepDropsStale, durable, effects, units
    <3>2. \A e \in Entry : e.p = q /\ e.s = cur[q] /\ InQueue(e) => InQueue(e)'
      BY <1>0, <3>1, HeadFacts DEF isCurrent
    <3>3. Asked(q) => Asked(q)'
      BY <1>0, <3>1, <3>2, AskedKeeps
    <3>4. Same(q)
      BY <3>1, <3>3 DEF Same, Reported
    <3> QED BY <2>4, <3>1, <3>4
  <2>8. CASE SweepLaunches
    <3>1. PICK p \in Procs : p = Head(waiting).p
      BY <1>0, <2>8, HeadFacts DEF SweepLaunches
    <3>2. /\ UNCHANGED <<cur, live, made, undelivered, tail, pc, stopped>>
          /\ UNCHANGED <<workers, greeted, served, draining, reports>>
          /\ waiting # <<>> /\ waiting' = Tail(waiting)
          /\ starting' = starting \cup {p} /\ bound' = [bound EXCEPT ![p] = cur[p]]
      BY <2>8, <3>1 DEF SweepLaunches, Launch, durable, effects, unitsButBound
    <3>3. /\ bound'[p] = cur[p] /\ \A x \in Procs : x # p => bound'[x] = bound[x]
          /\ p \notin workers
          /\ \A e \in Entry : InQueue(e) /\ e # Head(waiting) => InQueue(e)'
      BY <1>0, <3>1, <3>2, HeadFacts DEF TypeOK, Apart
    <3>4. CASE q # p
      <4>1. Asked(q) => Asked(q)'
        BY <1>0, <3>1, <3>2, <3>3, <3>4, AskedKeeps
      <4>2. Same(q)
        BY <3>2, <3>3, <3>4, <4>1 DEF Same, Reported
      <4> QED BY <2>4, <3>2, <4>2
    <3>5. CASE q = p
      <4>1. EnterIsLast(p)' <=> EnterIsLast(p)
        BY <3>2 DEF EnterIsLast
      <4>2. Covered(q) => Covered(q)'
        BY <3>2, <3>3, <3>5, <4>1 DEF Covered, Stale, Held, Apart
      <4> QED BY <2>3, <3>2, <4>2
    <3> QED BY <3>4, <3>5
  <2>9. CASE Shutdown
    BY <2>9 DEF Shutdown
  <2>10. ASSUME NEW p \in Procs, BeginEffect(p) PROVE Covered(q)'
    <3>1. /\ UNCHANGED <<cur, live, made, undelivered, stopped>>
          /\ UNCHANGED <<workers, greeted, served, draining, reports>>
          /\ tail[p] # <<>> /\ pc[p] = "ready"
      BY <2>10 DEF BeginEffect, durable, unitsButBound
    <3>2. CASE /\ waiting' = MapDelete(p) /\ pc' = [pc EXCEPT ![p] = "cancelling"]
               /\ UNCHANGED <<tail, starting, bound>>
      <4>1. \A e \in Entry : InQueue(e) /\ e.p # p => InQueue(e)'
        BY <1>0, <3>2, DeleteFacts
      <4>2. CASE q # p
        <5>1. Asked(q) => Asked(q)'
          BY <1>0, <3>1, <4>1, <4>2, AskedKeeps
        <5>2. Same(q)
          BY <1>0, <3>1, <3>2, <4>2, <5>1 DEF Same, Reported
        <5> QED BY <2>4, <3>1, <5>2
      <4>3. CASE q = p
        <5>1. pc'[q] = "cancelling" /\ tail'[q] # <<>> /\ (EnterIsLast(q)' <=> EnterIsLast(q))
          BY <1>0, <3>1, <3>2, <4>3 DEF EnterIsLast
        <5>2. Covered(q) => Covered(q)'
          BY <3>1, <5>1 DEF Covered, Replaced, Idle
        <5> QED BY <2>3, <3>1, <5>2
      <4> QED BY <4>2, <4>3
    <3>3. CASE /\ Head(tail[p]) = "leave" /\ p \notin workers
               /\ Pop(p) /\ UNCHANGED <<waiting, starting, scheduled, bound>>
      <4>1. Head(tail[p]) # "enter"
        BY <3>3
      <4> QED BY <1>0, <2>3, <3>1, <3>3, <4>1, PopCovers
    <3>4. CASE p \notin workers /\ SpawnForEffect(p)
      BY <1>0, <2>1, <2>3, <3>1, <3>4, SpawnKeeps
    <3> QED BY <2>10, <3>2, <3>3, <3>4 DEF BeginEffect
  <2>11. ASSUME NEW p \in Procs, StopRegistered(p) PROVE Covered(q)'
    <3>1. /\ UNCHANGED <<cur, live, made, undelivered, tail, waiting, starting, stopped>>
          /\ UNCHANGED <<workers, bound, greeted, served, reports>>
          /\ pc[p] = "cancelling" /\ draining' = draining \cup {p}
          /\ pc'[p] = "stopping" /\ \A x \in Procs : x # p => pc'[x] = pc[x]
      BY <1>0, <2>11 DEF StopRegistered, durable, queue
    <3>2. CASE q # p
      <4>1. Same(q)
        BY <3>1, <3>2 DEF Same, Asked, InQueue, Reported
      <4> QED BY <2>4, <3>1, <4>1
    <3>3. CASE q = p
      <4>1. tail'[q] # <<>> /\ (EnterIsLast(q)' <=> EnterIsLast(q))
        BY <1>0, <3>1, <3>3 DEF SuspendedHasEffect, EnterIsLast
      <4>2. Covered(q) => Covered(q)'
        BY <3>1, <3>3, <4>1 DEF Covered, Replaced, Idle
      <4> QED BY <2>3, <3>1, <4>2
    <3> QED BY <3>2, <3>3
  <2>12. ASSUME NEW p \in Procs, EffectContinues(p) PROVE Covered(q)'
    <3>1. /\ UNCHANGED <<cur, live, made, undelivered, stopped>>
          /\ UNCHANGED <<workers, greeted, served, draining, reports>>
          /\ pc[p] = "exited" \/ (pc[p] = "cancelling" /\ p \notin workers)
      BY <2>12 DEF EffectContinues, durable, unitsButBound
    <3>2. tail[p] # <<>>
      BY <1>0, <3>1 DEF SuspendedHasEffect
    <3>3. CASE SpawnForEffect(p)
      BY <1>0, <2>1, <2>3, <3>1, <3>2, <3>3, SpawnKeeps
    <3>4. CASE /\ Head(tail[p]) # "enter"
               /\ Pop(p) /\ UNCHANGED <<waiting, starting, scheduled, bound>>
      BY <1>0, <2>3, <3>1, <3>2, <3>4, PopCovers
    <3> QED BY <2>12, <3>3, <3>4 DEF EffectContinues
  <2>13. ASSUME NEW p \in Procs, SpawnRefused(p) \/ StopFails(p) PROVE Covered(q)'
    <3>1. /\ UNCHANGED <<cur, live, made, undelivered, waiting, starting, stopped>>
          /\ UNCHANGED <<workers, bound, greeted, served, draining, reports>>
          /\ Pop(p)
      BY <2>13 DEF SpawnRefused, StopFails, durable, queue, units
    <3>2. tail[p] # <<>>
      BY <1>0, <2>13 DEF SpawnRefused, StopFails, SuspendedHasEffect
    <3>3. q = p => ~Idle(p)'
      BY <2>1, <2>13 DEF GoesAstray, FailsSilently
    <3> QED BY <1>0, <2>3, <3>1, <3>2, <3>3, PopCovers
  <2>14. ASSUME NEW p \in Procs, Register(p) \/ AllocationFails(p) \/ SpawnThrows(p)
         PROVE  Covered(q)'
    <3>1. /\ UNCHANGED <<cur, live, made, undelivered, waiting, stopped>>
          /\ UNCHANGED <<bound, greeted, served, draining>>
          /\ p \in starting /\ Settle(p)
          /\ \/ workers' = workers \cup {p} /\ reports' = reports
             \/ workers' = workers /\ reports' = Report(p)
             \/ workers' = workers /\ reports' = reports /\ (q = p => ~Idle(p)')
      BY <2>1, <2>14
      DEF Register, AllocationFails, SpawnThrows, durable, units, GoesAstray, FailsSilently
    <3>2. CASE q # p
      <4>1. tail'[q] = tail[q] /\ pc'[q] = pc[q] /\ (q \in starting' <=> q \in starting)
        BY <1>0, <3>1, <3>2 DEF Settle, Pop, TypeOK
      <4>2. Same(q)
        BY <3>1, <3>2, <4>1 DEF Same, Asked, InQueue, Reported, Report
      <4> QED BY <2>4, <3>1, <4>2
    <3>3. CASE q = p
      BY <1>0, <2>3, <3>1, <3>3, SettleCovers
    <3> QED BY <3>2, <3>3
  <2>15. ASSUME NEW p \in Procs, Hello(p) PROVE Covered(q)'
    <3>1. /\ UNCHANGED <<cur, live, made, undelivered, tail, pc, waiting, starting, stopped>>
          /\ UNCHANGED <<workers, bound, draining, reports>> /\ greeted' = greeted \cup {p}
          /\ live[p] => served'[p] = cur[p]
          /\ \A x \in Procs : x # p => served'[x] = served[x]
      BY <1>0, <2>15 DEF Hello, durable, effects, queue, TypeOK
    <3>2. CASE q # p
      <4>1. Same(q)
        BY <3>1, <3>2 DEF Same, Asked, InQueue, Reported
      <4> QED BY <2>4, <3>1, <4>1
    <3>3. CASE q = p
      <4>1. /\ (EnterIsLast(q)' <=> EnterIsLast(q)) /\ (Idle(q)' <=> Idle(q))
            /\ (Replaced(q)' <=> Replaced(q)) /\ (Held(q) => Held(q)')
        BY <3>1 DEF EnterIsLast, Idle, Replaced, More, Held, Reported, Asked, InQueue
      <4>2. Stale(q)' => Stale(q)
        BY <3>1, <3>3 DEF Stale
      <4>3. Covered(q) => Covered(q)'
        BY <3>1, <4>1, <4>2 DEF Covered
      <4> QED BY <2>3, <3>1, <4>3
    <3> QED BY <3>2, <3>3
  <2>16. ASSUME NEW p \in Procs, Exit(p) PROVE Covered(q)'
    <3>1. /\ UNCHANGED <<cur, live, made, undelivered, tail, waiting, starting, stopped, bound>>
          /\ p \notin starting /\ p \notin workers' /\ p \notin draining'
          /\ workers' = workers \ {p} /\ greeted' = greeted \ {p} /\ draining' = draining \ {p}
          /\ reports \subseteq reports' /\ p \in workers
          /\ p \notin draining => [p |-> p, s |-> bound[p]] \in reports'
      BY <2>16 DEF Exit, durable, Apart, Report
    <3>2. \A x \in Procs : x # p => pc'[x] = pc[x] /\ served'[x] = served[x]
      BY <1>0, <2>16 DEF Exit, TypeOK
    <3>3. CASE q # p
      <4>1. Same(q)
        BY <3>1, <3>2, <3>3 DEF Same, Asked, InQueue, Reported
      <4> QED BY <2>4, <3>1, <4>1
    <3>4. CASE q = p
      <4>1. (EnterIsLast(q)' <=> EnterIsLast(q)) /\ (Idle(q)' <=> Idle(q)) /\ ~Stale(q)'
        BY <3>1, <3>4 DEF EnterIsLast, Idle, Stale
      <4>2. ASSUME Covered(q), Idle(q) PROVE Reported(q)'
        <5>1. ~Replaced(q)
          BY <4>2 DEF Idle, Replaced, More
        <5>2. q \notin draining /\ bound[q] = cur[q]
          BY <3>1, <3>4, <4>2, <5>1 DEF Covered, Stale
        <5> QED BY <3>1, <3>4, <5>2 DEF Reported
      <4>3. Covered(q) => Covered(q)'
        BY <3>1, <4>1, <4>2 DEF Covered, Held
      <4> QED BY <2>3, <3>1, <4>3
    <3> QED BY <3>3, <3>4
  <2>17. ASSUME NEW p \in Procs, Deliver(p) \/ Overtake(p) PROVE Covered(q)'
    <3>1. /\ UNCHANGED <<cur, live, made, pc, waiting, starting, stopped>>
          /\ UNCHANGED <<workers, bound, greeted, served, draining, reports>>
      BY <1>0, <2>17, AnyDelivery DEF DeliverNth, durable, queue, units
    <3>2. CASE q # p
      <4>1. tail'[q] = tail[q] /\ undelivered'[q] = undelivered[q]
        BY <1>0, <2>17, <3>2, DeliverFacts
      <4>2. Same(q)
        BY <3>1, <4>1 DEF Same, Asked, InQueue, Reported
      <4> QED BY <2>4, <3>1, <4>2
    <3>3. CASE q = p
      <4>1. ~LeavesStopBehind(q)
        BY <2>1 DEF GoesAstray
      <4> QED BY <1>0, <2>3, <2>17, <3>1, <3>3, <4>1, DeliveryCovers
    <3> QED BY <3>2, <3>3
  <2>18. ASSUME NEW p \in Procs, InputSpawns(p) PROVE Covered(q)'
    <3>1. /\ UNCHANGED <<cur, live, made, undelivered, tail, pc, stopped>>
          /\ UNCHANGED <<workers, greeted, served, draining, reports>>
          /\ p \notin workers /\ cur[p] \in Starts
      BY <1>0, <2>18 DEF InputSpawns, durable, effects, unitsButBound, TypeOK
    <3>2. EnterIsLast(q)' <=> EnterIsLast(q)
      BY <3>1 DEF EnterIsLast
    <3>3. CASE Launch(p) /\ UNCHANGED waiting
      <4>1. /\ bound'[p] = cur[p] /\ starting' = starting \cup {p}
            /\ \A x \in Procs : x # p => bound'[x] = bound[x]
        BY <1>0, <3>3 DEF Launch, TypeOK
      <4>2. q # p => Same(q)
        BY <3>1, <3>3, <4>1 DEF Same, Asked, InQueue, Reported
      <4>3. q = p => (Covered(q) => Covered(q)')
        BY <3>1, <3>2, <4>1 DEF Covered, Stale, Held, Apart
      <4> QED BY <2>3, <2>4, <3>1, <4>2, <4>3
    <3>4. CASE p \notin starting /\ waiting' = MapSet(p, cur[p]) /\ UNCHANGED <<starting, bound>>
      <4>1. PICK n \in Starts : n = cur[p]
        BY <3>1
      <4>2. /\ InQueue([p |-> p, s |-> n])'
            /\ \A e \in Entry : InQueue(e) /\ e.p # p => InQueue(e)'
        BY <1>0, <3>4, <4>1, SetFacts
      <4>3. Asked(p)'
        BY <3>1, <4>1, <4>2 DEF Asked, InQueue
      <4>4. q # p => (Asked(q) => Asked(q)')
        BY <1>0, <3>1, <4>2, AskedKeeps
      <4>5. q # p => Same(q)
        BY <3>1, <3>4, <4>4 DEF Same, Reported
      <4>6. q = p => (Covered(q) => Covered(q)')
        BY <3>1, <3>2, <3>4, <4>3 DEF Covered, Stale, Held, Apart
      <4> QED BY <2>3, <2>4, <3>1, <4>5, <4>6
    <3> QED BY <2>18, <3>3, <3>4 DEF InputSpawns
  <2>19. ASSUME NEW p \in Procs, NEW s, NEW w \in BOOLEAN, NEW k \in EffectKinds, Commit(p, s, w, k),
                w => k = "enter" /\ s # 0, q # p => made'[q] = made[q],
                q # p => (Reported(q) => [p |-> q, s |-> cur[q]] \in reports'),
                UNCHANGED <<tail, pc, queue, workers, bound, greeted, served, draining>>
         PROVE  Covered(q)'
    <3>1. UNCHANGED <<tail, pc, waiting, starting, stopped, workers, bound, greeted, served, draining>>
      BY <2>19 DEF queue
    <3>2. /\ undelivered'[p] # <<>> /\ cur'[p] = s /\ live'[p] = w
          /\ \A x \in Procs : x # p => cur'[x] = cur[x] /\ live'[x] = live[x] /\ undelivered'[x] = undelivered[x]
          /\ k = "enter" => EnterIsLast(p)'
      BY <1>0, <2>19, CommitFacts
    <3>3. CASE q # p
      <4>1. Same(q)
        BY <2>19, <3>1, <3>2, <3>3 DEF Same, Asked, InQueue, Reported
      <4>2. ~stopped /\ live[q] /\ made'[q] = made[q]
        BY <2>19, <3>1, <3>2, <3>3
      <4> QED BY <2>2, <4>1, <4>2, SameKeeps
    <3>4. CASE q = p
      <4>1. w
        BY <3>2, <3>4
      <4> QED BY <2>19, <3>2, <3>4, <4>1 DEF Covered, Replaced, More, Idle
    <3> QED BY <3>3, <3>4
  <2>20. ASSUME NEW p \in Procs, CommitStart(p) PROVE Covered(q)'
    <3>1. made[p] + 1 # 0 /\ (q # p => made'[q] = made[q])
      BY <1>0, <2>20 DEF CommitStart, TypeOK, Starts
    <3>2. Commit(p, made[p] + 1, TRUE, "enter") /\ UNCHANGED <<tail, pc, queue, units>>
      BY <2>20 DEF CommitStart
    <3> QED BY <2>19, <3>1, <3>2 DEF units, EffectKinds, Reported
  <2>21. ASSUME NEW p \in Procs, CommitLeave(p) \/ CommitAbort(p) \/ CommitInterrupt(p)
         PROVE  Covered(q)'
    <3>1. made' = made /\ UNCHANGED <<tail, pc, queue, units>>
      BY <2>21 DEF CommitLeave, CommitAbort, CommitInterrupt
    <3>2. \E s : \E k \in EffectKinds : Commit(p, s, FALSE, k)
      <4>1. CASE CommitLeave(p)
        BY <4>1 DEF CommitLeave, EffectKinds
      <4>2. CASE CommitAbort(p)
        BY <4>2 DEF CommitAbort, EffectKinds
      <4>3. CASE CommitInterrupt(p)
        BY <4>3 DEF CommitInterrupt, EffectKinds
      <4> QED BY <2>21, <4>1, <4>2, <4>3
    <3> QED BY <2>19, <3>1, <3>2 DEF units, Reported
  <2>22. ASSUME NEW e \in reports, CommitFailure(e) PROVE Covered(q)'
    <3>1. /\ UNCHANGED <<made, tail, pc, queue, workers, bound, greeted, served, draining>>
          /\ reports' = reports \ {e} /\ e.p \in Procs
      BY <1>0, <2>22 DEF CommitFailure, TypeOK, Entry
    <3>2. CASE Commit(e.p, cur[e.p], FALSE, "stop")
      <4>1. q # e.p => (Reported(q) => [p |-> q, s |-> cur[q]] \in reports')
        BY <3>1 DEF Reported
      <4> QED BY <2>19, <3>1, <3>2, <4>1 DEF EffectKinds
    <3>3. CASE ~isCurrent(e) /\ UNCHANGED <<cur, live, accepted, undelivered>>
      <4>1. UNCHANGED <<waiting, starting, stopped>>
        BY <3>1 DEF queue
      <4>2. [p |-> q, s |-> cur[q]] # e
        BY <3>3 DEF isCurrent
      <4>3. Same(q)
        BY <3>1, <3>3, <4>1, <4>2 DEF Same, Asked, InQueue, Reported
      <4> QED BY <2>4, <3>1, <3>3, <4>1, <4>3
    <3> QED BY <2>22, <3>2, <3>3 DEF CommitFailure
  <2> QED
    BY <2>1, <2>6, <2>7, <2>8, <2>9, <2>10, <2>11, <2>12, <2>13, <2>14, <2>15, <2>16, <2>17,
       <2>18, <2>20, <2>21, <2>22
    DEF Next, Usual, Unusual, Sweep, RunEffects, RunUnit
<1> QED BY <1>1, <1>2

\* An active worker start is never orphaned, for any processes, limit and number
\* of mishaps, but for the starts the four defects hit.
THEOREM ServedTheorem == HistorySpec => []ActiveStartIsServed
<1>1. HistoryInit => Init /\ Apart /\ StartsAreCovered
  <2> SUFFICES ASSUME HistoryInit PROVE Init /\ Apart /\ StartsAreCovered
    OBVIOUS
  <2>1. Init /\ Apart
    BY DEF HistoryInit, Init, Apart
  <2>2. \A p \in Procs : ~live[p]
    BY DEF HistoryInit, Init
  <2> QED BY <2>1, <2>2 DEF StartsAreCovered
<1>2. [HistoryNext]_historyVars => [Next]_vars
  <2>1. HistoryNext => Next
    BY DEF HistoryNext, Next
  <2>2. UNCHANGED historyVars => UNCHANGED vars
    BY DEF historyVars
  <2> QED BY <2>1, <2>2
<1>3. IInv /\ Apart /\ StartsAreCovered => ActiveStartIsServed
  <2> SUFFICES ASSUME IInv, Apart, StartsAreCovered, ~stopped, NEW p \in Procs, p \notin astray, live[p]
               PROVE  Served(p)
    BY DEF ActiveStartIsServed
  <2>1. TypeOK /\ Covered(p)
    BY DEF IInv, StartsAreCovered
  <2>2. /\ tail[p] \in Seq(EffectKinds) /\ undelivered[p] \in Seq(EffectKinds)
        /\ Len(tail[p]) \in Nat /\ Len(undelivered[p]) \in Nat
    BY <2>1, ReactionTypes
  <2>3. CASE Idle(p)
    <3>1. ~Replaced(p)
      BY <2>3 DEF Idle, Replaced, More
    <3> QED BY <2>1, <2>3, <3>1 DEF Covered, Stale, Held, Served, Reported, Asked, InQueue
  <2>4. CASE ~Idle(p)
    <3>1. \A s \in Seq(EffectKinds) : s # <<>> => Len(s) \in 1..Len(s)
      OBVIOUS
    <3>2. HasEffect(p, {"enter"})
      BY <2>1, <2>2, <2>4, <3>1 DEF Covered, EnterIsLast, Idle, HasEffect
    <3> QED BY <3>2 DEF Served
  <2> QED BY <2>3, <2>4
<1>4. HistorySpec => []IInv
  <2>1. HistorySpec => Spec
    BY <1>1, <1>2, PTL DEF HistorySpec, Spec
  <2> QED BY <2>1, Invariance, PTL
<1> QED BY <1>1, <1>2, <1>3, <1>4, ApartStep, CoveredStep, PTL DEF HistorySpec
=============================================================================
