----------------------------- MODULE ComponentProofs ------------------------
(***************************************************************************)
(* Theorems about WorkerUnits, GatedTurns and ModelBlocks, for every value *)
(* of their constants.  The three components share neither state nor       *)
(* definitions: each has a part of this module, its theorems at the end.   *)
(***************************************************************************)
EXTENDS WorkerUnits, GatedTurns, ModelBlocks, FiniteSetTheorems, TLAPS

-----------------------------------------------------------------------------
(***************************************************************************)
(* 1. WorkerUnits                                                          *)
(***************************************************************************)
UnitStates == {"none", "running", "dead", "removed"}
LeaseType == [unit : 0..MaxUnits, state : LeaseStates]
LoopType == [on : BOOLEAN, refs : SUBSET Units, cur : 0..MaxUnits]

\* UnitsTypeOK without the bound on attempts, in three parts.
DurableType ==
  /\ unit \in [Units -> UnitStates] /\ lease \in LeaseType
  /\ proc \in {"active", "error"} /\ fits \in BOOLEAN /\ restarts \in 0..MaxRestarts
  /\ mishaps \subseteq {"broken", "early", "unanswered"}

ReclaimerType ==
  /\ pending \subseteq Units /\ backlog \subseteq Units /\ notify \subseteq Units
  /\ tries \in [Units -> Nat] /\ loop \in LoopType

SupervisorType ==
  /\ asked \in {"no", "yes", "stopping"}
  /\ phase \in {"booting", "adopting", "reconciling", "serving"}
  /\ starting \in 0..MaxUnits /\ handle \in 0..MaxUnits /\ adopting \in 0..MaxUnits
  /\ watched \subseteq Units /\ killed \subseteq Units
  /\ listed \subseteq Units /\ failed \subseteq Units

AwaitedType == awaited \in BOOLEAN

UnitsTypes == AwaitedType /\ DurableType /\ ReclaimerType /\ SupervisorType

\* A unit that was not yet started is known to nobody.
Unknown(u) ==
  /\ unit[u] = "none" /\ tries[u] = 0
  /\ u \notin watched /\ u \notin killed /\ u \notin pending /\ u \notin backlog
  /\ u \notin notify /\ u \notin listed /\ u \notin failed /\ u \notin loop.refs
  /\ u # handle /\ u # adopting /\ u # loop.cur

FreshUnits ==
  /\ starting \in {None, lease.unit}
  /\ \A u \in Units : u > lease.unit \/ u = starting => Unknown(u)

\* A removal under way is tried, or waits in the backlog of a running loop.
Removals ==
  /\ FailedRemovalIsRetried
  /\ notify \subseteq pending
  /\ loop.cur # None => loop.on

\* Attempts to remove a unit, made or still to come when it exits.
Debt(u) == tries[u] + IF u \in watched THEN 1 ELSE 0

\* One attempt follows the exit, one the adoption that failed.
Debts ==
  /\ \A u \in Units : Debt(u) <= IF phase \in {"booting", "adopting"} THEN 1 ELSE 2
  /\ adopting # None => Debt(adopting) = 0 /\ lease.unit \notin listed /\ adopting \notin listed
  /\ phase # "adopting" => listed = {} /\ failed = {} /\ adopting = None

\* Adoption has yet to come to the worker of the lease.
Ahead == phase = "booting" \/ (lease.unit \in listed /\ lease.state \notin {"absent", "failed", "exited"})

\* Exits that are observed or finalized are those of the attached worker, and
\* the attached worker is that of the lease.
Attached ==
  /\ watched \subseteq {handle} /\ notify \subseteq {handle} /\ watched \cap notify = {}
  /\ handle \in {None, lease.unit}

Attachment ==
  /\ Ahead \/ mishaps = {} => Attached
  /\ Ahead /\ lease.state \notin {"absent", "failed", "exited"} /\ lease.unit # None
       => handle = lease.unit \/ Debt(lease.unit) = 0

\* Where a unit that runs is known: attached, being removed, or to be adopted.
Placed(u) ==
  \/ u = handle \/ u \in pending
  \/ phase = "booting" \/ u \in listed \/ u \in failed \/ u = adopting

\* Without mishap, one unit at most runs or is about to.
Order ==
  mishaps = {} =>
    /\ asked # "no" => phase = "serving"
    /\ starting # None => phase = "serving" /\ handle = None
    /\ adopting # None => adopting = lease.unit /\ handle = None
    /\ \A u \in Units : unit[u] = "running" => Placed(u) /\ starting = None
    /\ \A u, v \in Units : unit[u] = "running" /\ unit[v] = "running" => u = v

UnitsIInv == UnitsTypes /\ FreshUnits /\ Removals /\ Debts /\ Attachment /\ Order

-----------------------------------------------------------------------------
(* The invariant at the start, and what it implies *)

\* Initial states satisfy the invariant.
LEMMA UnitsInitIInv == UnitsInit => UnitsIInv
<1> SUFFICES ASSUME UnitsInit PROVE UnitsIInv
    OBVIOUS
<1>1. UnitsTypes
  <2>1. AwaitedType
      BY Zenon DEF UnitsInit, AwaitedType
  <2>2. DurableType
      BY UnitsAssumption DEF UnitsInit, DurableType, UnitStates, LeaseType, LeaseStates, None
  <2>3. loop \in LoopType
      BY UnitsAssumption DEF UnitsInit, LoopType, Off, None
  <2>4. ReclaimerType /\ SupervisorType
      BY <2>3, UnitsAssumption DEF UnitsInit, ReclaimerType, SupervisorType, None
  <2> QED BY <2>1, <2>2, <2>4 DEF UnitsTypes
<1>2. FreshUnits /\ Removals
    BY DEF UnitsInit, FreshUnits, Unknown, Removals, FailedRemovalIsRetried, Off, None, Units
<1>3. Debts /\ Attachment
    BY DEF UnitsInit, Debts, Debt, Attachment, Ahead, Attached, None
<1>4. Order
    BY DEF UnitsInit, Order, None
<1> QED BY <1>1, <1>2, <1>3, <1>4 DEF UnitsIInv

\* The invariant implies what the run checks.
LEMMA UnitsFacts == UnitsIInv => UnitsInvariant
<1> SUFFICES ASSUME UnitsIInv PROVE UnitsInvariant
    OBVIOUS
<1>1. tries \in [Units -> 0..2]
    BY DEF UnitsIInv, UnitsTypes, ReclaimerType, Debts, Debt
<1>2. {fits, awaited} \subseteq BOOLEAN
    BY DEF UnitsIInv, UnitsTypes, DurableType, AwaitedType
<1>3. {starting, handle, adopting} \subseteq 0..MaxUnits
    BY DEF UnitsIInv, UnitsTypes, SupervisorType
<1>4. UNION {watched, killed, pending, backlog, notify, listed, failed} \subseteq Units
    BY DEF UnitsIInv, UnitsTypes, ReclaimerType, SupervisorType
<1>5. UnitsTypeOK
    BY <1>1, <1>2, <1>3, <1>4
    DEF UnitsIInv, UnitsTypes, DurableType, ReclaimerType, SupervisorType, UnitsTypeOK, UnitStates,
        LeaseType, LoopType
<1>6. OneRunningUnit
    BY DEF UnitsIInv, Order, OneRunningUnit
<1>7. FailedRemovalIsRetried
    BY DEF UnitsIInv, Removals
<1> QED BY <1>5, <1>6, <1>7 DEF UnitsInvariant

-----------------------------------------------------------------------------
(* Facts about the lease *)

\* An observation leads to a state of the lease.
LEMMA ObservedType == \A s \in LeaseStates : \A o : Observed(s, o) \in LeaseStates
  BY DEF Observed, Applies

\* A stop that is asked for does not revive a lease that is over.
LEMMA StopKeepsGone ==
  \A s \in {"absent", "failed", "exited"} : Observed(s, "stop_requested") = s
<1> SUFFICES ASSUME NEW s \in {"absent", "failed", "exited"}, Applies(s, "stop_requested") PROVE FALSE
    BY DEF Observed
<1>1. PICK to \in LeaseStates : <<s, "stop_requested", to>> \in LeaseTransitions
    BY DEF Applies
<1>2. \E t \in Serving : <<s, "stop_requested", to>> = <<t, "stop_requested", "draining">>
    BY <1>1 DEF LeaseTransitions, From
<1> QED BY <1>2 DEF Serving

\* Fail gives up the worker of the lease, or does nothing.
LEMMA FailFacts ==
  ASSUME DurableType, NEW u, Fail(u)
  PROVE  /\ lease' \in LeaseType /\ proc' \in {"active", "error"}
         /\ lease'.unit = lease.unit
         /\ lease'.state \in {lease.state, "failed"}
  BY DEF DurableType, Fail, LeaseType, LeaseStates

\* HandleProcessExit ends the lease of the worker that exited, and no other.
LEMMA ExitFacts ==
  ASSUME DurableType, NEW u, HandleProcessExit(u)
  PROVE  /\ lease' \in LeaseType /\ proc' \in {"active", "error"}
         /\ lease'.unit = lease.unit
         /\ lease.unit = u => lease'.state = "exited"
         /\ lease.unit # u => lease'.state = lease.state
         /\ handle' = None /\ awaited' = FALSE
  BY DEF DurableType, HandleProcessExit, LeaseType, LeaseStates

\* Reclaimed removes one unit, and finalizes its exit when that was observed.
LEMMA ReclaimedFacts ==
  ASSUME DurableType, NEW u \in Units, Reclaimed(u)
  PROVE  /\ unit'[u] = "removed" /\ \A v \in Units : v # u => unit'[v] = unit[v]
         /\ backlog' = backlog \ {u} /\ pending' = pending \ {u} /\ notify' = notify \ {u}
         /\ lease'.unit = lease.unit
         /\ u \in notify => /\ handle' = None
                            /\ lease'.state = IF lease.unit = u THEN "exited" ELSE lease.state
         /\ u \notin notify => handle' = handle /\ lease' = lease
<1>1. unit'[u] = "removed" /\ \A v \in Units : v # u => unit'[v] = unit[v]
    BY DEF Reclaimed, DurableType
<1>2. CASE u \in notify
    BY <1>1, <1>2, ExitFacts DEF Reclaimed
<1>3. CASE u \notin notify
    BY <1>1, <1>3 DEF Reclaimed
<1> QED BY <1>2, <1>3

\* The types of the durable state are kept.
LEMMA DurableTypeKept ==
  ASSUME UnitsIInv, UnitsNext
  PROVE  DurableType'
<1>1. ASSUME NEW u \in Units, AttemptFails(u) \/ ExitObserved(u) \/ Visit(u) PROVE DurableType'
    BY <1>1 DEF AttemptFails, ExitObserved, Visit, EnsureLoop, Off, Attempt, Stale, UnitsIInv, UnitsTypes,
       DurableType, LeaseType, durable, reclaimer, adoption, supervisor
<1>2. CASE LoopWakes \/ LoopAttempts \/ LoopFails \/ SpawnRefused \/ ListUnits \/ AdoptSucceeds \/
          AdoptFails \/ FinishAdoption
    BY <1>2 DEF LoopWakes, LoopAttempts, LoopFails, SpawnRefused, ListUnits, AdoptSucceeds,
       AdoptFails, FinishAdoption, Off, Exists, Attempt, UnitsIInv, UnitsTypes, DurableType, LeaseType,
       durable, reclaimer, adoption, supervisor
<1>3. ASSUME NEW u \in Units, AttemptSucceeds(u) PROVE DurableType'
    BY <1>3, ExitFacts DEF AttemptSucceeds, Reclaimed, UnitsIInv, UnitsTypes, DurableType, LeaseType,
       UnitStates
<1>4. CASE LoopSucceeds
    BY <1>4, ExitFacts DEF LoopSucceeds, Reclaimed, UnitsIInv, UnitsTypes, DurableType, LeaseType, UnitStates
<1>5. ASSUME NEW u \in Units, UnitDies(u) \/ KillCompletes(u) PROVE DurableType'
    BY <1>5 DEF UnitDies, KillCompletes, UnitsIInv, UnitsTypes, DurableType, LeaseType, UnitStates, reclaimer,
       adoption, supervisor
<1>6. ASSUME NEW u \in Units, KillFails(u) PROVE DurableType'
    BY <1>6, FailFacts DEF KillFails, UnitsIInv, UnitsTypes, DurableType, LeaseType, reclaimer, adoption
<1>7. CASE WorkerGivenUp \/ AdoptBreaks \/ AdoptionTimesOut
    BY <1>7, FailFacts DEF WorkerGivenUp, AdoptBreaks, AdoptionTimesOut, Kill, UnitsIInv, UnitsTypes,
       DurableType, LeaseType, reclaimer, adoption
<1>8. CASE Retry
    BY <1>8 DEF Retry, UnitsIInv, UnitsTypes, DurableType, LeaseType, reclaimer, adoption
<1>9. CASE StopForRestart \/ ReconcileOnStartup
    BY <1>9, ObservedType DEF StopForRestart, ReconcileOnStartup, Kill, UnitsIInv, UnitsTypes, DurableType,
       LeaseType, reclaimer, adoption
<1>10. CASE Spawn
    BY <1>10, UnitsAssumption DEF Spawn, UnitsIInv, UnitsTypes, DurableType, LeaseType, SupervisorType,
       LeaseStates, reclaimer, adoption
<1>11. CASE StartSucceeds \/ StartFails
    BY <1>11 DEF StartSucceeds, StartFails, UnitsIInv, UnitsTypes, DurableType, LeaseType, UnitStates,
       LeaseStates, SupervisorType, reclaimer, adoption
<1>12. CASE WorkerReports
    BY <1>12 DEF WorkerReports, Serving, UnitsIInv, UnitsTypes, DurableType, LeaseType, LeaseStates,
       reclaimer, supervisor
<1>13. CASE Restart
  <2>1. PICK rise \in BOOLEAN, gone \in SUBSET (killed \cup {u \in Units : tries[u] > 0}) :
          unit' = [u \in Units |-> IF u = starting /\ rise THEN "running"
                                  ELSE IF u \in gone THEN "removed" ELSE unit[u]]
      BY <1>13 DEF Restart
  <2>2. unit' \in [Units -> UnitStates]
      BY <2>1 DEF UnitsIInv, UnitsTypes, DurableType, UnitStates
  <2>3. restarts' \in 0..MaxRestarts /\ UNCHANGED <<lease, proc, mishaps>> /\ fits' \in BOOLEAN
      BY <1>13, UnitsAssumption DEF Restart, UnitsIInv, UnitsTypes, DurableType
  <2> QED BY <2>2, <2>3 DEF UnitsIInv, UnitsTypes, DurableType
<1> QED BY <1>1, <1>2, <1>3, <1>4, <1>5, <1>6, <1>7, <1>8, <1>9, <1>10, <1>11, <1>12, <1>13 DEF
       UnitsNext, ReclaimerStep, StartupStep

\* The types of the maps of the reclaimer are kept.
LEMMA ReclaimerTypeKept ==
  ASSUME UnitsIInv, UnitsNext
  PROVE  ReclaimerType'
<1>1. ASSUME NEW u \in Units, UnitDies(u) \/ KillCompletes(u) \/ KillFails(u) \/ Visit(u) PROVE
          ReclaimerType'
    BY <1>1 DEF UnitDies, KillCompletes, KillFails, Visit, Stale, UnitsIInv, UnitsTypes, ReclaimerType,
       durable, reclaimer, adoption, supervisor
<1>2. CASE WorkerGivenUp \/ Retry \/ StopForRestart \/ Spawn \/ SpawnRefused \/ StartSucceeds \/
          StartFails \/ WorkerReports \/ ListUnits \/ AdoptSucceeds \/ AdoptBreaks \/ AdoptFails \/
          AdoptionTimesOut \/ ReconcileOnStartup
    BY <1>2 DEF WorkerGivenUp, Retry, StopForRestart, Spawn, SpawnRefused, StartSucceeds,
       StartFails, WorkerReports, ListUnits, AdoptSucceeds, AdoptBreaks, AdoptFails,
       AdoptionTimesOut, ReconcileOnStartup, Kill, Serving, Exists, UnitsIInv, UnitsTypes, ReclaimerType,
       durable, reclaimer, adoption, supervisor
<1>3. ASSUME NEW u \in Units, AttemptSucceeds(u) PROVE ReclaimerType'
    BY <1>3 DEF AttemptSucceeds, Reclaimed, UnitsIInv, UnitsTypes, ReclaimerType
<1>4. ASSUME NEW u \in Units, AttemptFails(u) PROVE ReclaimerType'
  <2>1. loop' = loop \/ loop' = [on |-> TRUE, refs |-> {}, cur |-> None]
      BY <1>4 DEF AttemptFails, EnsureLoop, Off
  <2>2. [on |-> TRUE, refs |-> {}, cur |-> None] \in LoopType
      BY UnitsAssumption DEF LoopType, None
  <2>3. loop' \in LoopType
      BY <2>1, <2>2 DEF UnitsIInv, UnitsTypes, ReclaimerType
  <2> QED BY <1>4, <2>3 DEF AttemptFails, UnitsIInv, UnitsTypes, ReclaimerType
<1>5. ASSUME NEW u \in Units, ExitObserved(u) PROVE ReclaimerType'
    BY <1>5 DEF ExitObserved, Attempt, UnitsIInv, UnitsTypes, ReclaimerType, durable, adoption
<1>6. CASE LoopWakes
  <2>1. loop' \in LoopType
      BY <1>6, UnitsAssumption DEF LoopWakes, UnitsIInv, UnitsTypes, ReclaimerType, LoopType, Off, None
  <2> QED BY <1>6, <2>1 DEF LoopWakes, UnitsIInv, UnitsTypes, ReclaimerType
<1>7. CASE LoopAttempts
  <2>1. PICK u \in loop.refs : /\ loop' = [loop EXCEPT !.refs = loop.refs \ {u}, !.cur = u]
                               /\ pending' = pending \cup {u}
      BY <1>7 DEF LoopAttempts
  <2>2. loop.refs \subseteq Units /\ loop \in LoopType
      BY DEF UnitsIInv, UnitsTypes, ReclaimerType, LoopType
  <2>3. u \in Units /\ u \in 0..MaxUnits /\ (loop.refs \ {u}) \in SUBSET Units
      BY <2>2, UnitsAssumption DEF Units
  <2>4. loop' \in LoopType
      BY <2>1, <2>2, <2>3 DEF LoopType
  <2> QED BY <1>7, <2>1, <2>3, <2>4 DEF LoopAttempts, UnitsIInv, UnitsTypes, ReclaimerType
<1>8. CASE LoopSucceeds \/ LoopFails
    BY <1>8, UnitsAssumption DEF LoopSucceeds, LoopFails, Reclaimed, UnitsIInv, UnitsTypes, ReclaimerType,
       LoopType, None, Units, durable, adoption, supervisor
<1>9. CASE Restart
    BY <1>9, UnitsAssumption DEF Restart, UnitsIInv, UnitsTypes, ReclaimerType, LoopType, Off, None
<1>10. CASE FinishAdoption
    BY <1>10 DEF FinishAdoption, Attempt, UnitsIInv, UnitsTypes, ReclaimerType, SupervisorType, durable
<1> QED BY <1>1, <1>2, <1>3, <1>4, <1>5, <1>6, <1>7, <1>8, <1>9, <1>10 DEF UnitsNext, ReclaimerStep,
       StartupStep

\* The types of the state of the supervisor and of the adoption are kept.
LEMMA SupervisorTypeKept ==
  ASSUME UnitsIInv, UnitsNext
  PROVE  SupervisorType'
<1>1. ASSUME NEW u \in Units, AttemptFails(u) \/ UnitDies(u) \/ ExitObserved(u) \/ KillCompletes(u)
          \/ KillFails(u) PROVE SupervisorType'
    BY <1>1 DEF AttemptFails, UnitDies, ExitObserved, KillCompletes, KillFails, EnsureLoop, Off,
       Attempt, UnitsIInv, UnitsTypes, SupervisorType, durable, reclaimer, adoption, supervisor
<1>2. CASE LoopWakes \/ LoopAttempts \/ LoopFails \/ Retry \/ SpawnRefused \/ FinishAdoption \/
          ListUnits \/ ReconcileOnStartup
    BY <1>2 DEF LoopWakes, LoopAttempts, LoopFails, Retry, SpawnRefused, FinishAdoption, ListUnits,
       ReconcileOnStartup, Off, Attempt, Exists, UnitsIInv, UnitsTypes, SupervisorType, durable, reclaimer,
       adoption, supervisor
<1>3. ASSUME NEW u \in Units, AttemptSucceeds(u) PROVE SupervisorType'
    BY <1>3, UnitsAssumption DEF AttemptSucceeds, Reclaimed, UnitsIInv, UnitsTypes, SupervisorType,
       HandleProcessExit, None
<1>4. CASE LoopSucceeds
    BY <1>4, UnitsAssumption DEF LoopSucceeds, Reclaimed, UnitsIInv, UnitsTypes, SupervisorType,
       HandleProcessExit, None
<1>5. CASE WorkerGivenUp \/ StopForRestart
    BY <1>5, UnitsAssumption DEF WorkerGivenUp, StopForRestart, Kill, UnitsIInv, UnitsTypes, SupervisorType,
       None, Units, reclaimer, adoption
<1>6. CASE Spawn
    BY <1>6, UnitsAssumption DEF Spawn, UnitsIInv, UnitsTypes, SupervisorType, DurableType, LeaseType,
       reclaimer, adoption
<1>7. CASE StartSucceeds \/ StartFails
    BY <1>7, UnitsAssumption DEF StartSucceeds, StartFails, UnitsIInv, UnitsTypes, SupervisorType, None,
       Units, reclaimer, adoption
<1>8. CASE WorkerReports \/ Restart
    BY <1>8, UnitsAssumption DEF WorkerReports, Restart, Serving, UnitsIInv, UnitsTypes, SupervisorType, None,
       reclaimer, supervisor
<1>9. ASSUME NEW u \in Units, Visit(u) PROVE SupervisorType'
  <2>1. u \in 0..MaxUnits
      BY UnitsAssumption DEF Units
  <2>2. failed' \subseteq Units /\ adopting' \in 0..MaxUnits /\ listed' \subseteq Units
      BY <1>9, <2>1 DEF Visit, UnitsIInv, UnitsTypes, SupervisorType
  <2> QED BY <1>9, <2>2 DEF Visit, UnitsIInv, UnitsTypes, SupervisorType, supervisor
<1>10. CASE AdoptSucceeds \/ AdoptBreaks \/ AdoptFails
  <2>1. adopting \in Units /\ None \in 0..MaxUnits
      BY <1>10, UnitsAssumption DEF AdoptSucceeds, AdoptBreaks, AdoptFails, UnitsIInv, UnitsTypes, SupervisorType, None, Units
  <2> QED BY <1>10, <2>1 DEF AdoptSucceeds, AdoptBreaks, AdoptFails, UnitsIInv, UnitsTypes, SupervisorType, supervisor
<1>11. CASE AdoptionTimesOut
  <2>1. handle \in Units /\ handle' \in {handle, None} /\ killed' \subseteq killed \cup {handle}
      BY <1>11, UnitsAssumption DEF AdoptionTimesOut, Kill, UnitsIInv, UnitsTypes, SupervisorType, None, Units
  <2>2. None \in 0..MaxUnits /\ UNCHANGED <<asked, phase, starting, adopting, watched, listed, failed>>
      BY <1>11, UnitsAssumption DEF AdoptionTimesOut, None
  <2> QED BY <2>1, <2>2 DEF UnitsIInv, UnitsTypes, SupervisorType
<1> QED BY <1>1, <1>2, <1>3, <1>4, <1>5, <1>6, <1>7, <1>8, <1>9, <1>10, <1>11 DEF UnitsNext,
       ReclaimerStep, StartupStep

\* The flag of an adopted worker is a truth value.
LEMMA AwaitedTypeKept == AwaitedType /\ UnitsNext => AwaitedType'
<1> SUFFICES ASSUME AwaitedType, UnitsNext PROVE awaited' = awaited \/ awaited' = TRUE \/ awaited' = FALSE
    BY Zenon DEF AwaitedType
<1> QED BY DEF UnitsNext, ReclaimerStep, StartupStep, AttemptSucceeds, AttemptFails, LoopWakes,
               LoopAttempts, LoopSucceeds, LoopFails, ListUnits, Visit, AdoptSucceeds, AdoptBreaks,
               AdoptFails, FinishAdoption, ReconcileOnStartup, UnitDies, ExitObserved,
               KillCompletes, KillFails, WorkerGivenUp, Retry, StopForRestart, Spawn, SpawnRefused,
               StartSucceeds, StartFails, WorkerReports, Restart, AdoptionTimesOut, Reclaimed,
               HandleProcessExit, adoption

\* Nobody learns of a unit before it is started.
LEMMA FreshUnitsKept ==
  ASSUME UnitsIInv, UnitsNext
  PROVE  FreshUnits'
<1>1. ASSUME NEW u \in Units, UnitDies(u) \/ KillCompletes(u) PROVE FreshUnits'
    BY <1>1 DEF UnitDies, KillCompletes, UnitsIInv, FreshUnits, Unknown, UnitsTypes, DurableType, reclaimer,
       adoption, supervisor
<1>2. ASSUME NEW u \in Units, KillFails(u) PROVE FreshUnits'
    BY <1>2, FailFacts DEF KillFails, UnitsIInv, FreshUnits, Unknown, UnitsTypes, reclaimer, adoption
<1>3. ASSUME NEW u \in Units, AttemptSucceeds(u) PROVE FreshUnits'
  <2>1. DurableType /\ Reclaimed(u) /\ tries[u] > 0 /\ tries' = [tries EXCEPT ![u] = tries[u] - 1]
      BY <1>3 DEF AttemptSucceeds, UnitsIInv, UnitsTypes
  <2>2. /\ \A v \in Units : v # u => unit'[v] = unit[v] /\ tries'[v] = tries[v]
        /\ handle' \in {handle, None} /\ lease'.unit = lease.unit
      BY <2>1, ReclaimedFacts DEF UnitsIInv, UnitsTypes, ReclaimerType
  <2>3. \A v \in Units : Unknown(v) => v # u
      BY <2>1 DEF Unknown
  <2>4. \A v \in Units : Unknown(v) => Unknown(v)'
      BY <1>3, <2>1, <2>2, <2>3 DEF AttemptSucceeds, Reclaimed, Unknown, None, Units
  <2> QED BY <1>3, <2>2, <2>4 DEF AttemptSucceeds, UnitsIInv, FreshUnits
<1>4. ASSUME NEW u \in Units, AttemptFails(u) PROVE FreshUnits'
    BY <1>4 DEF AttemptFails, EnsureLoop, Off, UnitsIInv, FreshUnits, Unknown, UnitsTypes, ReclaimerType,
       Units, None, durable, adoption, supervisor
<1>5. ASSUME NEW u \in Units, ExitObserved(u) PROVE FreshUnits'
    BY <1>5 DEF ExitObserved, Attempt, UnitsIInv, FreshUnits, Unknown, UnitsTypes, ReclaimerType, durable,
       adoption
<1>6. ASSUME NEW u \in Units, Visit(u) PROVE FreshUnits'
    BY <1>6 DEF Visit, Stale, UnitsIInv, FreshUnits, Unknown, durable, reclaimer, supervisor
<1>7. CASE LoopWakes
    BY <1>7 DEF LoopWakes, Off, UnitsIInv, FreshUnits, Unknown, Units, None, durable, adoption,
       supervisor
<1>8. CASE LoopAttempts
    BY <1>8 DEF LoopAttempts, UnitsIInv, FreshUnits, Unknown, Units, None, UnitsTypes, ReclaimerType,
       LoopType, durable, adoption, supervisor
<1>9. CASE LoopSucceeds
  <2>1. DurableType /\ loop.cur \in Units /\ Reclaimed(loop.cur) /\ loop' = [loop EXCEPT !.cur = None]
      BY <1>9, UnitsAssumption DEF LoopSucceeds, UnitsIInv, UnitsTypes, ReclaimerType, LoopType, Units, None
  <2>2. /\ \A v \in Units : v # loop.cur => unit'[v] = unit[v]
        /\ handle' \in {handle, None} /\ lease'.unit = lease.unit
        /\ backlog' \subseteq backlog /\ pending' \subseteq pending /\ notify' \subseteq notify
      BY <2>1, ReclaimedFacts
  <2>3. loop'.cur = None /\ loop'.refs = loop.refs
      BY <2>1 DEF UnitsIInv, UnitsTypes, ReclaimerType, LoopType
  <2>4. \A v \in Units : Unknown(v) => Unknown(v)'
      BY <1>9, <2>2, <2>3 DEF LoopSucceeds, Unknown, None, Units
  <2> QED BY <1>9, <2>2, <2>4 DEF LoopSucceeds, UnitsIInv, FreshUnits
<1>10. CASE LoopFails
    BY <1>10 DEF LoopFails, UnitsIInv, FreshUnits, Unknown, UnitsTypes, ReclaimerType, LoopType, Units, None,
       durable, adoption, supervisor
<1>11. CASE WorkerGivenUp
    BY <1>11, FailFacts DEF WorkerGivenUp, Kill, UnitsIInv, FreshUnits, Unknown, UnitsTypes, reclaimer,
       adoption
<1>12. CASE Retry \/ SpawnRefused \/ ListUnits
    BY <1>12 DEF Retry, SpawnRefused, ListUnits, Exists, UnitsIInv, FreshUnits, Unknown, durable,
       reclaimer, adoption
<1>13. CASE StopForRestart
    BY <1>13 DEF StopForRestart, Kill, UnitsIInv, FreshUnits, Unknown, UnitsTypes, DurableType, LeaseType,
       reclaimer, adoption
<1>14. CASE Spawn
    BY <1>14 DEF Spawn, UnitsIInv, FreshUnits, Unknown, UnitsTypes, DurableType, LeaseType, Units, None,
       reclaimer, adoption
<1>15. CASE StartSucceeds
    BY <1>15 DEF StartSucceeds, UnitsIInv, FreshUnits, Unknown, UnitsTypes, DurableType, LeaseType, Units,
       None, reclaimer, adoption
<1>16. CASE StartFails
  <2>1. lease'.unit = lease.unit /\ starting' = None /\ starting = lease.unit
      BY <1>16 DEF StartFails, UnitsIInv, UnitsTypes, DurableType, LeaseType, FreshUnits
  <2>2. \A u \in Units : u > lease.unit => unit'[u] = unit[u]
    <3>1. lease.unit \in Int /\ \A u \in Units : u \in Int /\ (u > lease.unit => u # lease.unit)
        BY DEF UnitsIInv, UnitsTypes, DurableType, LeaseType, Units
    <3>2. \E state : unit' = [unit EXCEPT ![lease.unit] = state]
        BY <1>16, <2>1 DEF StartFails
    <3>3. unit \in [Units -> UnitStates]
        BY DEF UnitsIInv, UnitsTypes, DurableType
    <3> QED BY <3>1, <3>2, <3>3
  <2> QED BY <1>16, <2>1, <2>2 DEF StartFails, UnitsIInv, FreshUnits, Unknown, None, Units, reclaimer, adoption
<1>17. CASE WorkerReports
    BY <1>17 DEF WorkerReports, Serving, UnitsIInv, FreshUnits, Unknown, UnitsTypes, DurableType, LeaseType,
       reclaimer, supervisor
<1>18. CASE Restart
    BY <1>18 DEF Restart, UnitsIInv, FreshUnits, Unknown, UnitsTypes, DurableType, ReclaimerType, Units, None,
       Off
<1>19. CASE AdoptSucceeds
    BY <1>19 DEF AdoptSucceeds, UnitsIInv, FreshUnits, Unknown, Units, None, durable, reclaimer
<1>20. CASE AdoptBreaks
    BY <1>20, FailFacts DEF AdoptBreaks, UnitsIInv, FreshUnits, Unknown, UnitsTypes, Units, None, reclaimer
<1>21. CASE AdoptFails
    BY <1>21 DEF AdoptFails, UnitsIInv, FreshUnits, Unknown, Units, None, durable, reclaimer, supervisor
<1>22. CASE FinishAdoption
    BY <1>22 DEF FinishAdoption, Attempt, UnitsIInv, FreshUnits, Unknown, UnitsTypes, ReclaimerType, durable
<1>23. CASE AdoptionTimesOut
    BY <1>23, FailFacts DEF AdoptionTimesOut, Kill, UnitsIInv, FreshUnits, Unknown, UnitsTypes, Units, None,
       reclaimer
<1>24. CASE ReconcileOnStartup
    BY <1>24 DEF ReconcileOnStartup, UnitsIInv, FreshUnits, Unknown, UnitsTypes, DurableType, LeaseType,
       reclaimer, adoption
<1> QED BY <1>1, <1>2, <1>3, <1>4, <1>5, <1>6, <1>7, <1>8, <1>9, <1>10, <1>11, <1>12, <1>13, <1>14,
       <1>15, <1>16, <1>17, <1>18, <1>19, <1>20, <1>21, <1>22, <1>23, <1>24 DEF UnitsNext,
       ReclaimerStep, StartupStep

\* No removal is forgotten.
LEMMA RemovalsKept ==
  ASSUME UnitsIInv, UnitsNext
  PROVE  Removals'
<1>1. ASSUME NEW u \in Units, UnitDies(u) \/ KillCompletes(u) \/ KillFails(u) \/ Visit(u) PROVE
          Removals'
    BY <1>1 DEF UnitDies, KillCompletes, KillFails, Visit, Stale, UnitsIInv, Removals,
       FailedRemovalIsRetried, durable, reclaimer, adoption, supervisor
<1>2. CASE WorkerGivenUp \/ Retry \/ StopForRestart \/ Spawn \/ SpawnRefused \/ StartSucceeds \/
          StartFails \/ WorkerReports \/ ListUnits \/ AdoptSucceeds \/ AdoptBreaks \/ AdoptFails \/
          AdoptionTimesOut \/ ReconcileOnStartup
    BY <1>2 DEF WorkerGivenUp, Retry, StopForRestart, Spawn, SpawnRefused, StartSucceeds,
       StartFails, WorkerReports, ListUnits, AdoptSucceeds, AdoptBreaks, AdoptFails,
       AdoptionTimesOut, ReconcileOnStartup, Kill, Serving, Exists, UnitsIInv, Removals,
       FailedRemovalIsRetried, durable, reclaimer, adoption, supervisor
<1>3. ASSUME NEW u \in Units, AttemptSucceeds(u) PROVE Removals'
    BY <1>3 DEF AttemptSucceeds, Reclaimed, UnitsIInv, Removals, FailedRemovalIsRetried, UnitsTypes,
       ReclaimerType
<1>4. ASSUME NEW u \in Units, AttemptFails(u) PROVE Removals'
    BY <1>4 DEF AttemptFails, EnsureLoop, Off, UnitsIInv, Removals, FailedRemovalIsRetried, UnitsTypes,
       ReclaimerType, None, durable, adoption, supervisor
<1>5. ASSUME NEW u \in Units, ExitObserved(u) PROVE Removals'
    BY <1>5 DEF ExitObserved, Attempt, UnitsIInv, Removals, FailedRemovalIsRetried, UnitsTypes, ReclaimerType,
       durable, adoption
<1>6. CASE LoopWakes
    BY <1>6 DEF LoopWakes, Off, UnitsIInv, Removals, FailedRemovalIsRetried, UnitsTypes, ReclaimerType,
       LoopType, None, durable, adoption, supervisor
<1>7. CASE LoopAttempts
  <2>1. PICK u \in loop.refs : /\ loop' = [loop EXCEPT !.refs = loop.refs \ {u}, !.cur = u]
                               /\ pending' = pending \cup {u}
      BY <1>7 DEF LoopAttempts
  <2>2. loop'.cur = u /\ loop'.on /\ loop.cur = None /\ loop'.on = loop.on
      BY <1>7, <2>1 DEF LoopAttempts, UnitsIInv, UnitsTypes, ReclaimerType, LoopType
  <2>3. \A v \in pending : tries[v] > 0 \/ (v \in backlog /\ loop.on)
    <3>1. \A v \in pending : v # None
        BY DEF UnitsIInv, UnitsTypes, ReclaimerType, None, Units
    <3> QED BY <2>2, <3>1 DEF UnitsIInv, Removals, FailedRemovalIsRetried
  <2> QED BY <1>7, <2>1, <2>2, <2>3 DEF LoopAttempts, UnitsIInv, Removals, FailedRemovalIsRetried
<1>8. CASE LoopSucceeds \/ LoopFails
    BY <1>8 DEF LoopSucceeds, LoopFails, Reclaimed, UnitsIInv, Removals, FailedRemovalIsRetried, UnitsTypes,
       ReclaimerType, LoopType, None, durable, adoption, supervisor
<1>9. CASE Restart
    BY <1>9 DEF Restart, UnitsIInv, Removals, FailedRemovalIsRetried, Off, None
<1>10. CASE FinishAdoption
    BY <1>10 DEF FinishAdoption, Attempt, UnitsIInv, Removals, FailedRemovalIsRetried, UnitsTypes,
       ReclaimerType, SupervisorType, durable
<1> QED BY <1>1, <1>2, <1>3, <1>4, <1>5, <1>6, <1>7, <1>8, <1>9, <1>10 DEF UnitsNext, ReclaimerStep,
       StartupStep

\* A unit has at most two attempts to remove it under way.
LEMMA DebtsKept ==
  ASSUME UnitsIInv, UnitsNext
  PROVE  Debts'
<1>1. ASSUME NEW u \in Units, UnitDies(u) \/ KillCompletes(u) PROVE Debts'
    BY <1>1 DEF UnitDies, KillCompletes, UnitsIInv, Debts, Debt, reclaimer, adoption, supervisor
<1>2. ASSUME NEW u \in Units, KillFails(u) PROVE Debts'
    BY <1>2, FailFacts DEF KillFails, UnitsIInv, Debts, Debt, UnitsTypes, reclaimer, adoption
<1>3. ASSUME NEW u \in Units, AttemptSucceeds(u) PROVE Debts'
  <2>1. DurableType /\ Reclaimed(u) /\ tries[u] > 0 /\ tries' = [tries EXCEPT ![u] = tries[u] - 1]
      BY <1>3 DEF AttemptSucceeds, UnitsIInv, UnitsTypes
  <2>2. lease'.unit = lease.unit
      BY <2>1, ReclaimedFacts
  <2>3. \A v \in Units : tries'[v] <= tries[v] /\ tries'[v] \in Nat /\ tries[v] \in Nat
      BY <2>1 DEF UnitsIInv, UnitsTypes, ReclaimerType
  <2>4. \A v \in Units : Debt(v)' <= Debt(v) /\ Debt(v)' \in Nat /\ Debt(v) \in Nat
      BY <1>3, <2>3 DEF AttemptSucceeds, Debt
  <2>5. UNCHANGED <<phase, adopting, listed, failed>> /\ (adopting # None => adopting \in Units)
      BY <1>3, UnitsAssumption DEF AttemptSucceeds, UnitsIInv, UnitsTypes, SupervisorType, None, Units
  <2>6. ASSUME adopting # None PROVE Debt(adopting)' = 0
    <3>1. Debt(adopting) = 0
        BY <2>6 DEF UnitsIInv, Debts
    <3> QED BY <2>4, <2>5, <2>6, <3>1 DEF Debt
  <2> QED BY <2>2, <2>4, <2>5, <2>6 DEF UnitsIInv, Debts
<1>4. ASSUME NEW u \in Units, AttemptFails(u) PROVE Debts'
    BY <1>4 DEF AttemptFails, EnsureLoop, Off, UnitsIInv, Debts, Debt, UnitsTypes, ReclaimerType, durable,
       adoption, supervisor
<1>5. ASSUME NEW u \in Units, ExitObserved(u) PROVE Debts'
  <2>1. tries' = [v \in Units |-> tries[v] + IF v \in {u} THEN 1 ELSE 0] /\ u \in watched /\ watched' = watched \ {u}
      BY <1>5 DEF ExitObserved, Attempt
  <2>2. \A v \in Units : Debt(v)' = Debt(v)
      BY <2>1 DEF UnitsIInv, UnitsTypes, ReclaimerType, Debt
  <2>3. adopting # None => adopting \in Units
      BY UnitsAssumption DEF UnitsIInv, UnitsTypes, SupervisorType, None, Units
  <2>4. UNCHANGED <<phase, adopting, listed, failed, lease>>
      BY <1>5 DEF ExitObserved, durable, adoption
  <2>5. adopting # None => Debt(adopting)' = 0
      BY <2>2, <2>3, <2>4 DEF UnitsIInv, Debts, Debt
  <2> QED BY <2>2, <2>4, <2>5 DEF UnitsIInv, Debts
<1>6. ASSUME NEW u \in Units, Visit(u) PROVE Debts'
    BY <1>6 DEF Visit, Stale, UnitsIInv, Debts, Debt, UnitsTypes, ReclaimerType, SupervisorType, Attachment,
       Ahead, Units, None, durable, reclaimer, supervisor
<1>7. CASE LoopWakes \/ LoopAttempts \/ LoopFails
    BY <1>7 DEF LoopWakes, LoopAttempts, LoopFails, Off, UnitsIInv, Debts, Debt, durable, adoption,
       supervisor
<1>8. CASE LoopSucceeds
    BY <1>8, ExitFacts DEF LoopSucceeds, Reclaimed, UnitsIInv, Debts, Debt, UnitsTypes
<1>9. CASE WorkerGivenUp
    BY <1>9, FailFacts DEF WorkerGivenUp, Kill, UnitsIInv, Debts, Debt, UnitsTypes, reclaimer, adoption
<1>10. CASE Retry \/ SpawnRefused \/ ListUnits
    BY <1>10 DEF Retry, SpawnRefused, ListUnits, Exists, UnitsIInv, Debts, Debt, durable, reclaimer,
       adoption
<1>11. CASE StopForRestart
    BY <1>11 DEF StopForRestart, Kill, UnitsIInv, Debts, Debt, UnitsTypes, DurableType, LeaseType, reclaimer,
       adoption
<1>12. CASE Spawn
  <2>1. /\ lease'.unit = lease.unit + 1 /\ UNCHANGED <<phase, adopting, listed, failed, tries, watched>>
        /\ lease.unit \in 0..MaxUnits /\ lease.unit < MaxUnits
      BY <1>12 DEF Spawn, UnitsIInv, UnitsTypes, DurableType, LeaseType, reclaimer, adoption
  <2>2. lease'.unit \in Units /\ lease'.unit > lease.unit
      BY <2>1, UnitsAssumption DEF Units
  <2>3. lease'.unit \notin listed
      BY <2>2 DEF UnitsIInv, FreshUnits, Unknown
  <2> QED BY <2>1, <2>3 DEF UnitsIInv, Debts, Debt
<1>13. CASE StartSucceeds
  <2>1. starting \in Units /\ Unknown(starting) /\ tries' = tries /\ watched' = watched \cup {starting}
      BY <1>13, UnitsAssumption DEF StartSucceeds, UnitsIInv, UnitsTypes, SupervisorType, FreshUnits, Units, None, reclaimer
  <2>2. \A v \in Units : Debt(v)' = IF v = starting THEN 1 ELSE Debt(v)
      BY <2>1 DEF Debt, Unknown, UnitsIInv, UnitsTypes, ReclaimerType
  <2>3. UNCHANGED <<phase, adopting, listed, failed, lease>> /\ starting # adopting
      BY <1>13, <2>1 DEF StartSucceeds, adoption, Unknown
  <2>4. adopting # None => adopting \in Units
      BY UnitsAssumption DEF UnitsIInv, UnitsTypes, SupervisorType, None, Units
  <2>5. adopting # None => Debt(adopting)' = 0
      BY <2>2, <2>3, <2>4 DEF UnitsIInv, Debts, Debt
  <2> QED BY <2>2, <2>3, <2>5 DEF UnitsIInv, Debts
<1>14. CASE StartFails
    BY <1>14 DEF StartFails, UnitsIInv, Debts, Debt, UnitsTypes, DurableType, LeaseType, reclaimer, adoption
<1>15. CASE WorkerReports
    BY <1>15 DEF WorkerReports, Serving, UnitsIInv, Debts, Debt, UnitsTypes, DurableType, LeaseType,
       reclaimer, supervisor
<1>16. CASE Restart
    BY <1>16 DEF Restart, UnitsIInv, Debts, Debt, UnitsTypes, ReclaimerType, Units, None, Off
<1>17. CASE AdoptSucceeds
    BY <1>17 DEF AdoptSucceeds, UnitsIInv, Debts, Debt, UnitsTypes, ReclaimerType, SupervisorType, Units,
       None, durable, reclaimer
<1>18. CASE AdoptBreaks
    BY <1>18, FailFacts DEF AdoptBreaks, UnitsIInv, Debts, Debt, UnitsTypes, SupervisorType, ReclaimerType,
       Units, None, reclaimer
<1>19. CASE AdoptFails
    BY <1>19 DEF AdoptFails, UnitsIInv, Debts, Debt, Units, None, durable, reclaimer, supervisor
<1>20. CASE FinishAdoption
    BY <1>20 DEF FinishAdoption, Attempt, UnitsIInv, Debts, Debt, UnitsTypes, ReclaimerType, durable
<1>21. CASE AdoptionTimesOut
    BY <1>21, FailFacts DEF AdoptionTimesOut, Kill, UnitsIInv, Debts, Debt, UnitsTypes, reclaimer
<1>22. CASE ReconcileOnStartup
    BY <1>22 DEF ReconcileOnStartup, UnitsIInv, Debts, Debt, UnitsTypes, DurableType, LeaseType, reclaimer,
       adoption
<1> QED BY <1>1, <1>2, <1>3, <1>4, <1>5, <1>6, <1>7, <1>8, <1>9, <1>10, <1>11, <1>12, <1>13, <1>14,
       <1>15, <1>16, <1>17, <1>18, <1>19, <1>20, <1>21, <1>22 DEF UnitsNext, ReclaimerStep,
       StartupStep

\* Exits that are observed are those of the attached worker.
LEMMA AttachmentKept ==
  ASSUME UnitsIInv, UnitsNext
  PROVE  Attachment'
<1>1. ASSUME NEW u \in Units, UnitDies(u) \/ KillCompletes(u) PROVE Attachment'
    BY <1>1 DEF UnitDies, KillCompletes, UnitsIInv, Attachment, Attached, Ahead, Debt, reclaimer,
       adoption, supervisor
<1>2. ASSUME NEW u \in Units, KillFails(u) PROVE Attachment'
    BY <1>2, FailFacts DEF KillFails, UnitsIInv, Attachment, Attached, Ahead, Debt, UnitsTypes, reclaimer,
       adoption
<1>3. ASSUME NEW u \in Units, AttemptSucceeds(u) PROVE Attachment'
  <2>1. DurableType /\ Reclaimed(u) /\ tries[u] > 0 /\ tries' = [tries EXCEPT ![u] = tries[u] - 1]
      BY <1>3 DEF AttemptSucceeds, UnitsIInv, UnitsTypes
  <2>2. UNCHANGED <<phase, listed, watched, mishaps>> /\ u # None
      BY <1>3 DEF AttemptSucceeds, Units, None
  <2>3. notify' = notify \ {u} /\ lease'.unit = lease.unit
      BY <2>1, ReclaimedFacts
  <2>4. CASE u \in notify
    <3>1. handle' = None /\ lease'.state = IF lease.unit = u THEN "exited" ELSE lease.state
        BY <2>1, <2>4, ReclaimedFacts
    <3>2. Ahead' => Ahead
        BY <2>2, <2>3, <3>1 DEF Ahead
    <3>3. Attached => Attached' /\ lease.unit = u
        BY <2>2, <2>3, <2>4, <3>1 DEF Attached
    <3> QED BY <2>2, <2>3, <3>1, <3>2, <3>3 DEF UnitsIInv, Attachment
  <2>5. CASE u \notin notify
    <3>1. handle' = handle /\ lease' = lease
        BY <2>1, <2>5, ReclaimedFacts
    <3>2. Ahead' = Ahead /\ (Attached => Attached')
        BY <2>2, <2>3, <2>5, <3>1 DEF Ahead, Attached
    <3>3. \A v \in Units : tries[v] = 0 => tries'[v] = 0
        BY <2>1 DEF UnitsIInv, UnitsTypes, ReclaimerType
    <3>4. lease.unit # None => lease.unit \in Units
        BY <2>1, UnitsAssumption DEF DurableType, LeaseType, Units, None
    <3>5. lease.unit # None /\ Debt(lease.unit) = 0 => Debt(lease.unit)' = 0
        BY <2>2, <3>1, <3>3, <3>4 DEF Debt, UnitsIInv, UnitsTypes, ReclaimerType
    <3> QED BY <2>2, <3>1, <3>2, <3>5 DEF UnitsIInv, Attachment
  <2> QED BY <2>4, <2>5
<1>4. ASSUME NEW u \in Units, AttemptFails(u) PROVE Attachment'
    BY <1>4 DEF AttemptFails, EnsureLoop, Off, UnitsIInv, Attachment, Attached, Ahead, Debt, UnitsTypes,
       ReclaimerType, durable, adoption, supervisor
<1>5. ASSUME NEW u \in Units, ExitObserved(u) PROVE Attachment'
  <2>1. /\ u \in watched /\ watched' = watched \ {u} /\ notify' = notify \cup {u} /\ u # None
        /\ UNCHANGED <<lease, handle, phase, listed, mishaps>>
      BY <1>5 DEF ExitObserved, durable, adoption, Units, None
  <2>2. Ahead' = Ahead
      BY <2>1 DEF Ahead
  <2>3. Attached => Attached' /\ handle = lease.unit
      BY <2>1 DEF Attached
  <2> QED BY <2>1, <2>2, <2>3 DEF UnitsIInv, Attachment
<1>6. ASSUME NEW u \in Units, Visit(u) PROVE Attachment'
    BY <1>6 DEF Visit, Stale, UnitsIInv, Attachment, Attached, Ahead, Debt, UnitsTypes, SupervisorType, Units,
       None, durable, reclaimer, supervisor
<1>7. CASE LoopWakes \/ LoopAttempts \/ LoopFails
    BY <1>7 DEF LoopWakes, LoopAttempts, LoopFails, Off, UnitsIInv, Attachment, Attached, Ahead, Debt,
       durable, adoption, supervisor
<1>8. CASE LoopSucceeds
    BY <1>8, ExitFacts DEF LoopSucceeds, Reclaimed, UnitsIInv, Attachment, Attached, Ahead, Debt, UnitsTypes,
       ReclaimerType, SupervisorType, LoopType, Units, None
<1>9. CASE WorkerGivenUp
    BY <1>9, FailFacts DEF WorkerGivenUp, Kill, UnitsIInv, Attachment, Attached, Ahead, Debt, UnitsTypes,
       reclaimer, adoption
<1>10. CASE Retry \/ SpawnRefused
    BY <1>10 DEF Retry, SpawnRefused, UnitsIInv, Attachment, Attached, Ahead, Debt, durable, reclaimer,
       adoption
<1>11. CASE ListUnits
    BY <1>11 DEF ListUnits, Exists, UnitsIInv, Attachment, Attached, Ahead, Debt, durable, reclaimer
<1>12. CASE StopForRestart
  <2>1. /\ UNCHANGED <<handle, phase, listed, mishaps, watched, notify, tries>>
        /\ lease' = lease \/ lease' = [lease EXCEPT !.state = Observed(lease.state, "stop_requested")]
      BY <1>12 DEF StopForRestart, reclaimer, adoption
  <2>2. lease'.unit = lease.unit /\ lease'.state \in {lease.state, Observed(lease.state, "stop_requested")}
      BY <2>1 DEF UnitsIInv, UnitsTypes, DurableType, LeaseType
  <2>3. lease'.state \notin {"absent", "failed", "exited"} => lease.state \notin {"absent", "failed", "exited"}
      BY <2>2, StopKeepsGone
  <2> QED BY <2>1, <2>2, <2>3 DEF UnitsIInv, Attachment, Ahead, Attached, Debt
<1>13. CASE Spawn
  <2>1. /\ lease' = [unit |-> lease.unit + 1, state |-> "spawning"] /\ handle = None /\ pending = {}
        /\ UNCHANGED <<handle, phase, listed, mishaps, watched, notify, tries>> /\ lease.unit < MaxUnits
      BY <1>13 DEF Spawn, reclaimer, adoption
  <2>2. lease'.unit \in Units /\ lease'.unit > lease.unit
      BY <2>1, UnitsAssumption DEF UnitsIInv, UnitsTypes, DurableType, LeaseType, Units
  <2>3. Unknown(lease'.unit)
      BY <2>2 DEF UnitsIInv, FreshUnits
  <2>4. Ahead' => Ahead
      BY <2>1, <2>3 DEF Ahead, Unknown
  <2>5. Attached => Attached'
      BY <2>1 DEF Attached
  <2>6. Debt(lease.unit)' = 0
      BY <2>1, <2>3 DEF Debt, Unknown
  <2> QED BY <2>1, <2>4, <2>5, <2>6 DEF UnitsIInv, Attachment
<1>14. CASE StartSucceeds
    BY <1>14 DEF StartSucceeds, UnitsIInv, Attachment, Attached, Ahead, Debt, FreshUnits, Unknown, UnitsTypes,
       SupervisorType, ReclaimerType, DurableType, LeaseType, Order, Units, None, reclaimer,
       adoption
<1>15. CASE StartFails
    BY <1>15 DEF StartFails, UnitsIInv, Attachment, Attached, Ahead, Debt, UnitsTypes, DurableType, LeaseType,
       reclaimer, adoption
<1>16. CASE WorkerReports
    BY <1>16 DEF WorkerReports, Serving, UnitsIInv, Attachment, Attached, Ahead, Debt, UnitsTypes,
       DurableType, LeaseType, reclaimer, supervisor
<1>17. CASE Restart
  <2>1. /\ handle' = None /\ watched' = {} /\ notify' = {} /\ UNCHANGED lease
        /\ tries' = [u \in Units |-> 0]
      BY <1>17 DEF Restart
  <2>2. lease.unit # None => lease.unit \in Units
      BY UnitsAssumption DEF UnitsIInv, UnitsTypes, DurableType, LeaseType, Units, None
  <2> QED BY <2>1, <2>2 DEF Attachment, Attached, Debt
<1>18. CASE AdoptSucceeds
    BY <1>18 DEF AdoptSucceeds, UnitsIInv, Attachment, Attached, Ahead, Debt, UnitsTypes, ReclaimerType,
       SupervisorType, Debts, Order, Units, None, durable, reclaimer
<1>19. CASE AdoptBreaks
    BY <1>19, FailFacts DEF AdoptBreaks, UnitsIInv, Attachment, Attached, Ahead, Debt, UnitsTypes,
       SupervisorType, ReclaimerType, Debts, Units, None, reclaimer
<1>20. CASE AdoptFails
    BY <1>20 DEF AdoptFails, UnitsIInv, Attachment, Attached, Ahead, Debt, Units, None, durable,
       reclaimer, supervisor
<1>21. CASE FinishAdoption
    BY <1>21 DEF FinishAdoption, Attempt, UnitsIInv, Attachment, Attached, Ahead, Debt, UnitsTypes,
       ReclaimerType, durable
<1>22. CASE AdoptionTimesOut
    BY <1>22, FailFacts DEF AdoptionTimesOut, Kill, UnitsIInv, Attachment, Attached, Ahead, Debt, UnitsTypes,
       reclaimer
<1>23. CASE ReconcileOnStartup
    BY <1>23 DEF ReconcileOnStartup, UnitsIInv, Attachment, Attached, Ahead, Debt, UnitsTypes, DurableType,
       LeaseType, Debts, reclaimer, adoption
<1> QED BY <1>1, <1>2, <1>3, <1>4, <1>5, <1>6, <1>7, <1>8, <1>9, <1>10, <1>11, <1>12, <1>13, <1>14,
       <1>15, <1>16, <1>17, <1>18, <1>19, <1>20, <1>21, <1>22, <1>23 DEF UnitsNext, ReclaimerStep,
       StartupStep

\* Without mishap, one unit at most runs or is about to.
LEMMA OrderKept ==
  ASSUME UnitsIInv, UnitsNext
  PROVE  Order'
<1>1. ASSUME NEW u \in Units, UnitDies(u) \/ KillCompletes(u) PROVE Order'
    BY <1>1 DEF UnitDies, KillCompletes, UnitsIInv, Order, Placed, UnitsTypes, DurableType, reclaimer,
       adoption, supervisor
<1>2. ASSUME NEW u \in Units, KillFails(u) PROVE Order'
    BY <1>2, FailFacts DEF KillFails, UnitsIInv, Order, Placed, UnitsTypes, reclaimer, adoption
<1>3. ASSUME NEW u \in Units, AttemptSucceeds(u) PROVE Order'
    BY <1>3, ExitFacts DEF AttemptSucceeds, Reclaimed, UnitsIInv, Order, Placed, UnitsTypes, DurableType,
       Attachment, Attached, None, Units
<1>4. ASSUME NEW u \in Units, AttemptFails(u) PROVE Order'
    BY <1>4 DEF AttemptFails, EnsureLoop, Off, UnitsIInv, Order, Placed, durable, adoption, supervisor
<1>5. ASSUME NEW u \in Units, ExitObserved(u) PROVE Order'
    BY <1>5 DEF ExitObserved, Attempt, UnitsIInv, Order, Placed, durable, adoption
<1>6. ASSUME NEW u \in Units, Visit(u) PROVE Order'
    BY <1>6 DEF Visit, Stale, UnitsIInv, Order, Placed, Debts, None, Units, durable, reclaimer,
       supervisor
<1>7. CASE LoopWakes \/ LoopAttempts \/ LoopFails
    BY <1>7 DEF LoopWakes, LoopAttempts, LoopFails, Off, UnitsIInv, Order, Placed, durable, adoption,
       supervisor
<1>8. CASE LoopSucceeds
    BY <1>8, ExitFacts DEF LoopSucceeds, Reclaimed, UnitsIInv, Order, Placed, UnitsTypes, DurableType,
       ReclaimerType, LoopType, Attachment, Attached, None, Units
<1>9. CASE WorkerGivenUp
    BY <1>9, FailFacts DEF WorkerGivenUp, Kill, UnitsIInv, Order, Placed, UnitsTypes, reclaimer, adoption
<1>10. CASE Retry \/ SpawnRefused
    BY <1>10 DEF Retry, SpawnRefused, UnitsIInv, Order, Placed, durable, reclaimer, adoption
<1>11. CASE ListUnits
    BY <1>11 DEF ListUnits, Exists, UnitsIInv, Order, Placed, UnitsTypes, DurableType, UnitStates, durable,
       reclaimer
<1>12. CASE StopForRestart
    BY <1>12 DEF StopForRestart, Kill, UnitsIInv, Order, Placed, UnitsTypes, DurableType, LeaseType,
       reclaimer, adoption
<1>13. CASE Spawn
    BY <1>13 DEF Spawn, UnitsIInv, Order, Placed, Debts, UnitsTypes, DurableType, LeaseType, None, Units,
       reclaimer, adoption
<1>14. CASE StartSucceeds
    BY <1>14 DEF StartSucceeds, UnitsIInv, Order, Placed, FreshUnits, UnitsTypes, SupervisorType, DurableType,
       LeaseType, Debts, Units, None, reclaimer, adoption
<1>15. CASE StartFails
    BY <1>15 DEF StartFails, UnitsIInv, Order, Placed, UnitsTypes, DurableType, LeaseType, reclaimer, adoption
<1>16. CASE WorkerReports
    BY <1>16 DEF WorkerReports, Serving, UnitsIInv, Order, Placed, UnitsTypes, DurableType, LeaseType,
       reclaimer, supervisor
<1>17. CASE Restart
    BY <1>17 DEF Restart, UnitsIInv, Order, Placed, UnitsTypes, DurableType, Units, None
<1>18. CASE AdoptSucceeds
    BY <1>18 DEF AdoptSucceeds, UnitsIInv, Order, Placed, Debts, Units, None, durable, reclaimer
<1>19. CASE AdoptBreaks
    BY <1>19, FailFacts DEF AdoptBreaks, UnitsIInv, Order, Placed, UnitsTypes, reclaimer
<1>20. CASE AdoptFails
    BY <1>20 DEF AdoptFails, UnitsIInv, Order, Placed, Units, None, durable, reclaimer, supervisor
<1>21. CASE FinishAdoption
    BY <1>21 DEF FinishAdoption, Attempt, UnitsIInv, Order, Placed, UnitsTypes, durable
<1>22. CASE AdoptionTimesOut
    BY <1>22, FailFacts DEF AdoptionTimesOut, Kill, UnitsIInv, Order, Placed, UnitsTypes, Attachment,
       Attached, reclaimer
<1>23. CASE ReconcileOnStartup
    BY <1>23 DEF ReconcileOnStartup, UnitsIInv, Order, Placed, UnitsTypes, DurableType, LeaseType, Debts,
       reclaimer, adoption
<1> QED BY <1>1, <1>2, <1>3, <1>4, <1>5, <1>6, <1>7, <1>8, <1>9, <1>10, <1>11, <1>12, <1>13, <1>14,
       <1>15, <1>16, <1>17, <1>18, <1>19, <1>20, <1>21, <1>22, <1>23 DEF UnitsNext, ReclaimerStep,
       StartupStep

-----------------------------------------------------------------------------
(* The theorems *)

\* Every step keeps the invariant.
LEMMA UnitsNextIInv == UnitsIInv /\ [UnitsNext]_unitVars => UnitsIInv'
<1>1. ASSUME UnitsIInv, UnitsNext PROVE UnitsIInv'
  <2>1. UnitsTypes'
      BY <1>1, DurableTypeKept, ReclaimerTypeKept, SupervisorTypeKept, AwaitedTypeKept DEF UnitsIInv, UnitsTypes
  <2> QED BY <1>1, <2>1, FreshUnitsKept, RemovalsKept, DebtsKept, AttachmentKept, OrderKept DEF UnitsIInv
<1>2. ASSUME UnitsIInv, UNCHANGED unitVars PROVE UnitsIInv'
  <2> USE <1>2 DEF UnitsIInv, unitVars, durable, reclaimer, adoption, supervisor
  <2>1. UnitsTypes'
      BY DEF UnitsTypes, AwaitedType, DurableType, ReclaimerType, SupervisorType
  <2>2. FreshUnits' /\ Removals'
      BY DEF FreshUnits, Unknown, Removals, FailedRemovalIsRetried
  <2>3. Debts' /\ Attachment'
      BY DEF Debts, Debt, Attachment, Ahead, Attached
  <2>4. Order'
      BY DEF Order, Placed
  <2> QED BY <2>1, <2>2, <2>3, <2>4
<1> QED BY <1>1, <1>2

\* The invariant holds in every reachable state.
LEMMA UnitsInvariance == UnitsSpec => []UnitsIInv
  BY UnitsInitIInv, UnitsNextIInv, PTL DEF UnitsSpec

\* Two units of the process never run at once, whatever restarts, adoptions and
\* failed removals come in between, and no failed removal is forgotten
\* (worker-unit-reclaimer.ts, adoption, assertProcessReclaimed).
THEOREM UnitsAreExclusive == UnitsSpec => []UnitsInvariant
<1>1. UnitsIInv => UnitsInvariant
    BY UnitsFacts
<1> QED BY <1>1, UnitsInvariance, PTL

\* An exit that is finalized is that of the attached worker.
LEMMA ReclaimedOwn ==
  ASSUME UnitsIInv, mishaps = {}, NEW u \in Units, Reclaimed(u), handle # None, handle' # handle
  PROVE  unit'[handle] = "removed"
<1>1. DurableType /\ notify \subseteq {handle}
    BY DEF UnitsIInv, UnitsTypes, Attachment, Attached
<1>2. u \in notify
    BY <1>1, ReclaimedFacts
<1> QED BY <1>1, <1>2, ReclaimedFacts

\* The supervisor lets go of the attached worker only when its unit is removed
\* (handleProcessExit, notified by the reclaimer).
THEOREM HandlesOutliveUnits == UnitsSpec => HandleOutlivesUnit
<1> DEFINE Kept == handle # None /\ handle' # handle /\ restarts' = restarts /\ mishaps = {} =>
                     unit'[handle] = "removed"
<1>1. ASSUME UnitsIInv, UnitsNext, handle # None, handle' # handle, restarts' = restarts, mishaps = {}
      PROVE  unit'[handle] = "removed"
  <2>1. ASSUME NEW u \in Units, AttemptSucceeds(u) PROVE unit'[handle] = "removed"
      BY <1>1, <2>1, ReclaimedOwn DEF AttemptSucceeds
  <2>2. CASE LoopSucceeds
    <3>1. loop.cur \in Units
        BY <1>1, <2>2, UnitsAssumption DEF LoopSucceeds, UnitsIInv, UnitsTypes, ReclaimerType, LoopType, Units, None
    <3> QED BY <1>1, <2>2, <3>1, ReclaimedOwn DEF LoopSucceeds
  <2>3. CASE StartSucceeds
      BY <1>1, <2>3 DEF StartSucceeds, UnitsIInv, Order
  <2>4. CASE AdoptSucceeds \/ AdoptBreaks
      BY <1>1, <2>4 DEF AdoptSucceeds, AdoptBreaks, UnitsIInv, Order
  <2>5. CASE AdoptionTimesOut
      BY <1>1, <2>5 DEF AdoptionTimesOut, UnitsIInv, Attachment, Attached
  <2>6. CASE Restart
      BY <1>1, <2>6, UnitsAssumption DEF Restart, UnitsIInv, UnitsTypes, DurableType
  <2>7. CASE /\ ~(\E u \in Units : AttemptSucceeds(u)) /\ ~LoopSucceeds /\ ~StartSucceeds
             /\ ~AdoptSucceeds /\ ~AdoptBreaks /\ ~AdoptionTimesOut /\ ~Restart
    <3>1. handle' = handle
        BY <1>1, <2>7 DEF UnitsNext, ReclaimerStep, StartupStep, AttemptFails, LoopWakes,
           LoopAttempts, LoopFails, ListUnits, Visit, AdoptFails, FinishAdoption,
           ReconcileOnStartup, UnitDies, ExitObserved, KillCompletes, KillFails, WorkerGivenUp,
           Retry, StopForRestart, Spawn, SpawnRefused, StartFails, WorkerReports, supervisor
    <3> QED BY <1>1, <3>1
  <2> QED BY <2>1, <2>2, <2>3, <2>4, <2>5, <2>6, <2>7
<1>2. UnitsIInv /\ [UnitsNext]_unitVars => [Kept]_unitVars
    BY <1>1
<1> QED BY <1>2, UnitsInvariance, PTL DEF UnitsSpec, HandleOutlivesUnit

-----------------------------------------------------------------------------
(***************************************************************************)
(* 2. GatedTurns                                                           *)
(***************************************************************************)
StartStates == {"starting", "running", "unprepared", "failed", "succeeded", "superseded"}
Item == [run : Nat, index : Nat]
Wanted == [turn : Turns \ Human, kind : {"selected", "recovery"}, item : Item]
Started == [start : Wanted, state : StartStates]
RunStatuses == {"active", "aborted", "interrupted", "completed"}
MappedRun == [turn : Mapped, status : RunStatuses, next : Nat, count : Nat]

\* A start of a mapped turn names an item of a run of that turn.
WellNamed(start, rs) ==
    IF start.turn \in Mapped
    THEN /\ start.item.run \in 1..Len(rs)
         /\ start.item.index \in 1..rs[start.item.run].count
         /\ rs[start.item.run].turn = start.turn
    ELSE start.item = NoItem

\* The item is the current one of an active run, or its run was interrupted.
Current(start, rs) ==
    start.turn \in Mapped =>
        \/ rs[start.item.run].status = "active" /\ rs[start.item.run].next = start.item.index
        \/ rs[start.item.run].status = "interrupted"

\* The attempts that collected item i of run r.
Collected(ss, r, i) ==
    {s \in 1..Len(ss) : ss[s].start.item = [run |-> r, index |-> i] /\ ss[s].state = "succeeded"}

Once(ss, rs) ==
    \A r \in 1..Len(rs) : \A i \in 1..rs[r].count :
        IF i < rs[r].next THEN \E s \in 1..Len(ss) : Collected(ss, r, i) = {s}
                          ELSE Collected(ss, r, i) = {}

\* What the durable attempts and runs of a process agree on.
Ledger(ss, rs) ==
    /\ ss \in Seq(Started) /\ rs \in Seq(MappedRun)
    /\ \A r \in 1..Len(rs) : rs[r].count >= 1 /\ rs[r].next \in 1..rs[r].count + 1
    /\ \A r, q \in 1..Len(rs) : rs[r].status = "active" /\ rs[q].status = "active" => r = q
    /\ \A s \in 1..Len(ss) : WellNamed(ss[s].start, rs)
    /\ Once(ss, rs)

-----------------------------------------------------------------------------
(* Runs *)

\* Runs that differ in their status only.
SameItems(rs, qs) ==
    /\ qs \in Seq(MappedRun) /\ Len(qs) = Len(rs)
    /\ \A r \in 1..Len(rs) : /\ qs[r].turn = rs[r].turn /\ qs[r].next = rs[r].next
                             /\ qs[r].count = rs[r].count

\* Stopping the active runs changes nothing else.
LEMMA StoppedFacts ==
  ASSUME NEW rs \in Seq(MappedRun), NEW s \in RunStatuses \ {"active"}
  PROVE  /\ SameItems(rs, Stopped(rs, s))
         /\ \A r \in 1..Len(rs) :
              Stopped(rs, s)[r].status = IF rs[r].status = "active" THEN s ELSE rs[r].status
<1> DEFINE e(r) == IF rs[r].status = "active" THEN [rs[r] EXCEPT !.status = s] ELSE rs[r]
<1>1. Len(rs) \in Nat /\ DOMAIN rs = 1..Len(rs) /\ \A r \in 1..Len(rs) : rs[r] \in MappedRun
    OBVIOUS
<1>2. \A r \in 1..Len(rs) : /\ e(r) \in MappedRun
                            /\ e(r).turn = rs[r].turn /\ e(r).next = rs[r].next
                            /\ e(r).count = rs[r].count
                            /\ e(r).status = IF rs[r].status = "active" THEN s ELSE rs[r].status
    BY <1>1 DEF MappedRun
<1>3. Stopped(rs, s) = [r \in 1..Len(rs) |-> e(r)]
    BY <1>1 DEF Stopped
<1> HIDE DEF e
<1>4. [r \in 1..Len(rs) |-> e(r)] \in Seq(MappedRun) /\ Len([r \in 1..Len(rs) |-> e(r)]) = Len(rs)
    BY <1>1, <1>2
<1> QED BY <1>2, <1>3, <1>4 DEF SameItems

\* A run whose turn is left is aborted; the others stay as they are.
LEMMA LeftFacts ==
  ASSUME NEW rs \in Seq(MappedRun), NEW t
  PROVE  /\ SameItems(rs, Left(rs, t))
         /\ \A r \in 1..Len(rs) :
              /\ Left(rs, t)[r].status = "active" => rs[r].status = "active" /\ rs[r].turn = t
              /\ rs[r].status # "active" => Left(rs, t)[r].status = rs[r].status
         /\ (\A r \in 1..Len(rs) : rs[r].status = "active" => rs[r].turn = t) => Left(rs, t) = rs
<1>1. ActiveRuns(rs) = {r \in 1..Len(rs) : rs[r].status = "active"}
    BY DEF ActiveRuns
<1>2. CASE \E r \in ActiveRuns(rs) : rs[r].turn # t
    BY <1>1, <1>2, StoppedFacts DEF Left, Aborted, RunStatuses
<1>3. CASE ~\E r \in ActiveRuns(rs) : rs[r].turn # t
    BY <1>1, <1>3 DEF Left, SameItems
<1> QED BY <1>2, <1>3

\* Stopping runs keeps the ledger.
LEMMA SameItemsLedger ==
  ASSUME NEW ss, NEW rs, NEW qs, Ledger(ss, rs), SameItems(rs, qs),
         \A r \in 1..Len(rs) : qs[r].status = "active" => rs[r].status = "active"
  PROVE  /\ Ledger(ss, qs)
         /\ \A start : WellNamed(start, rs) => WellNamed(start, qs)
<1>1. \A start : WellNamed(start, rs) => WellNamed(start, qs)
    BY DEF WellNamed, SameItems
<1>2. Once(ss, qs)
    BY DEF Ledger, Once, SameItems
<1> QED BY <1>1, <1>2 DEF Ledger, SameItems

\* A start of the selected turn stays current when its process leaves others.
LEMMA LeftKeepsCurrent ==
  ASSUME NEW ss, NEW rs, Ledger(ss, rs), NEW start, WellNamed(start, rs), Current(start, rs)
  PROVE  Current(start, Left(rs, start.turn)) /\ WellNamed(start, Left(rs, start.turn))
<1>1. rs \in Seq(MappedRun)
    BY DEF Ledger
<1>2. WellNamed(start, Left(rs, start.turn))
    BY <1>1, LeftFacts DEF WellNamed, SameItems
<1>3. CASE start.turn \in Mapped /\ rs[start.item.run].status = "active"
  <2>1. \A r \in 1..Len(rs) : rs[r].status = "active" => rs[r].turn = start.turn
      BY <1>3 DEF Ledger, WellNamed
  <2> QED BY <1>1, <1>2, <2>1, LeftFacts
<1>4. CASE start.turn \in Mapped /\ rs[start.item.run].status # "active"
    BY <1>1, <1>2, <1>4, LeftFacts DEF WellNamed, Current
<1> QED BY <1>2, <1>3, <1>4 DEF Current

-----------------------------------------------------------------------------
(* The ledger of a step *)

\* A start is added.
LEMMA AppendLedger ==
  ASSUME NEW ss, NEW rs, Ledger(ss, rs), NEW start \in Wanted, WellNamed(start, rs),
         NEW state \in StartStates \ {"succeeded"}
  PROVE  /\ Ledger(Append(ss, [start |-> start, state |-> state]), rs)
         /\ Len(Append(ss, [start |-> start, state |-> state])) = Len(ss) + 1
         /\ Append(ss, [start |-> start, state |-> state])[Len(ss) + 1]
              = [start |-> start, state |-> state]
<1> DEFINE a == [start |-> start, state |-> state]
           ts == Append(ss, a)
<1>1. ss \in Seq(Started) /\ Len(ss) \in Nat /\ a \in Started /\ a.state # "succeeded" /\ a.start = start
    BY DEF Ledger, Started
<1> HIDE DEF a
<1>2. /\ ts \in Seq(Started) /\ Len(ts) = Len(ss) + 1
      /\ ts[Len(ss) + 1] = a
      /\ \A s \in 1..Len(ss) : ts[s] = ss[s]
    BY <1>1
<1> HIDE DEF ts
<1>3. \A r, i : Collected(ts, r, i) = Collected(ss, r, i)
    BY <1>1, <1>2 DEF Collected
<1>4. Once(ts, rs)
    BY <1>1, <1>2, <1>3 DEF Ledger, Once
<1>5. \A s \in 1..Len(ts) : WellNamed(ts[s].start, rs)
    BY <1>1, <1>2 DEF Ledger
<1>6. Ledger(ts, rs)
    BY <1>2, <1>4, <1>5 DEF Ledger
<1> QED BY <1>2, <1>6 DEF a, ts

\* The items of a mapped turn are frozen in a new run.
LEMMA FreezeLedger ==
  ASSUME NEW ss, NEW rs, Ledger(ss, rs), NEW t \in Mapped, NEW n \in Nat, n >= 1
  PROVE  LET qs == Append(Aborted(rs), [turn |-> t, status |-> "active", next |-> 1, count |-> n])
         IN  /\ Ledger(ss, qs)
             /\ Len(qs) = Len(rs) + 1
             /\ qs[Len(rs) + 1] = [turn |-> t, status |-> "active", next |-> 1, count |-> n]
             /\ \A r \in 1..Len(qs) : qs[r].status = "active" => r = Len(rs) + 1
<1> DEFINE a  == [turn |-> t, status |-> "active", next |-> 1, count |-> n]
           ps == Aborted(rs)
           qs == Append(ps, a)
<1>1. ss \in Seq(Started) /\ rs \in Seq(MappedRun) /\ Len(rs) \in Nat
    BY DEF Ledger
<1>2. SameItems(rs, ps) /\ \A r \in 1..Len(rs) : ps[r].status # "active"
    BY <1>1, StoppedFacts DEF Aborted, RunStatuses
<1>3. Ledger(ss, ps) /\ Len(ps) = Len(rs) /\ ps \in Seq(MappedRun)
    BY <1>2, SameItemsLedger DEF SameItems
<1>4. /\ a \in MappedRun /\ a.count = n /\ a.next = 1 /\ a.turn = t /\ a.status = "active"
    BY DEF MappedRun, RunStatuses
<1> HIDE DEF ps, a
<1>5. /\ qs \in Seq(MappedRun) /\ Len(qs) = Len(rs) + 1 /\ qs[Len(rs) + 1] = a
      /\ \A r \in 1..Len(rs) : qs[r] = ps[r]
    BY <1>1, <1>3, <1>4
<1> HIDE DEF qs
<1>6. \A s \in 1..Len(ss) : ss[s].start.item.run # Len(rs) + 1
    BY <1>1, <1>3, SMTT(30) DEF Ledger, WellNamed, NoItem
<1>7. \A i : Collected(ss, Len(rs) + 1, i) = {}
    BY <1>6 DEF Collected
<1>8. Once(ss, qs)
  <2> SUFFICES ASSUME NEW r \in 1..Len(qs), NEW i \in 1..qs[r].count
               PROVE  IF i < qs[r].next
                      THEN \E s \in 1..Len(ss) : Collected(ss, r, i) = {s}
                      ELSE Collected(ss, r, i) = {}
      BY DEF Once
  <2>1. CASE r = Len(rs) + 1
      BY <1>4, <1>5, <1>7, <2>1
  <2>2. CASE r # Len(rs) + 1
    <3>1. r \in 1..Len(ps) /\ qs[r] = ps[r]
        BY <1>1, <1>3, <1>5, <2>2
    <3> QED BY <1>3, <3>1 DEF Ledger, Once
  <2> QED BY <2>1, <2>2
<1>9. \A s \in 1..Len(ss) : WellNamed(ss[s].start, qs)
    BY <1>1, <1>3, <1>5, SMTT(30) DEF Ledger, WellNamed
<1>10. \A r \in 1..Len(qs) : qs[r].status = "active" => r = Len(rs) + 1
    BY <1>1, <1>2, <1>5, SMTT(30)
<1>11. \A r \in 1..Len(qs) : qs[r].count >= 1 /\ qs[r].next \in 1..qs[r].count + 1
    BY <1>1, <1>3, <1>4, <1>5, SMTT(30) DEF Ledger
<1>12. Ledger(ss, qs)
    BY <1>1, <1>5, <1>8, <1>9, <1>10, <1>11 DEF Ledger
<1> QED BY <1>5, <1>10, <1>12 DEF qs, ps, a

\* Attempts that neither start nor stop having succeeded collect the same items.
LEMMA RestateLedger ==
  ASSUME NEW ss, NEW rs, Ledger(ss, rs), NEW ts \in Seq(Started), Len(ts) = Len(ss),
         \A s \in 1..Len(ss) : /\ ts[s].start = ss[s].start
                               /\ ts[s].state = "succeeded" <=> ss[s].state = "succeeded"
  PROVE  Ledger(ts, rs)
<1>1. \A r, i : Collected(ts, r, i) = Collected(ss, r, i)
    BY DEF Collected
<1>2. Once(ts, rs)
    BY <1>1 DEF Ledger, Once
<1> QED BY <1>2 DEF Ledger

\* An attempt of a turn without items succeeds.
LEMMA PlainLedger ==
  ASSUME NEW ss, NEW rs, Ledger(ss, rs), NEW c \in 1..Len(ss), ss[c].start.turn \notin Mapped
  PROVE  Ledger([ss EXCEPT ![c].state = "succeeded"], rs)
<1> DEFINE ts == [ss EXCEPT ![c].state = "succeeded"]
<1>1. ss \in Seq(Started) /\ Len(ss) \in Nat /\ rs \in Seq(MappedRun) /\ Len(rs) \in Nat
    BY DEF Ledger
<1>2. ss[c] \in Started /\ [ss[c] EXCEPT !.state = "succeeded"] \in Started
  <2>1. ss[c] \in Started
      BY <1>1
  <2> QED BY <2>1 DEF Started, StartStates
<1>3. /\ ts \in Seq(Started) /\ Len(ts) = Len(ss)
      /\ \A s \in 1..Len(ss) : /\ ts[s].start = ss[s].start
                               /\ ts[s].state = IF s = c THEN "succeeded" ELSE ss[s].state
    BY <1>1, <1>2 DEF Started
<1> HIDE DEF ts
<1>4. ss[c].start.item = NoItem
    BY DEF Ledger, WellNamed
<1>5. \A r \in 1..Len(rs) : \A i : Collected(ts, r, i) = Collected(ss, r, i)
    BY <1>1, <1>3, <1>4 DEF Collected, NoItem
<1>6. Once(ts, rs)
    BY <1>3, <1>5 DEF Ledger, Once
<1>7. Ledger(ts, rs)
    BY <1>3, <1>6 DEF Ledger
<1> QED BY <1>7 DEF ts

\* An attempt of the current item succeeds: the run moves on, once.
LEMMA ItemLedger ==
  ASSUME NEW c \in 1..Len(starts), Ledger(starts, runs), starts[c].state # "succeeded",
         starts[c].start.turn \in Mapped, CurrentItem(starts[c].start)
  PROVE  LET r == starts[c].start.item.run IN
         /\ Ledger([starts EXCEPT ![c].state = "succeeded"], Completed(r))
         /\ Len(Completed(r)) = Len(runs)
         /\ \A q \in 1..Len(runs) :
              /\ Completed(r)[q].turn = runs[q].turn
              /\ Completed(r)[q].count = runs[q].count
              /\ Completed(r)[q].next = IF q = r THEN runs[q].next + 1 ELSE runs[q].next
              /\ Completed(r)[q].status = IF q = r
                   THEN IF runs[q].next = runs[q].count THEN "completed" ELSE "active"
                   ELSE runs[q].status
<1> DEFINE ts == [starts EXCEPT ![c].state = "succeeded"]
           r  == starts[c].start.item.run
           qs == Completed(r)
<1>1. /\ starts \in Seq(Started) /\ Len(starts) \in Nat /\ runs \in Seq(MappedRun)
      /\ Len(runs) \in Nat
      /\ starts[c] \in Started /\ \A q \in 1..Len(runs) : runs[q] \in MappedRun
  <2>1. starts \in Seq(Started) /\ runs \in Seq(MappedRun)
      BY DEF Ledger
  <2> QED BY <2>1
<1>2. /\ r \in 1..Len(runs) /\ runs[r].status = "active"
      /\ runs[r].next = starts[c].start.item.index /\ runs[r].next \in 1..runs[r].count
      /\ runs[r].count \in Nat /\ runs[r] \in MappedRun /\ r = starts[c].start.item.run
  <2>1. /\ r \in 1..Len(runs) /\ starts[c].start.item.index \in 1..runs[r].count
        /\ runs[r] \in MappedRun
      BY <1>1 DEF Ledger, WellNamed
  <2> QED BY <2>1 DEF CurrentItem, MappedRun
<1> HIDE DEF r
<1>3. [starts[c] EXCEPT !.state = "succeeded"] \in Started
    BY <1>1 DEF Started, StartStates
<1>4. /\ ts \in Seq(Started) /\ Len(ts) = Len(starts)
      /\ \A s \in 1..Len(starts) : /\ ts[s].start = starts[s].start
                                   /\ ts[s].state = IF s = c THEN "succeeded" ELSE starts[s].state
    BY <1>1, <1>3 DEF Started
<1>5. /\ qs \in Seq(MappedRun) /\ Len(qs) = Len(runs)
      /\ \A q \in 1..Len(runs) :
              /\ qs[q].turn = runs[q].turn
              /\ qs[q].count = runs[q].count
              /\ qs[q].next = IF q = r THEN runs[q].next + 1 ELSE runs[q].next
              /\ qs[q].status = IF q = r
                   THEN IF runs[q].next = runs[q].count THEN "completed" ELSE "active"
                   ELSE runs[q].status
  <2> DEFINE st == IF runs[r].next = runs[r].count THEN "completed" ELSE "active"
             a  == [runs[r] EXCEPT !.next = runs[r].next + 1, !.status = st]
  <2>1. st \in RunStatuses /\ runs[r] \in MappedRun
      BY <1>1, <1>2 DEF RunStatuses
  <2>2. qs = [runs EXCEPT ![r].next = runs[r].next + 1, ![r].status = st]
      BY <1>2 DEF Completed
  <2>3. st = IF runs[r].next = runs[r].count THEN "completed" ELSE "active"
      OBVIOUS
  <2> HIDE DEF st, qs
  <2>4. /\ a \in MappedRun
        /\ a.turn = runs[r].turn /\ a.count = runs[r].count /\ a.next = runs[r].next + 1
        /\ a.status = st
    <3> DEFINE x == runs[r]
    <3>1. x \in MappedRun
        BY <2>1
    <3> HIDE DEF x
    <3>2. /\ [x EXCEPT !.next = x.next + 1, !.status = st] \in MappedRun
          /\ LET y == [x EXCEPT !.next = x.next + 1, !.status = st] IN
             y.turn = x.turn /\ y.count = x.count /\ y.next = x.next + 1 /\ y.status = st
      <4> DEFINE z == [x EXCEPT !.next = x.next + 1]
      <4>1. z \in MappedRun /\ z.turn = x.turn /\ z.count = x.count /\ z.next = x.next + 1
          BY <3>1 DEF MappedRun
      <4>2. [x EXCEPT !.next = x.next + 1, !.status = st] = [z EXCEPT !.status = st]
          BY <3>1 DEF MappedRun
      <4> HIDE DEF z
      <4> QED BY <2>1, <4>1, <4>2 DEF MappedRun
    <3> QED BY <3>2 DEF x
  <2>5. qs = [runs EXCEPT ![r] = a]
      BY <1>1, <1>2, <2>1, <2>2 DEF MappedRun
  <2> HIDE DEF a
  <2>6. /\ qs \in Seq(MappedRun) /\ Len(qs) = Len(runs)
        /\ \A q \in 1..Len(runs) : qs[q] = IF q = r THEN a ELSE runs[q]
      BY <1>1, <1>2, <2>4, <2>5
  <2> QED BY <1>1, <2>3, <2>4, <2>6
<1> HIDE DEF ts, qs
<1>6. \A q \in 1..Len(runs) : \A i \in Nat :
        Collected(ts, q, i) = IF q = r /\ i = runs[r].next
                              THEN Collected(starts, q, i) \cup {c}
                              ELSE Collected(starts, q, i)
  <2>1. starts[c].start.item \in Item
      BY <1>1 DEF Started, Wanted
  <2>2. \A q \in 1..Len(runs) : \A i \in Nat :
          starts[c].start.item = [run |-> q, index |-> i] <=> q = r /\ i = runs[r].next
      BY <1>2, <2>1 DEF Item
  <2> SUFFICES ASSUME NEW q \in 1..Len(runs), NEW i \in Nat
               PROVE  Collected(ts, q, i) = IF q = r /\ i = runs[r].next
                                            THEN Collected(starts, q, i) \cup {c}
                                            ELSE Collected(starts, q, i)
      OBVIOUS
  <2>3. \A s \in 1..Len(starts) :
          s \in Collected(ts, q, i) <=>
            s \in Collected(starts, q, i) \/ (s = c /\ q = r /\ i = runs[r].next)
      BY <1>4, <2>2 DEF Collected
  <2>4. Collected(ts, q, i) \subseteq 1..Len(starts) /\ Collected(starts, q, i) \subseteq 1..Len(starts)
      BY <1>4 DEF Collected
  <2> QED BY <2>3, <2>4
<1>7. Once(ts, qs)
  <2> SUFFICES ASSUME NEW q \in 1..Len(qs), NEW i \in 1..qs[q].count
               PROVE  IF i < qs[q].next
                      THEN \E s \in 1..Len(ts) : Collected(ts, q, i) = {s}
                      ELSE Collected(ts, q, i) = {}
      BY DEF Once
  <2>1. q \in 1..Len(runs) /\ i \in 1..runs[q].count /\ i \in Nat /\ runs[q].next \in Nat
    <3>1. q \in 1..Len(runs) /\ runs[q] \in MappedRun
        BY <1>1, <1>5
    <3> QED BY <1>5, <3>1 DEF MappedRun
  <2>2. IF i < runs[q].next THEN \E s \in 1..Len(starts) : Collected(starts, q, i) = {s}
                            ELSE Collected(starts, q, i) = {}
    <3>1. Once(starts, runs)
        BY DEF Ledger
    <3> QED BY <2>1, <3>1 DEF Once
  <2>3. CASE q = r /\ i = runs[r].next
    <3>1. Collected(ts, q, i) = {c}
      <4>1. Collected(starts, q, i) = {}
          BY <2>1, <2>2, <2>3
      <4> QED BY <1>6, <2>1, <2>3, <4>1
    <3>2. i < qs[q].next
        BY <1>5, <2>1, <2>3
    <3> QED BY <1>4, <3>1, <3>2
  <2>4. CASE ~(q = r /\ i = runs[r].next)
    <3>1. Collected(ts, q, i) = Collected(starts, q, i)
        BY <1>6, <2>1, <2>4
    <3>2. i < qs[q].next <=> i < runs[q].next
        BY <1>5, <2>1, <2>4
    <3> QED BY <1>4, <2>2, <3>1, <3>2
  <2> QED BY <2>3, <2>4
<1>8. \A s \in 1..Len(ts) : WellNamed(ts[s].start, qs)
  <2>1. \A s \in 1..Len(starts) : WellNamed(starts[s].start, runs)
      BY DEF Ledger
  <2> SUFFICES ASSUME NEW s \in 1..Len(starts) PROVE WellNamed(starts[s].start, qs)
      BY <1>4
  <2>2. WellNamed(starts[s].start, runs)
      BY <2>1
  <2> QED BY <1>1, <1>5, <2>2 DEF WellNamed
<1>9. \A q \in 1..Len(qs) : qs[q].count >= 1 /\ qs[q].next \in 1..qs[q].count + 1
  <2> SUFFICES ASSUME NEW q \in 1..Len(qs)
               PROVE  qs[q].count >= 1 /\ qs[q].next \in 1..qs[q].count + 1
      OBVIOUS
  <2>1. q \in 1..Len(runs) /\ runs[q] \in MappedRun
      BY <1>1, <1>5
  <2>2. runs[q].count >= 1 /\ runs[q].next \in 1..runs[q].count + 1
    <3>1. \A p \in 1..Len(runs) : runs[p].count >= 1 /\ runs[p].next \in 1..runs[p].count + 1
        BY DEF Ledger
    <3> QED BY <2>1, <3>1
  <2>3. runs[q].count \in Nat /\ qs[q].count = runs[q].count
      BY <1>5, <2>1 DEF MappedRun
  <2>4. CASE q = r
    <3>1. qs[q].next = runs[q].next + 1
        BY <1>5, <2>1, <2>4
    <3>2. runs[q].next \in 1..runs[q].count
        BY <1>2, <2>4
    <3> QED BY <2>2, <2>3, <3>1, <3>2
  <2>5. CASE q # r
    <3>1. qs[q].next = runs[q].next
        BY <1>5, <2>1, <2>5
    <3> QED BY <2>2, <2>3, <3>1
  <2> QED BY <2>4, <2>5
<1>10. \A q, p \in 1..Len(qs) : qs[q].status = "active" /\ qs[p].status = "active" => q = p
    BY <1>2, <1>5, ZenonT(60) DEF Ledger
<1>11. Ledger(ts, qs)
    BY <1>4, <1>5, <1>7, <1>8, <1>9, <1>10, ZenonT(60) DEF Ledger
<1> QED BY <1>5, <1>11 DEF ts, qs, r

-----------------------------------------------------------------------------
(* What holds of a process between two operations *)

Lives == {"discovered", "active", "waiting", "error", "completed", "aborted"}
Waits == [on : BOOLEAN, start : Wanted \cup {NoStart}, status : {"waiting", "error"},
          due : BOOLEAN, initial : BOOLEAN]
Checks == [on : BOOLEAN, fresh : BOOLEAN, says : Verdicts \cup {"retry"}]

\* The start that waits: a selection, or the recovery of an attempt whose item
\* is current.
Held(w, rs) ==
    w.on => /\ w.start \in Wanted /\ w.start.turn \in Gated
            /\ IF w.start.kind = "selected" THEN w.start.item = NoItem
               ELSE WellNamed(w.start, rs) /\ Current(w.start, rs)

ProcessTypes ==
    /\ life \in Lives /\ sel \in Turns \cup {NoTurn} /\ cur \in 0..Len(starts)
    /\ wait \in Waits /\ bound \in BOOLEAN

WaitInPlace ==
    /\ wait.on => /\ cur = 0 /\ sel = wait.start.turn
                  /\ life = IF wait.status = "error" THEN "error" ELSE "waiting"
    /\ life \in {"waiting", "error"} /\ sel \in Turns \ Human => wait.on \/ cur # 0
    /\ life \in {"discovered", "completed", "aborted"} => sel = NoTurn /\ cur = 0 /\ ~wait.on

StartInPlace ==
    cur # 0 => /\ sel = starts[cur].start.turn
               /\ starts[cur].state \in {"starting", "running", "unprepared", "failed"}
                    => Current(starts[cur].start, runs)

RunInPlace == \A r \in 1..Len(runs) : runs[r].status = "active" => sel = runs[r].turn

ProcessInv ==
    /\ ProcessTypes /\ Ledger(starts, runs)
    /\ WaitInPlace /\ StartInPlace /\ RunInPlace /\ Held(wait, runs)

GatedIInv == ProcessInv /\ check \in Checks

\* The records the operations write.
LEMMA NoWaitFacts == NoWait \in Waits /\ ~NoWait.on /\ \A rs : Held(NoWait, rs)
BY DEF NoWait, Waits, Held

LEMMA SelectedFacts ==
  ASSUME NEW t \in Turns \ Human
  PROVE  LET s == [turn |-> t, kind |-> "selected", item |-> NoItem]
         IN  s \in Wanted /\ s.turn = t /\ s.kind = "selected" /\ s.item = NoItem
BY DEF Wanted, Item, NoItem

LEMMA DeferredFacts ==
  ASSUME wait \in Waits, NEW start \in Wanted
  PROVE  /\ Deferred(start) \in Waits /\ Deferred(start).on
         /\ Deferred(start).status = "waiting"
         /\ \/ Deferred(start).start = start
            \/ wait.on /\ Deferred(start).start = wait.start /\ wait.start.turn = start.turn
<1>1. CASE wait.on /\ wait.start.turn = start.turn /\ start.kind = "selected" /\ wait.status = "waiting"
    BY <1>1 DEF Deferred
<1>2. CASE ~(wait.on /\ wait.start.turn = start.turn /\ start.kind = "selected" /\ wait.status = "waiting")
  <2> DEFINE b == sel = NoTurn /\ life = "discovered"
             w == [on |-> TRUE, start |-> start, status |-> "waiting", due |-> TRUE, initial |-> b]
  <2>1. b \in BOOLEAN
      OBVIOUS
  <2>2. Deferred(start) = w
      BY <1>2 DEF Deferred
  <2> HIDE DEF b
  <2> QED BY <2>1, <2>2 DEF Waits
<1> QED BY <1>1, <1>2

\* A start is created.
LEMMA CreateStep ==
  ASSUME NEW ss, NEW rs, Ledger(ss, rs), NEW start \in Wanted,
         WellNamed(start, rs), Current(start, rs),
         \A r \in 1..Len(rs) : rs[r].status = "active" => rs[r].turn = start.turn,
         Create(ss, start, rs), sel' = start.turn, bound' \in BOOLEAN
  PROVE  ProcessInv'
<1>1. PICK state \in {"starting", "unprepared"} :
        /\ starts' = Append(ss, [start |-> start, state |-> state])
        /\ life' = IF state = "starting" THEN "active" ELSE "error"
    BY DEF Create
<1>2. cur' = Len(ss) + 1 /\ wait' = NoWait /\ runs' = rs /\ Len(ss) \in Nat
    BY DEF Create, Ledger
<1>3. /\ Ledger(starts', rs) /\ Len(starts') = Len(ss) + 1
      /\ starts'[Len(ss) + 1] = [start |-> start, state |-> state]
    BY <1>1, AppendLedger DEF StartStates
<1>4. start.turn \in Turns
    BY DEF Wanted
<1>5. ProcessTypes'
    BY <1>1, <1>2, <1>3, <1>4, NoWaitFacts DEF ProcessTypes, Lives
<1>6. WaitInPlace'
    BY <1>1, <1>2, NoWaitFacts DEF WaitInPlace
<1>7. StartInPlace'
    BY <1>2, <1>3 DEF StartInPlace
<1>8. RunInPlace'
    BY <1>2 DEF RunInPlace
<1>9. Ledger(starts, runs)' /\ Held(wait, runs)'
    BY <1>2, <1>3, NoWaitFacts
<1> QED BY <1>5, <1>6, <1>7, <1>8, <1>9 DEF ProcessInv

\* A start that may name an item, if it is current.
Nameable(start, rs) ==
    \/ start.kind = "selected" /\ start.item = NoItem
    \/ WellNamed(start, rs) /\ Current(start, rs)

\* A start is wanted: it waits, freezes items or is created.
LEMMA BeginStep ==
  ASSUME NEW ss, NEW rs, Ledger(ss, rs), NEW start \in Wanted, Nameable(start, rs),
         wait \in Waits, Held(wait, rs), NEW admitted, Begin(ss, start, admitted, rs),
         bound' \in BOOLEAN
  PROVE  ProcessInv'
<1> DEFINE ls == Left(rs, start.turn)
<1>1. /\ ss \in Seq(Started) /\ rs \in Seq(MappedRun) /\ start.turn \in Turns \ Human
      /\ Len(ss) \in Nat /\ sel' = start.turn
    BY DEF Ledger, Wanted, Begin
<1>2. /\ Ledger(ss, ls)
      /\ \A r \in 1..Len(ls) : ls[r].status = "active" => ls[r].turn = start.turn
  <2>1. /\ SameItems(rs, ls)
        /\ \A r \in 1..Len(rs) : ls[r].status = "active" => rs[r].status = "active" /\ rs[r].turn = start.turn
      BY <1>1, LeftFacts
  <2>2. Ledger(ss, ls)
      BY <2>1, SameItemsLedger
  <2> QED BY <2>1, <2>2 DEF SameItems
<1>3. \A s : WellNamed(s, rs) /\ Current(s, rs) /\ s.turn = start.turn => WellNamed(s, ls) /\ Current(s, ls)
    BY LeftKeepsCurrent
<1> HIDE DEF ls
<1>4. CASE Defers(start, admitted)
  <2>1. /\ wait' = Deferred(start) /\ runs' = ls
        /\ life' = "waiting" /\ cur' = 0 /\ starts' = ss
      BY <1>4 DEF Begin, ls
  <2>2. /\ wait' \in Waits /\ wait'.on /\ wait'.status = "waiting"
        /\ wait'.start = start \/ (wait.on /\ wait'.start = wait.start /\ wait.start.turn = start.turn)
      BY <2>1, DeferredFacts
  <2>3. start.turn \in Gated /\ (start.kind = "selected" => start.item = NoItem)
      BY <1>4 DEF Defers
  <2>4. Held(wait', ls)
    <3>1. CASE wait'.start = start
        BY <1>3, <2>2, <2>3, <3>1 DEF Held, Nameable
    <3>2. CASE wait.on /\ wait'.start = wait.start /\ wait.start.turn = start.turn
        BY <1>3, <2>2, <3>2 DEF Held
    <3> QED BY <2>2, <3>1, <3>2
  <2>5. wait'.start.turn = start.turn
      BY <2>2
  <2>6. ProcessTypes'
      BY <1>1, <2>1, <2>2 DEF ProcessTypes, Lives
  <2>7. WaitInPlace' /\ StartInPlace' /\ RunInPlace'
      BY <1>1, <1>2, <2>1, <2>2, <2>5 DEF WaitInPlace, StartInPlace, RunInPlace
  <2> QED BY <1>2, <2>1, <2>4, <2>6, <2>7 DEF ProcessInv
<1>5. CASE ~Defers(start, admitted) /\ start.turn \in Mapped /\ start.kind = "selected" /\ start.item = NoItem
  <2> DEFINE it   == [run |-> Len(rs) + 1, index |-> 1]
             item == [start EXCEPT !.item = it]
  <2>1. PICK n \in 1 .. MaxItems :
          Create(ss, item, Append(Aborted(rs), [turn |-> start.turn, status |-> "active", next |-> 1, count |-> n]))
      BY <1>5 DEF Begin
  <2> DEFINE qs == Append(Aborted(rs), [turn |-> start.turn, status |-> "active", next |-> 1, count |-> n])
  <2>2. n \in Nat /\ n >= 1
      BY GatedAssumption
  <2>3. /\ Ledger(ss, qs) /\ Len(qs) = Len(rs) + 1
        /\ qs[Len(rs) + 1] = [turn |-> start.turn, status |-> "active", next |-> 1, count |-> n]
        /\ \A r \in 1..Len(qs) : qs[r].status = "active" => r = Len(rs) + 1
      BY <1>5, <2>2, FreezeLedger
  <2> HIDE DEF qs
  <2>4. it \in Item /\ it.run = Len(rs) + 1 /\ it.index = 1 /\ Len(rs) \in Nat
    <3>1. Len(rs) \in Nat
        BY <1>1
    <3> QED BY <3>1 DEF Item
  <2> HIDE DEF it
  <2>5. item \in Wanted /\ item.turn = start.turn /\ item.item = it
      BY <2>4 DEF Wanted
  <2> HIDE DEF item
  <2>6. WellNamed(item, qs) /\ Current(item, qs)
      BY <1>5, <2>2, <2>3, <2>4, <2>5 DEF WellNamed, Current
  <2>7. \A r \in 1..Len(qs) : qs[r].status = "active" => qs[r].turn = item.turn
      BY <2>3, <2>5
  <2>8. Create(ss, item, qs)
      BY <2>1 DEF qs
  <2> QED BY <1>1, <2>3, <2>5, <2>6, <2>7, <2>8, CreateStep
<1>6. CASE ~Defers(start, admitted) /\ ~(start.turn \in Mapped /\ start.kind = "selected" /\ start.item = NoItem)
  <2>1. Create(ss, start, ls)
      BY <1>6 DEF Begin, ls
  <2>2. WellNamed(start, rs) /\ Current(start, rs)
      BY <1>6 DEF Nameable, WellNamed, Current
  <2> QED BY <1>1, <1>2, <1>3, <2>1, <2>2, CreateStep
<1> QED BY <1>4, <1>5, <1>6

\* A turn is selected: a worker turn is begun, an operator's turn is waited for,
\* or the process is done.
LEMMA SelectStep ==
  ASSUME NEW ss, NEW rs, Ledger(ss, rs), wait \in Waits, Held(wait, rs),
         NEW target, NEW admitted, Select(ss, target, admitted, rs), bound' \in BOOLEAN
  PROVE  ProcessInv'
<1>1. PICK t \in Turns \cup {Done} :
        IF t \in Turns \ Human
        THEN Begin(ss, [turn |-> t, kind |-> "selected", item |-> NoItem], admitted, rs)
        ELSE /\ sel' = IF t = Done THEN NoTurn ELSE t
             /\ life' = IF t = Done THEN "completed" ELSE "waiting"
             /\ cur' = 0 /\ wait' = NoWait /\ runs' = Left(rs, t)
             /\ starts' = ss
    BY DEF Select
<1>2. CASE t \in Turns \ Human
  <2> DEFINE start == [turn |-> t, kind |-> "selected", item |-> NoItem]
  <2>1. start \in Wanted /\ Nameable(start, rs)
      BY <1>2, SelectedFacts DEF Nameable
  <2>2. Begin(ss, start, admitted, rs)
      BY <1>1, <1>2
  <2> HIDE DEF start
  <2> QED BY <2>1, <2>2, BeginStep
<1>3. CASE t \notin Turns \ Human
  <2>1. /\ sel' = IF t = Done THEN NoTurn ELSE t
        /\ life' = IF t = Done THEN "completed" ELSE "waiting"
        /\ cur' = 0 /\ wait' = NoWait /\ runs' = Left(rs, t) /\ starts' = ss
      BY <1>1, <1>3
  <2>2. rs \in Seq(MappedRun) /\ ss \in Seq(Started) /\ Len(ss) \in Nat
      BY DEF Ledger
  <2>3. /\ SameItems(rs, runs')
        /\ \A r \in 1..Len(rs) : runs'[r].status = "active" => rs[r].status = "active" /\ rs[r].turn = t
      BY <2>1, <2>2, LeftFacts
  <2>4. Ledger(starts', runs')
      BY <2>1, <2>3, SameItemsLedger
  <2>5. t = Done => \A r \in 1..Len(rs) : rs[r].turn # t
    <3>1. \A r \in 1..Len(rs) : rs[r] \in MappedRun
        BY <2>2
    <3> QED BY <3>1, GatedAssumption DEF MappedRun
  <2>6. RunInPlace'
      BY <2>1, <2>3, <2>5 DEF RunInPlace, SameItems
  <2>7. ProcessTypes'
      BY <1>3, <2>1, <2>2, NoWaitFacts, GatedAssumption DEF ProcessTypes, Lives
  <2>8. WaitInPlace' /\ StartInPlace'
      BY <1>3, <2>1, NoWaitFacts, GatedAssumption DEF WaitInPlace, StartInPlace
  <2> QED BY <2>1, <2>4, <2>6, <2>7, <2>8, NoWaitFacts DEF ProcessInv
<1> QED BY <1>2, <1>3

\* What a superseded execution leaves.
LEMMA SupersededFacts ==
  ASSUME NEW rs, Ledger(starts, rs)
  PROVE  Ledger(Superseded, rs) /\ Superseded \in Seq(Started) /\ Len(Superseded) \in Nat
<1> DEFINE b(s) == s = cur /\ starts[s].state \in {"starting", "running"}
           a(s) == IF b(s) THEN [starts[s] EXCEPT !.state = "superseded"] ELSE starts[s]
           ts   == [s \in 1..Len(starts) |-> a(s)]
<1>1. /\ starts \in Seq(Started) /\ Len(starts) \in Nat /\ DOMAIN starts = 1..Len(starts)
      /\ \A s \in 1..Len(starts) : starts[s] \in Started
  <2>1. starts \in Seq(Started)
      BY DEF Ledger
  <2> QED BY <2>1
<1>2. Superseded = ts
    BY <1>1 DEF Superseded
<1>3. \A s \in 1..Len(starts) : /\ a(s) \in Started /\ a(s).start = starts[s].start
                                /\ a(s).state = "succeeded" <=> starts[s].state = "succeeded"
    BY <1>1 DEF Started, StartStates
<1> HIDE DEF a
<1>4. /\ ts \in Seq(Started) /\ Len(ts) = Len(starts)
      /\ \A s \in 1..Len(starts) : ts[s] = a(s)
    BY <1>1, <1>3
<1> HIDE DEF ts
<1>5. Ledger(ts, rs)
    BY <1>3, <1>4, RestateLedger
<1> QED BY <1>1, <1>2, <1>4, <1>5

LEMMA EndStep ==
  ASSUME ProcessInv, NEW outcome \in {"completed", "aborted"}, End(outcome), bound' \in BOOLEAN
  PROVE  ProcessInv'
<1>1. /\ starts' = Superseded /\ runs' = Aborted(runs)
      /\ life' = outcome /\ sel' = NoTurn /\ cur' = 0 /\ wait' = NoWait
    BY DEF End
<1>2. Ledger(starts, runs) /\ runs \in Seq(MappedRun)
    BY DEF ProcessInv, Ledger
<1>3. SameItems(runs, runs') /\ \A r \in 1..Len(runs) : runs'[r].status # "active"
    BY <1>1, <1>2, StoppedFacts DEF Aborted, RunStatuses
<1>4. Ledger(starts', runs') /\ Len(starts') \in Nat
    BY <1>1, <1>2, <1>3, SameItemsLedger, SupersededFacts
<1>5. ProcessTypes'
    BY <1>1, <1>4, NoWaitFacts DEF ProcessTypes, Lives
<1>6. WaitInPlace' /\ StartInPlace' /\ RunInPlace'
    BY <1>1, <1>3, NoWaitFacts DEF WaitInPlace, StartInPlace, RunInPlace, SameItems
<1> QED BY <1>1, <1>4, <1>5, <1>6, NoWaitFacts DEF ProcessInv

-----------------------------------------------------------------------------
(* One step of each operation *)

LEMMA CheckFacts ==
  ASSUME check \in Checks
  PROVE  [check EXCEPT !.fresh = FALSE] \in Checks /\ NoCheck \in Checks
BY DEF Checks, NoCheck, Verdicts

LEMMA StartProcessStep == GatedIInv /\ StartProcess => ProcessInv'
<1> SUFFICES ASSUME GatedIInv, StartProcess PROVE ProcessInv'
    OBVIOUS
<1> QED BY SelectStep DEF GatedIInv, ProcessInv, ProcessTypes, StartProcess

LEMMA ExecuteActionStep == GatedIInv /\ ExecuteAction => ProcessInv'
<1> SUFFICES ASSUME GatedIInv, ExecuteAction PROVE ProcessInv'
    OBVIOUS
<1> QED BY SelectStep DEF GatedIInv, ProcessInv, ProcessTypes, ExecuteAction

LEMMA ArmTurnWaitStep == GatedIInv /\ ArmTurnWait => ProcessInv'
<1> SUFFICES ASSUME GatedIInv, ArmTurnWait PROVE ProcessInv'
    OBVIOUS
<1> QED BY SelectStep DEF GatedIInv, ProcessInv, ProcessTypes, ArmTurnWait

LEMMA AbortProcessStep == GatedIInv /\ AbortProcess => ProcessInv'
<1> SUFFICES ASSUME GatedIInv, AbortProcess PROVE ProcessInv'
    OBVIOUS
<1> QED BY EndStep DEF GatedIInv, ProcessInv, ProcessTypes, AbortProcess

LEMMA InterruptStep == GatedIInv /\ Interrupt => ProcessInv'
<1> SUFFICES ASSUME GatedIInv, Interrupt PROVE ProcessInv'
    OBVIOUS
<1>1. PICK t \in Gated :
        /\ starts' = Superseded /\ runs' = Interrupted(runs)
        /\ life' = "waiting" /\ sel' = t /\ cur' = 0
        /\ wait' = Deferred([turn |-> t, kind |-> "selected", item |-> NoItem])
    BY DEF Interrupt
<1> DEFINE start == [turn |-> t, kind |-> "selected", item |-> NoItem]
<1>2. /\ Ledger(starts, runs) /\ runs \in Seq(MappedRun) /\ t \in Turns \ Human
      /\ wait \in Waits /\ Held(wait, runs) /\ bound' \in BOOLEAN
    BY GatedAssumption DEF GatedIInv, ProcessInv, ProcessTypes, Ledger, Interrupt
<1>3. /\ SameItems(runs, runs')
      /\ \A r \in 1..Len(runs) :
            runs'[r].status = IF runs[r].status = "active" THEN "interrupted" ELSE runs[r].status
    BY <1>1, <1>2, StoppedFacts DEF Interrupted, RunStatuses
<1>4. /\ Ledger(starts', runs') /\ Len(starts') \in Nat
      /\ \A s : WellNamed(s, runs) => WellNamed(s, runs')
    BY <1>1, <1>2, <1>3, SameItemsLedger, SupersededFacts
<1>5. \A s : WellNamed(s, runs) /\ Current(s, runs) => Current(s, runs')
    BY <1>3 DEF WellNamed, Current
<1>6. /\ start \in Wanted /\ start.turn = t /\ start.kind = "selected" /\ start.item = NoItem
      /\ wait' = Deferred(start)
    BY <1>1, <1>2, SelectedFacts
<1> HIDE DEF start
<1>7. /\ wait' \in Waits /\ wait'.on /\ wait'.status = "waiting"
      /\ wait'.start = start \/ (wait.on /\ wait'.start = wait.start /\ wait.start.turn = t)
    BY <1>2, <1>6, DeferredFacts
<1>8. Held(wait', runs')
    BY <1>2, <1>4, <1>5, <1>6, <1>7 DEF Held
<1>9. ProcessTypes'
    BY <1>1, <1>2, <1>4, <1>7 DEF ProcessTypes, Lives
<1>10. WaitInPlace' /\ StartInPlace' /\ RunInPlace'
    BY <1>1, <1>3, <1>6, <1>7 DEF WaitInPlace, StartInPlace, RunInPlace, SameItems
<1> QED BY <1>4, <1>8, <1>9, <1>10 DEF ProcessInv

\* The state of the current attempt changes, to one that is not success.
LEMMA RestatedFacts ==
  ASSUME NEW c \in 1..Len(starts), Ledger(starts, runs), starts[c].state # "succeeded",
         NEW state \in StartStates \ {"succeeded"}
  PROVE  LET ts == [starts EXCEPT ![c].state = state] IN
         /\ Ledger(ts, runs) /\ ts \in Seq(Started) /\ Len(ts) = Len(starts)
         /\ ts[c].start = starts[c].start /\ ts[c].state = state
<1> DEFINE ts == [starts EXCEPT ![c].state = state]
<1>1. /\ starts \in Seq(Started) /\ Len(starts) \in Nat /\ starts[c] \in Started
  <2>1. starts \in Seq(Started)
      BY DEF Ledger
  <2> QED BY <2>1
<1>2. [starts[c] EXCEPT !.state = state] \in Started
    BY <1>1 DEF Started
<1>3. /\ ts \in Seq(Started) /\ Len(ts) = Len(starts)
      /\ \A s \in 1..Len(starts) : /\ ts[s].start = starts[s].start
                                   /\ ts[s].state = IF s = c THEN state ELSE starts[s].state
    BY <1>1, <1>2 DEF Started
<1> HIDE DEF ts
<1>4. Ledger(ts, runs)
    BY <1>3, RestateLedger
<1>5. Ledger(ts, runs) /\ ts \in Seq(Started) /\ Len(ts) = Len(starts)
      /\ ts[c].start = starts[c].start /\ ts[c].state = state
    BY <1>3, <1>4
<1> QED BY <1>5 DEF ts

\* A process with a current attempt does not wait.
LEMMA CurrentFacts ==
  ASSUME ProcessInv, cur # 0
  PROVE  /\ cur \in 1..Len(starts) /\ ~wait.on /\ starts[cur] \in Started
         /\ WellNamed(starts[cur].start, runs) /\ sel = starts[cur].start.turn
<1>1. starts \in Seq(Started) /\ cur \in 0..Len(starts) /\ Len(starts) \in Nat
    BY DEF ProcessInv, ProcessTypes, Ledger
<1>2. cur \in 1..Len(starts)
    BY <1>1
<1>3. starts[cur] \in Started
    BY <1>1, <1>2
<1> QED BY <1>2, <1>3 DEF ProcessInv, WaitInPlace, StartInPlace, Ledger

LEMMA WorkerAcceptsStep == GatedIInv /\ WorkerAccepts => ProcessInv'
<1> SUFFICES ASSUME GatedIInv, WorkerAccepts PROVE ProcessInv'
    OBVIOUS
<1>1. /\ ProcessInv /\ cur # 0 /\ starts[cur].state = "starting"
      /\ starts' = [starts EXCEPT ![cur].state = "running"]
    BY DEF GatedIInv, WorkerAccepts
<1>2. UNCHANGED <<life, sel, cur, runs, wait, bound>>
    BY DEF WorkerAccepts
<1>3. cur \in 1..Len(starts) /\ Ledger(starts, runs)
    BY <1>1, CurrentFacts DEF ProcessInv
<1>4. /\ Ledger(starts', runs) /\ Len(starts') = Len(starts)
      /\ starts'[cur].start = starts[cur].start /\ starts'[cur].state = "running"
    BY <1>1, <1>3, RestatedFacts DEF StartStates
<1>5. StartInPlace'
    BY <1>1, <1>2, <1>4 DEF ProcessInv, StartInPlace
<1> QED BY <1>1, <1>2, <1>4, <1>5 DEF ProcessInv, ProcessTypes, WaitInPlace, RunInPlace

LEMMA TurnFailedStep == GatedIInv /\ TurnFailed => ProcessInv'
<1> SUFFICES ASSUME GatedIInv, TurnFailed PROVE ProcessInv'
    OBVIOUS
<1>1. /\ ProcessInv /\ cur # 0 /\ starts[cur].state \in {"starting", "running"}
      /\ life' = "error" /\ UNCHANGED <<sel, cur, runs, wait, bound>>
    BY DEF GatedIInv, TurnFailed
<1>2. cur \in 1..Len(starts) /\ Ledger(starts, runs) /\ ~wait.on
    BY <1>1, CurrentFacts DEF ProcessInv
<1>3. PICK state \in {"unprepared", "failed"} : starts' = [starts EXCEPT ![cur].state = state]
    BY <1>1 DEF TurnFailed
<1>4. /\ Ledger(starts', runs) /\ Len(starts') = Len(starts)
      /\ starts'[cur].start = starts[cur].start /\ starts'[cur].state = state
    BY <1>1, <1>2, <1>3, RestatedFacts DEF StartStates
<1>5. StartInPlace'
    BY <1>1, <1>4 DEF ProcessInv, StartInPlace
<1>6. WaitInPlace'
    BY <1>1, <1>2 DEF WaitInPlace
<1>7. ProcessTypes'
    BY <1>1, <1>4 DEF ProcessInv, ProcessTypes, Lives
<1> QED BY <1>1, <1>4, <1>5, <1>6, <1>7 DEF ProcessInv, RunInPlace

LEMMA NextItem ==
  ASSUME NEW start \in Wanted
  PROVE  [start EXCEPT !.kind = "selected", !.item.index = @ + 1]
           = [turn |-> start.turn, kind |-> "selected",
              item |-> [run |-> start.item.run, index |-> start.item.index + 1]]
<1> DEFINE y  == [start EXCEPT !.kind = "selected"]
           it == [run |-> start.item.run, index |-> start.item.index + 1]
<1>1. y \in Wanted /\ y.turn = start.turn /\ y.kind = "selected" /\ y.item = start.item
    BY DEF Wanted
<1>2. [start EXCEPT !.kind = "selected", !.item.index = @ + 1] = [y EXCEPT !.item.index = @ + 1]
    OBVIOUS
<1> HIDE DEF y
<1>3. [y EXCEPT !.item.index = @ + 1] = [y EXCEPT !.item = [y.item EXCEPT !.index = y.item.index + 1]]
    BY <1>1 DEF Wanted, Item
<1>4. start.item \in Item
    BY DEF Wanted
<1>5. [start.item EXCEPT !.index = start.item.index + 1] = it /\ it \in Item
    BY <1>4 DEF Item
<1>6. [y EXCEPT !.item.index = @ + 1] = [y EXCEPT !.item = it]
    BY <1>1, <1>3, <1>5
<1> HIDE DEF it
<1>7. [y EXCEPT !.item = it] = [turn |-> y.turn, kind |-> y.kind, item |-> it]
    BY <1>1, <1>5 DEF Wanted
<1> QED BY <1>1, <1>2, <1>6, <1>7 DEF it

\* The next item of a run that moved on is its current item.
LEMMA NextItemFacts ==
  ASSUME ProcessInv, cur # 0, starts[cur].state = "running", starts[cur].start.turn \in Mapped,
         CurrentItem(starts[cur].start),
         starts[cur].start.item.index < runs[starts[cur].start.item.run].count
  PROVE  LET start == starts[cur].start
             next  == [start EXCEPT !.kind = "selected", !.item.index = @ + 1]
             qs    == Completed(start.item.run)
         IN  /\ next \in Wanted /\ next.turn = start.turn /\ next.kind = "selected"
             /\ next.item.index > 1
             /\ WellNamed(next, qs) /\ Current(next, qs)
<1> DEFINE start == starts[cur].start
           r     == start.item.run
           i     == start.item.index
           next  == [start EXCEPT !.kind = "selected", !.item.index = @ + 1]
           qs    == Completed(r)
<1>1. cur \in 1..Len(starts) /\ starts[cur] \in Started /\ WellNamed(start, runs) /\ Ledger(starts, runs)
    BY CurrentFacts DEF ProcessInv
<1>2. /\ start \in Wanted /\ start.turn \in Mapped /\ r \in 1..Len(runs) /\ i \in 1..runs[r].count
      /\ runs[r].turn = start.turn /\ runs[r].next = i /\ i < runs[r].count
      /\ r \in Nat /\ i \in Nat
    BY <1>1 DEF Started, Wanted, Item, WellNamed, CurrentItem
<1>3. runs[r] \in MappedRun /\ runs[r].count \in Nat
  <2>1. runs \in Seq(MappedRun)
      BY <1>1 DEF Ledger
  <2>2. runs[r] \in MappedRun
      BY <1>2, <2>1, SMTT(30)
  <2> QED BY <2>2 DEF MappedRun
<1>4. /\ Len(qs) = Len(runs) /\ qs[r].turn = runs[r].turn /\ qs[r].count = runs[r].count
      /\ qs[r].next = runs[r].next + 1
      /\ qs[r].status = IF runs[r].next = runs[r].count THEN "completed" ELSE "active"
  <2>1. LET k == starts[cur].start.item.run IN
        /\ Len(Completed(k)) = Len(runs)
        /\ \A q \in 1..Len(runs) :
              /\ Completed(k)[q].turn = runs[q].turn
              /\ Completed(k)[q].count = runs[q].count
              /\ Completed(k)[q].next = IF q = k THEN runs[q].next + 1 ELSE runs[q].next
              /\ Completed(k)[q].status = IF q = k
                   THEN IF runs[q].next = runs[q].count THEN "completed" ELSE "active"
                   ELSE runs[q].status
      BY <1>1, ItemLedger
  <2> QED BY <1>2, <2>1
<1>5. next = [turn |-> start.turn, kind |-> "selected", item |-> [run |-> r, index |-> i + 1]]
    BY <1>2, NextItem, ZenonT(60)
<1> HIDE DEF qs, start, r, i, next
<1>6. /\ next \in Wanted /\ next.turn = start.turn /\ next.kind = "selected"
      /\ next.item.run = r /\ next.item.index = i + 1
    BY <1>2, <1>5 DEF Wanted, Item
<1>7. WellNamed(next, qs)
    BY <1>2, <1>3, <1>4, <1>6 DEF WellNamed
<1>8. Current(next, qs)
    BY <1>2, <1>3, <1>4, <1>6 DEF Current
<1>9. next.item.index > 1
    BY <1>2, <1>3, <1>6
<1> QED BY <1>6, <1>7, <1>8, <1>9 DEF next, qs, r, start

LEMMA TurnOutcomeStep == GatedIInv /\ TurnOutcome => ProcessInv'
<1> SUFFICES ASSUME GatedIInv, TurnOutcome PROVE ProcessInv'
    OBVIOUS
<1> DEFINE start == starts[cur].start
           r     == start.item.run
           done  == [starts EXCEPT ![cur].state = "succeeded"]
           next  == [start EXCEPT !.kind = "selected", !.item.index = @ + 1]
<1>1. /\ ProcessInv /\ cur # 0 /\ starts[cur].state = "running" /\ bound' = bound
    BY DEF GatedIInv, TurnOutcome
<1>2. /\ cur \in 1..Len(starts) /\ ~wait.on /\ starts[cur] \in Started /\ WellNamed(start, runs)
      /\ Ledger(starts, runs) /\ wait \in Waits /\ bound' \in BOOLEAN
    BY <1>1, CurrentFacts DEF ProcessInv, ProcessTypes
<1>3. \A rs : Held(wait, rs)
    BY <1>2 DEF Held
<1>4. ASSUME start.turn \in Mapped, CurrentItem(start)
      PROVE  Ledger(done, Completed(r))
    BY <1>1, <1>2, <1>4, ItemLedger
<1>5. CASE /\ start.turn \notin Mapped
           /\ \E t \in Turns \cup {Done} : <<sel, t>> \in Edges /\ Select(done, t, NoTurn, runs)
  <2>1. Ledger(done, runs)
      BY <1>2, <1>5, PlainLedger
  <2> HIDE DEF done
  <2> QED BY <1>2, <1>3, <1>5, <2>1, SelectStep
<1>6. CASE /\ start.turn \in Mapped /\ CurrentItem(start) /\ start.item.index < runs[r].count
           /\ Begin(done, next, NoTurn, Completed(r))
  <2>1. Ledger(done, Completed(r))
      BY <1>4, <1>6
  <2>2. next \in Wanted /\ WellNamed(next, Completed(r)) /\ Current(next, Completed(r))
      BY <1>1, <1>6, NextItemFacts
  <2>3. Begin(done, next, NoTurn, Completed(r))
      BY <1>6
  <2> HIDE DEF next, done, r
  <2> QED BY <1>2, <1>3, <2>1, <2>2, <2>3, BeginStep DEF Nameable
<1>7. CASE /\ start.turn \in Mapped /\ CurrentItem(start) /\ start.item.index = runs[r].count
           /\ \E t \in Turns \cup {Done} : <<sel, t>> \in Edges /\ Select(done, t, NoTurn, Completed(r))
  <2>1. Ledger(done, Completed(r))
      BY <1>4, <1>7
  <2> HIDE DEF done, r
  <2> QED BY <1>2, <1>3, <1>7, <2>1, SelectStep
<1>8. CASE /\ starts' = [starts EXCEPT ![cur].state = "failed"]
           /\ life' = "error" /\ UNCHANGED <<sel, cur, runs, wait>>
  <2>1. /\ Ledger(starts', runs) /\ Len(starts') = Len(starts)
        /\ starts'[cur].start = starts[cur].start /\ starts'[cur].state = "failed"
      BY <1>1, <1>2, <1>8, RestatedFacts DEF StartStates
  <2>2. StartInPlace'
      BY <1>1, <1>8, <2>1 DEF ProcessInv, StartInPlace
  <2>3. WaitInPlace'
      BY <1>1, <1>2, <1>8 DEF WaitInPlace
  <2>4. ProcessTypes'
      BY <1>1, <1>8, <2>1 DEF ProcessInv, ProcessTypes, Lives
  <2> QED BY <1>1, <1>8, <2>1, <2>2, <2>3, <2>4 DEF ProcessInv, RunInPlace
<1> QED BY <1>5, <1>6, <1>7, <1>8 DEF TurnOutcome

LEMMA RetryTurnStep == GatedIInv /\ RetryTurn => ProcessInv'
<1> SUFFICES ASSUME GatedIInv, RetryTurn PROVE ProcessInv'
    OBVIOUS
<1> DEFINE start == starts[cur].start
           next  == [start EXCEPT !.kind = "recovery"]
<1>1. /\ ProcessInv /\ cur # 0 /\ starts[cur].state \in {"unprepared", "failed"} /\ bound' = bound
      /\ Begin(starts, next, NoTurn, runs)
    BY DEF GatedIInv, RetryTurn
<1>2. /\ starts[cur] \in Started /\ WellNamed(start, runs) /\ Current(start, runs)
      /\ Ledger(starts, runs) /\ wait \in Waits /\ Held(wait, runs) /\ bound' \in BOOLEAN
    BY <1>1, CurrentFacts DEF ProcessInv, ProcessTypes, StartInPlace
<1>3. start \in Wanted
    BY <1>2 DEF Started
<1> HIDE DEF start
<1>4. next \in Wanted /\ next.turn = start.turn /\ next.item = start.item
    BY <1>3 DEF Wanted
<1> HIDE DEF next
<1>5. Nameable(next, runs)
    BY <1>2, <1>4 DEF Nameable, WellNamed, Current
<1> QED BY <1>1, <1>2, <1>4, <1>5, BeginStep

\* The wait changes in its status and its time, not in what it holds.
LEMMA WaitFacts ==
  ASSUME wait \in Waits, NEW st \in {"waiting", "error"}, NEW due \in BOOLEAN
  PROVE  LET w == [wait EXCEPT !.due = due, !.status = st] IN
         /\ w \in Waits /\ w.on = wait.on /\ w.start = wait.start /\ w.status = st
BY DEF Waits

\* Only the state of the wait changes.
LEMMA RewaitStep ==
  ASSUME ProcessInv, wait.on, NEW st \in {"waiting", "error"}, NEW due \in BOOLEAN,
         wait' = [wait EXCEPT !.due = due, !.status = st],
         life' = IF st = "error" THEN "error" ELSE "waiting",
         UNCHANGED <<sel, cur, starts, runs>>, bound' \in BOOLEAN
  PROVE  ProcessInv'
<1>1. wait' \in Waits /\ wait'.on /\ wait'.start = wait.start /\ wait'.status = st
    BY WaitFacts DEF ProcessInv, ProcessTypes
<1>2. Held(wait', runs)
    BY <1>1 DEF ProcessInv, Held
<1>3. ProcessTypes'
    BY <1>1 DEF ProcessInv, ProcessTypes, Lives
<1>4. WaitInPlace'
    BY <1>1 DEF ProcessInv, WaitInPlace
<1> QED BY <1>2, <1>3, <1>4 DEF ProcessInv, StartInPlace, RunInPlace

LEMMA RetryTurnWaitStep == GatedIInv /\ RetryTurnWait => ProcessInv'
<1> SUFFICES ASSUME GatedIInv, RetryTurnWait PROVE ProcessInv'
    OBVIOUS
<1>1. wait \in Waits
    BY DEF GatedIInv, ProcessInv, ProcessTypes
<1>2. wait' = [wait EXCEPT !.due = TRUE, !.status = "waiting"]
    BY <1>1 DEF RetryTurnWait, Waits
<1> QED BY <1>2, RewaitStep DEF GatedIInv, ProcessInv, ProcessTypes, RetryTurnWait

LEMMA ElapseStep == GatedIInv /\ Elapse => ProcessInv'
<1> SUFFICES ASSUME GatedIInv, Elapse PROVE ProcessInv'
    OBVIOUS
<1>1. wait \in Waits /\ wait.status \in {"waiting", "error"} /\ wait.on
    BY DEF GatedIInv, ProcessInv, ProcessTypes, Waits, Elapse
<1>2. wait' = [wait EXCEPT !.due = TRUE, !.status = wait.status]
    BY <1>1 DEF Elapse, Waits
<1>3. life = IF wait.status = "error" THEN "error" ELSE "waiting"
    BY <1>1 DEF GatedIInv, ProcessInv, WaitInPlace
<1> QED BY <1>1, <1>2, <1>3, RewaitStep DEF GatedIInv, ProcessInv, ProcessTypes, Elapse

\* The start that waits is admitted.
LEMMA AdmitStep ==
  ASSUME ProcessInv, wait.on, Admit, bound' = bound
  PROVE  ProcessInv'
<1>1. /\ Ledger(starts, runs) /\ wait \in Waits /\ Held(wait, runs) /\ bound' \in BOOLEAN
    BY DEF ProcessInv, ProcessTypes
<1>2. CASE Select(starts, wait.start.turn, wait.start.turn, runs)
    BY <1>1, <1>2, SelectStep
<1>3. CASE Begin(starts, wait.start, wait.start.turn, runs)
    BY <1>1, <1>3, BeginStep DEF Held, Nameable
<1>4. CASE UNCHANGED <<life, sel, cur, starts, runs, wait>>
    BY <1>4 DEF ProcessInv, ProcessTypes, WaitInPlace, StartInPlace, RunInPlace
<1> QED BY <1>2, <1>3, <1>4 DEF Admit

LEMMA SameProcess == ProcessInv /\ UNCHANGED process => ProcessInv'
BY DEF ProcessInv, ProcessTypes, WaitInPlace, StartInPlace, RunInPlace, process

LEMMA CheckEndsStep == GatedIInv /\ CheckEnds => ProcessInv'
<1> SUFFICES ASSUME GatedIInv, CheckEnds PROVE ProcessInv'
    OBVIOUS
<1>1. /\ ProcessInv /\ wait \in Waits /\ bound \in BOOLEAN
      /\ wait.on => life = IF wait.status = "error" THEN "error" ELSE "waiting"
    BY DEF GatedIInv, ProcessInv, ProcessTypes, WaitInPlace
<1>2. CASE UNCHANGED process
    BY <1>1, <1>2, SameProcess
<1>3. CASE MayResolve /\ Admit /\ UNCHANGED bound
    BY <1>1, <1>3, AdmitStep DEF MayResolve
<1>4. CASE (End("completed") \/ End("aborted")) /\ UNCHANGED bound
    BY <1>1, <1>4, EndStep
<1>5. CASE /\ MayResolve /\ bound' = TRUE /\ wait' = [wait EXCEPT !.due = TRUE]
           /\ UNCHANGED <<life, sel, cur, starts, runs>>
  <2>1. wait' = [wait EXCEPT !.due = TRUE, !.status = "waiting"] /\ life = "waiting" /\ wait.on
      BY <1>1, <1>5 DEF Waits, MayResolve
  <2> QED BY <1>1, <1>5, <2>1, RewaitStep
<1>6. CASE /\ MayResolve /\ wait' = [wait EXCEPT !.due = FALSE]
           /\ UNCHANGED <<life, sel, cur, starts, runs, bound>>
  <2>1. wait' = [wait EXCEPT !.due = FALSE, !.status = "waiting"] /\ life = "waiting" /\ wait.on
      BY <1>1, <1>6 DEF Waits, MayResolve
  <2> QED BY <1>1, <1>6, <2>1, RewaitStep
<1>7. CASE /\ MayResolve
           /\ wait' = [wait EXCEPT !.due = FALSE, !.status = "error"] /\ life' = "error"
           /\ UNCHANGED <<sel, cur, starts, runs, bound>>
    BY <1>1, <1>7, RewaitStep DEF MayResolve
<1> QED BY <1>2, <1>3, <1>4, <1>5, <1>6, <1>7 DEF CheckEnds

\* A check begins, or is outdated, or ends.
LEMMA CheckStep == GatedIInv /\ [Next]_vars => check' \in Checks
<1> SUFFICES ASSUME GatedIInv, [Next]_vars PROVE check' \in Checks
    OBVIOUS
<1>1. check \in Checks /\ [check EXCEPT !.fresh = FALSE] \in Checks /\ NoCheck \in Checks
    BY CheckFacts DEF GatedIInv
<1>2. CASE CheckBegins
  <2>1. \E v \in Verdicts \cup {"retry"} : check' = [on |-> TRUE, fresh |-> TRUE, says |-> v]
    <3>1. ASSUME NEW says \in Verdicts, NEW b \in BOOLEAN,
                 check' = [on |-> TRUE, fresh |-> TRUE, says |-> IF b THEN "error" ELSE says]
          PROVE  \E v \in Verdicts \cup {"retry"} : check' = [on |-> TRUE, fresh |-> TRUE, says |-> v]
        BY <3>1 DEF Verdicts
    <3>2. ASSUME NEW says \in IF open THEN {"ready"} ELSE Verdicts \ {"ready"},
                 check' = [on |-> TRUE, fresh |-> TRUE,
                           says |-> IF says = "bind" /\ (bound \/ ~wait.initial) THEN "error" ELSE says]
          PROVE  \E v \in Verdicts \cup {"retry"} : check' = [on |-> TRUE, fresh |-> TRUE, says |-> v]
      <4> DEFINE b == says = "bind" /\ (bound \/ ~wait.initial)
      <4>1. says \in Verdicts /\ b \in BOOLEAN
          BY DEF Verdicts
      <4>2. check' = [on |-> TRUE, fresh |-> TRUE, says |-> IF b THEN "error" ELSE says]
          BY <3>2
      <4> HIDE DEF b
      <4> QED BY <3>1, <4>1, <4>2
    <3> QED BY <1>2, <3>2 DEF CheckBegins
  <2> QED BY <2>1 DEF Checks
<1>3. CASE ~CheckBegins
  <2>1. check' \in {check, [check EXCEPT !.fresh = FALSE], NoCheck}
      BY <1>3 DEF Next, vars, StartProcess, ExecuteAction, AbortProcess, Interrupt, Observe,
         WorkerAccepts, TurnFailed, TurnOutcome, RetryTurn, RetryTurnWait, ArmTurnWait, CheckEnds,
         Elapse, GateMoves, ConfigurationMoves, ServerRestarts, Outdated, Unless
  <2> QED BY <1>1, <2>1
<1> QED BY <1>2, <1>3

-----------------------------------------------------------------------------
(* Inductive invariant *)

LEMMA GatedInit == Init => GatedIInv
<1> SUFFICES ASSUME Init PROVE GatedIInv
    OBVIOUS
<1>1. /\ cur = 0 /\ starts = <<>> /\ runs = <<>> /\ wait = NoWait /\ bound \in BOOLEAN
      /\ check = NoCheck /\ Len(starts) = 0 /\ Len(runs) = 0
      /\ starts \in Seq(Started) /\ runs \in Seq(MappedRun)
    BY DEF Init
<1>2. check \in Checks
    BY <1>1 DEF Checks, NoCheck, Verdicts
<1>3. Ledger(starts, runs)
    BY <1>1 DEF Ledger, Once
<1>4. ProcessTypes
    BY <1>1, NoWaitFacts, GatedAssumption DEF Init, ProcessTypes, Lives
<1>5. WaitInPlace /\ StartInPlace /\ RunInPlace
    BY <1>1, NoWaitFacts DEF Init, WaitInPlace, StartInPlace, RunInPlace
<1> QED BY <1>1, <1>2, <1>3, <1>4, <1>5, NoWaitFacts DEF GatedIInv, ProcessInv

LEMMA GatedNext == GatedIInv /\ [Next]_vars => GatedIInv'
<1> SUFFICES ASSUME GatedIInv, [Next]_vars PROVE ProcessInv'
    BY CheckStep DEF GatedIInv
<1>1. CASE UNCHANGED process
    BY <1>1, SameProcess DEF GatedIInv
<1>2. CASE Observe \/ CheckBegins \/ GateMoves \/ ConfigurationMoves \/ ServerRestarts
    BY <1>1, <1>2 DEF Observe, CheckBegins, GateMoves, ConfigurationMoves, ServerRestarts
<1>3. CASE UNCHANGED vars
    BY <1>1, <1>3 DEF vars, process
<1> QED BY <1>2, <1>3, StartProcessStep, ExecuteActionStep, AbortProcessStep, InterruptStep,
      WorkerAcceptsStep, TurnFailedStep, TurnOutcomeStep, RetryTurnStep, RetryTurnWaitStep,
      ArmTurnWaitStep, CheckEndsStep, ElapseStep DEF Next

LEMMA GatedFacts == GatedIInv => GatedInvariant
<1> SUFFICES ASSUME GatedIInv PROVE GatedInvariant
    OBVIOUS
<1>1. /\ ProcessTypes /\ Ledger(starts, runs) /\ WaitInPlace /\ StartInPlace /\ RunInPlace
      /\ Held(wait, runs) /\ check \in Checks
      /\ starts \in Seq(Started) /\ runs \in Seq(MappedRun)
    BY DEF GatedIInv, ProcessInv, Ledger
<1>2. DOMAIN starts = 1..Len(starts) /\ DOMAIN runs = 1..Len(runs)
    BY <1>1
<1>3. GatedTypeOK
  <2>1. wait.status \in {"waiting", "error"} /\ {wait.on, wait.due, wait.initial, bound} \subseteq BOOLEAN
      BY <1>1 DEF ProcessTypes, Waits
  <2>2. check.says \in Verdicts \cup {"retry"}
      BY <1>1 DEF Checks
  <2>3. \A r \in DOMAIN runs : runs[r].next \in 1 .. runs[r].count + 1
      BY <1>1, <1>2 DEF Ledger
  <2> QED BY <1>1, <2>1, <2>2, <2>3 DEF GatedTypeOK, ProcessTypes, Lives
<1>4. WaitHoldsTheTurn
    BY <1>1 DEF WaitHoldsTheTurn, WaitInPlace, Held
<1>5. ActiveRunIsSelected
  <2>1. \A r \in ActiveRuns(runs) : r \in 1..Len(runs) /\ runs[r].status = "active"
      BY <1>2 DEF ActiveRuns
  <2>2. ActiveRuns(runs) = {} \/ \E r : ActiveRuns(runs) = {r}
    <3>1. \A r, q \in ActiveRuns(runs) : r = q
        BY <1>1, <2>1 DEF Ledger
    <3> QED BY <3>1
  <2>3. Cardinality(ActiveRuns(runs)) \in {0, 1}
      BY <2>2, FS_EmptySet, FS_Singleton
  <2>4. Cardinality(ActiveRuns(runs)) <= 1
      BY <2>3
  <2> QED BY <1>1, <2>1, <2>4 DEF ActiveRunIsSelected, RunInPlace
<1>6. ItemsSucceedOnce
  <2> SUFFICES ASSUME NEW r \in 1..Len(runs), NEW i \in 1..runs[r].count
               PROVE  Cardinality({s \in DOMAIN starts :
                          /\ starts[s].start.item = [run |-> r, index |-> i]
                          /\ starts[s].state = "succeeded"}) = IF i < runs[r].next THEN 1 ELSE 0
      BY <1>2 DEF ItemsSucceedOnce
  <2>1. IF i < runs[r].next THEN \E s \in 1..Len(starts) : Collected(starts, r, i) = {s}
                            ELSE Collected(starts, r, i) = {}
      BY <1>1 DEF Ledger, Once
  <2>2. Cardinality(Collected(starts, r, i)) = IF i < runs[r].next THEN 1 ELSE 0
      BY <2>1, FS_EmptySet, FS_Singleton
  <2> QED BY <1>2, <2>2 DEF Collected
<1>7. AdmittedItemIsCurrent
  <2> SUFFICES ASSUME cur # 0, starts[cur].state \in {"starting", "running"},
                      starts[cur].start.turn \in Mapped
               PROVE  LET item == starts[cur].start.item IN
                      \/ CurrentItem(starts[cur].start)
                      \/ item # NoItem /\ runs[item.run].status = "interrupted"
      BY DEF AdmittedItemIsCurrent
  <2>1. WellNamed(starts[cur].start, runs) /\ Current(starts[cur].start, runs)
      BY <1>1, CurrentFacts DEF GatedIInv, StartInPlace
  <2> QED BY <1>2, <2>1 DEF WellNamed, Current, CurrentItem, NoItem
<1> QED BY <1>3, <1>4, <1>5, <1>6, <1>7 DEF GatedInvariant

-----------------------------------------------------------------------------
(* What a check starts *)

\* A start of a gated turn is created when it is admitted, or as the next item
\* of its run.
LEMMA BeginAdmits ==
  ASSUME NEW ss \in Seq(Started), NEW rs, NEW start \in Wanted, NEW admitted,
         Begin(ss, start, admitted, rs), Len(starts') > Len(ss),
         starts'[Len(starts')].start.turn \in Gated
  PROVE  \/ start.turn = admitted
         \/ start.item # NoItem /\ start.kind = "selected" /\ starts'[Len(starts')].start = start
<1>1. Len(ss) \in Nat /\ ~Defers(start, admitted)
    BY DEF Begin
<1>2. ASSUME NEW s, NEW qs, Create(ss, s, qs)
      PROVE  starts'[Len(starts')].start = s
  <2>1. PICK state : starts' = Append(ss, [start |-> s, state |-> state])
      BY <1>2 DEF Create
  <2> DEFINE a == [start |-> s, state |-> state]
  <2>2. a.start = s
      OBVIOUS
  <2> HIDE DEF a
  <2>3. Len(Append(ss, a)) = Len(ss) + 1 /\ Append(ss, a)[Len(ss) + 1] = a
      BY <1>1
  <2> QED BY <2>1, <2>2, <2>3 DEF a
<1>3. CASE start.turn \in Mapped /\ start.kind = "selected" /\ start.item = NoItem
  <2> DEFINE s == [start EXCEPT !.item = [run |-> Len(rs) + 1, index |-> 1]]
  <2>1. \E qs : Create(ss, s, qs)
      BY <1>1, <1>3 DEF Begin
  <2>2. s.turn = start.turn
      BY DEF Wanted
  <2> HIDE DEF s
  <2> QED BY <1>1, <1>2, <1>3, <2>1, <2>2 DEF Defers
<1>4. CASE ~(start.turn \in Mapped /\ start.kind = "selected" /\ start.item = NoItem)
  <2>1. Create(ss, start, Left(rs, start.turn))
      BY <1>1, <1>4 DEF Begin
  <2> QED BY <1>1, <1>2, <2>1 DEF Defers
<1> QED BY <1>3, <1>4

\* A selection creates a start of a gated turn only if it is admitted.
LEMMA SelectAdmits ==
  ASSUME NEW ss \in Seq(Started), NEW rs, NEW target, NEW admitted,
         Select(ss, target, admitted, rs), Len(starts') > Len(ss),
         starts'[Len(starts')].start.turn \in Gated
  PROVE  admitted \in Turns
<1>1. PICK t \in Turns \cup {Done} :
        IF t \in Turns \ Human
        THEN Begin(ss, [turn |-> t, kind |-> "selected", item |-> NoItem], admitted, rs)
        ELSE starts' = ss
    BY DEF Select
<1>2. Len(ss) \in Nat
    OBVIOUS
<1>3. t \in Turns \ Human
    BY <1>1, <1>2
<1> DEFINE start == [turn |-> t, kind |-> "selected", item |-> NoItem]
<1>4. start \in Wanted /\ start.turn = t /\ start.item = NoItem
    BY <1>3, SelectedFacts
<1>5. Begin(ss, start, admitted, rs)
    BY <1>1, <1>3
<1> HIDE DEF start
<1> QED BY <1>3, <1>4, <1>5, BeginAdmits

\* The starts an operation adds.
NewStart == starts'[Len(starts')].start
Adds == Len(starts') > Len(starts) /\ NewStart.turn \in Gated

LEMMA OutcomeAdmits ==
  ASSUME ProcessInv, TurnOutcome, Adds
  PROVE  NewStart.item.index > 1 /\ NewStart.kind = "selected"
<1> DEFINE start == starts[cur].start
           r     == start.item.run
           done  == [starts EXCEPT ![cur].state = "succeeded"]
           next  == [start EXCEPT !.kind = "selected", !.item.index = @ + 1]
<1>1. /\ cur # 0 /\ starts[cur].state = "running" /\ cur \in 1..Len(starts)
      /\ starts[cur] \in Started /\ starts \in Seq(Started) /\ Len(starts) \in Nat
    BY CurrentFacts DEF ProcessInv, Ledger, TurnOutcome
<1>2. done \in Seq(Started) /\ Len(done) = Len(starts)
  <2>1. [starts[cur] EXCEPT !.state = "succeeded"] \in Started
      BY <1>1 DEF Started, StartStates
  <2> QED BY <1>1, <2>1
<1>3. CASE \E t \in Turns \cup {Done}, rs \in {runs, Completed(r)} : Select(done, t, NoTurn, rs)
  <2>1. PICK t \in Turns \cup {Done}, rs \in {runs, Completed(r)} : Select(done, t, NoTurn, rs)
      BY <1>3
  <2> HIDE DEF done, r
  <2>2. NoTurn \in Turns
      BY <1>2, <2>1, SelectAdmits DEF Adds, NewStart
  <2> QED BY <2>2, GatedAssumption
<1>4. CASE /\ start.turn \in Mapped /\ CurrentItem(start) /\ start.item.index < runs[r].count
           /\ Begin(done, next, NoTurn, Completed(r))
  <2>1. next \in Wanted /\ next.kind = "selected" /\ next.item.index > 1 /\ next.turn \in Turns
    <3>1. next \in Wanted /\ next.kind = "selected" /\ next.item.index > 1
        BY <1>1, <1>4, NextItemFacts
    <3> HIDE DEF next
    <3> QED BY <3>1 DEF Wanted
  <2>2. Begin(done, next, NoTurn, Completed(r))
      BY <1>4
  <2> HIDE DEF next, done, r
  <2>3. next.turn = NoTurn \/ NewStart = next
      BY <1>2, <2>1, <2>2, BeginAdmits DEF Adds, NewStart
  <2> QED BY <2>1, <2>3, GatedAssumption
<1>5. CASE starts' = [starts EXCEPT ![cur].state = "failed"]
    BY <1>1, <1>5 DEF Adds
<1> QED BY <1>3, <1>4, <1>5 DEF TurnOutcome

LEMMA RetryAdmits ==
  ASSUME ProcessInv, RetryTurn, Adds
  PROVE  FALSE
<1> DEFINE start == starts[cur].start
           next  == [start EXCEPT !.kind = "recovery"]
<1>1. starts \in Seq(Started) /\ cur # 0 /\ Begin(starts, next, NoTurn, runs)
    BY DEF ProcessInv, Ledger, RetryTurn
<1>2. start \in Wanted
    BY <1>1, CurrentFacts DEF Started
<1> HIDE DEF start
<1>3. next \in Wanted /\ next.kind = "recovery" /\ next.turn \in Turns
    BY <1>2 DEF Wanted
<1> HIDE DEF next
<1>4. next.turn = NoTurn
    BY <1>1, <1>3, BeginAdmits DEF Adds, NewStart
<1> QED BY <1>3, <1>4, GatedAssumption

\* Any step but the end of a check adds a start of a gated turn only as the next
\* item of a run.
LEMMA OthersAdmit ==
  ASSUME GatedIInv, [Next]_vars, ~CheckEnds, Adds
  PROVE  NewStart.item.index > 1 /\ NewStart.kind = "selected"
<1>1. starts \in Seq(Started) /\ Len(starts) \in Nat /\ NoTurn \notin Turns /\ ProcessInv
    BY GatedAssumption DEF GatedIInv, ProcessInv, Ledger
<1>2. \A t : ~Select(starts, t, NoTurn, runs)
    BY <1>1, SelectAdmits DEF Adds, NewStart
<1>3. starts' # starts
    BY <1>1 DEF Adds
<1>4. starts' # Superseded
    BY <1>1, SupersededFacts DEF ProcessInv, Adds, Superseded
<1>5. \A c, s : starts' # [starts EXCEPT ![c].state = s]
    BY <1>1 DEF Adds
<1>6. ~WorkerAccepts /\ ~TurnFailed
    BY <1>5 DEF WorkerAccepts, TurnFailed
<1>7. ~StartProcess /\ ~ExecuteAction /\ ~ArmTurnWait
    BY <1>2 DEF StartProcess, ExecuteAction, ArmTurnWait
<1>8. ~AbortProcess /\ ~Interrupt
    BY <1>4 DEF AbortProcess, Interrupt, End
<1>9. /\ ~Observe /\ ~RetryTurnWait /\ ~CheckBegins /\ ~Elapse
      /\ ~GateMoves /\ ~ConfigurationMoves /\ ~ServerRestarts /\ ~UNCHANGED vars
    BY <1>3 DEF Observe, RetryTurnWait, CheckBegins, Elapse, GateMoves, ConfigurationMoves, ServerRestarts,
       process, vars
<1> QED BY <1>1, <1>6, <1>7, <1>8, <1>9, OutcomeAdmits, RetryAdmits DEF Next

\* A check that adds a start found the turn ready on inputs that are current.
LEMMA CheckAdmits ==
  ASSUME GatedIInv, CheckEnds, Adds
  PROVE  check.on /\ check.fresh /\ check.says = "ready" /\ ~check'.on
<1>1. starts \in Seq(Started) /\ Len(starts) \in Nat /\ ProcessInv
    BY DEF GatedIInv, ProcessInv, Ledger
<1>2. starts' # starts
    BY <1>1 DEF Adds
<1>3. starts' # Superseded
    BY <1>1, SupersededFacts DEF ProcessInv, Adds, Superseded
<1>4. check.on /\ ~check'.on
    BY DEF CheckEnds, NoCheck
<1>5. MayResolve /\ check.says = "ready"
    BY <1>2, <1>3 DEF CheckEnds, End, process
<1> QED BY <1>4, <1>5 DEF MayResolve

\* Nothing moves a process that ended.
LEMMA EndedStays == GatedIInv /\ [Next]_vars /\ Ended => UNCHANGED process
<1> SUFFICES ASSUME GatedIInv, [Next]_vars, Ended PROVE UNCHANGED process
    OBVIOUS
<1>1. sel = NoTurn /\ cur = 0 /\ ~wait.on /\ life \in {"completed", "aborted"}
    BY DEF GatedIInv, ProcessInv, WaitInPlace, Ended
<1>2. ~ExecuteAction
    BY <1>1, GatedAssumption DEF ExecuteAction
<1>3. CheckEnds => UNCHANGED process
    BY <1>1 DEF CheckEnds, MayResolve
<1>4. /\ ~StartProcess /\ ~AbortProcess /\ ~Interrupt /\ ~Observe /\ ~WorkerAccepts /\ ~TurnFailed
      /\ ~TurnOutcome /\ ~RetryTurn /\ ~RetryTurnWait /\ ~ArmTurnWait /\ ~CheckBegins
      /\ ~Elapse /\ ~GateMoves
    BY <1>1 DEF StartProcess, AbortProcess, Interrupt, Observe, WorkerAccepts, TurnFailed, TurnOutcome,
       RetryTurn, RetryTurnWait, ArmTurnWait, CheckBegins, Elapse, GateMoves, Ended
<1> QED BY <1>2, <1>3, <1>4 DEF Next, ConfigurationMoves, ServerRestarts, vars, process

-----------------------------------------------------------------------------
(* Theorems *)

\* The process, its wait and its mapped runs agree in every reachable state: a
\* process that waits executes nothing, a worker turn is never left with neither
\* a start nor a wait, at most one run is active, every item before the current
\* one was collected by exactly one attempt, and a worker is only started for
\* the current item of its run.
THEOREM GatedTurnsAgree == Spec => []GatedInvariant
<1>1. GatedIInv /\ [Next]_vars => GatedIInv'
    BY GatedNext
<1> QED BY GatedInit, <1>1, GatedFacts, PTL DEF Spec

\* A late readiness check starts nothing that was not admitted, and revives no
\* process that ended.
THEOREM LateChecksStartNothing == Spec => ChecksStartNothingElse
<1>1. GatedIInv /\ [Next]_vars => GatedIInv'
    BY GatedNext
<1>2. ASSUME GatedIInv, [Next]_vars
      PROVE  LET new == starts'[Len(starts')].start IN
             /\ Len(starts') > Len(starts) /\ new.turn \in Gated
                  => \/ check.on /\ check.fresh /\ check.says = "ready" /\ ~check'.on
                     \/ new.item.index > 1 /\ new.kind = "selected"
             /\ Ended => UNCHANGED process
  <2>1. Adds => \/ check.on /\ check.fresh /\ check.says = "ready" /\ ~check'.on
                \/ NewStart.item.index > 1 /\ NewStart.kind = "selected"
      BY <1>2, CheckAdmits, OthersAdmit
  <2>2. Ended => UNCHANGED process
      BY <1>2, EndedStays
  <2> QED BY <2>1, <2>2 DEF Adds, NewStart
<1>3. GatedIInv /\ [Next]_vars =>
        [LET new == starts'[Len(starts')].start IN
             /\ Len(starts') > Len(starts) /\ new.turn \in Gated
                  => \/ check.on /\ check.fresh /\ check.says = "ready" /\ ~check'.on
                     \/ new.item.index > 1 /\ new.kind = "selected"
             /\ Ended => UNCHANGED process]_vars
    BY <1>2
<1> QED BY GatedInit, <1>1, <1>3, PTL DEF Spec, ChecksStartNothingElse

-----------------------------------------------------------------------------
(***************************************************************************)
(* 3. ModelBlocks                                                          *)
(***************************************************************************)
(* What holds between two steps *)

Known == {NoStatuses} \cup [Models -> Statuses]
Applied == [todo : SUBSET Rows, row : Rows \cup {Nothing}, tries : {0, 1}, seen : Known, rev : Nat,
         base : Nat, restored : SUBSET Models, snapshot : Known, busy : BOOLEAN]
Budgets == [changes : 0..MaxProviderChanges, lapses : 0..MaxLapses, parks : 0..MaxParks,
         throws : 0..MaxThrows, restarts : 0..MaxBoots]

CacheTypes ==
    /\ up \in [Models -> BOOLEAN] /\ status \in [Models -> Statuses]
    /\ revision \in Nat /\ reading \in Known
UserTypes ==
    /\ DOMAIN rows \subseteq Rows /\ rows \in [DOMAIN rows -> [model : Models, block : BlockReasons]]
    /\ parked \in Models \cup {Nothing} /\ left \in Budgets

\* How many changes the cache has yet to see, of the status it has, the one
\* that is being read and the one the providers would answer.
Apart(a, b) == IF a = b THEN 0 ELSE 1
Lag == IF reading = NoStatuses THEN Apart(status, Answer)
          ELSE Apart(status, reading) + Apart(reading, Answer)

\* The revision moves with what it follows: a change moves it once, a lapse twice.
Revisions ==
    revision + Lag <= 2 * (MaxLapses - left.lapses) + (MaxProviderChanges - left.changes)

\* What an application knows of the statuses is current unless the revision moved.
Informed(w, rev, sts) ==
    /\ w.row # Nothing => w.row \notin w.todo /\ w.seen \in [Models -> Statuses]
    /\ w.row = Nothing => w.tries = 0
    /\ w.base <= rev /\ w.rev <= rev
    /\ w.busy => w.snapshot \in [Models -> Statuses]
    /\ w.busy /\ w.base = rev => w.snapshot = sts
    /\ w.row # Nothing /\ w.rev = rev => w.seen = sts
    /\ ~w.busy => w.row = Nothing /\ w.todo = {}

Works ==
    /\ work \in [Slots -> Applied]
    /\ \A i \in Slots : Informed(work[i], revision, status)
    /\ \A i \in Slots : work[i].row # Nothing => work[i].row \in DOMAIN rows
    /\ \A i, j \in Slots : work[i].row # Nothing /\ work[i].row = work[j].row => i = j

\* An evaluation that the cache overtook a second time parks its row, and with
\* one model only that means a transition of the row's own model was missed.
Doomed(i) == work[i].tries = 1 /\ work[i].rev # revision
Only(r) == Models = {rows[r].model}
Stuck(r) == ~Lifted(r) \/ (Only(r) /\ \E i \in Slots : work[i].row = r /\ Doomed(i))

\* An application has yet to come to the row, or to evaluate it to the end.
Owes(i, r) == r \in work[i].todo \/ (work[i].row = r /\ ~(Only(r) /\ Doomed(i)))

Owed ==
    ~Thrown => \A r \in DOMAIN rows \ dated :
        status[rows[r].model] = "available" /\ Stuck(r) => \E i \in Slots : Owes(i, r)

BlocksIInv == CacheTypes /\ UserTypes /\ Revisions /\ Works /\ Owed

\* What is known of the launches under way, and of the rows they left.
LaunchTypes ==
    /\ plan \in {NoPlan} \cup [model : Models, block : {Nothing, "model"}]
    /\ dated \subseteq DOMAIN rows

-----------------------------------------------------------------------------
(* Its records *)

LEMMA AnswerType == CacheTypes => Answer \in [Models -> Statuses]
BY DEF CacheTypes, Answer, Statuses

LEMMA FreeFacts ==
  /\ Free \in Applied /\ Free.row = Nothing /\ Free.todo = {} /\ ~Free.busy
  /\ Free.tries = 0
  /\ \A rev \in Nat : \A sts : Informed(Free, rev, sts)
<1>1. /\ Free \in Applied /\ Free.row = Nothing /\ Free.todo = {} /\ ~Free.busy
      /\ Free.tries = 0 /\ Free.base = 0 /\ Free.rev = 0
    BY DEF Free, Applied, Known
<1>2. ASSUME NEW rev \in Nat, NEW sts PROVE Informed(Free, rev, sts)
    BY <1>1 DEF Informed
<1> QED BY <1>1, <1>2

LEMMA ApplicationFacts ==
  ASSUME NEW todo \in SUBSET Rows, NEW restored \in SUBSET Models,
         NEW snapshot \in [Models -> Statuses], NEW rev \in Nat
  PROVE  LET a == Application(todo, restored, snapshot, rev) IN
         /\ a \in Applied /\ a.row = Nothing /\ a.todo = todo /\ a.tries = 0 /\ a.busy
         /\ Informed(a, rev, snapshot)
<1> DEFINE a == [Free EXCEPT !.todo = todo]
           b == [a EXCEPT !.restored = restored]
           c == [b EXCEPT !.snapshot = snapshot]
           d == [c EXCEPT !.base = rev]
           e == [d EXCEPT !.busy = TRUE]
<1>1. Application(todo, restored, snapshot, rev) = e
    BY DEF Application
<1>2. Free \in Applied /\ Free.row = Nothing /\ Free.tries = 0 /\ Free.rev = 0
    BY DEF Free, Applied, Known
<1>3. a \in Applied /\ a.row = Nothing /\ a.tries = 0 /\ a.rev = 0 /\ a.todo = todo
    BY <1>2 DEF Applied
<1> HIDE DEF a
<1>4. b \in Applied /\ b.row = Nothing /\ b.tries = 0 /\ b.rev = 0 /\ b.todo = todo
    BY <1>3 DEF Applied
<1> HIDE DEF b
<1>5. c \in Applied /\ c.row = Nothing /\ c.tries = 0 /\ c.rev = 0 /\ c.todo = todo /\ c.snapshot = snapshot
    BY <1>4 DEF Applied, Known
<1> HIDE DEF c
<1>6. d \in Applied /\ d.row = Nothing /\ d.tries = 0 /\ d.rev = 0 /\ d.todo = todo /\ d.snapshot = snapshot
      /\ d.base = rev
    BY <1>5 DEF Applied
<1> HIDE DEF d
<1>7. e \in Applied /\ e.row = Nothing /\ e.tries = 0 /\ e.rev = 0 /\ e.todo = todo /\ e.snapshot = snapshot
      /\ e.base = rev /\ e.busy
    BY <1>6 DEF Applied
<1> HIDE DEF e
<1>8. Informed(e, rev, snapshot)
    BY <1>7 DEF Informed
<1> QED BY <1>1, <1>7, <1>8

\* A move of the revision leaves what was known behind it.
LEMMA MovesOn ==
  ASSUME NEW w \in Applied, NEW rev \in Nat, NEW sts, Informed(w, rev, sts), NEW next
  PROVE  Informed(w, rev + 1, next)
BY DEF Informed, Applied

\* One slot is written.
LEMMA WriteWork ==
  ASSUME work \in [Slots -> Applied], NEW i \in Slots, NEW w \in Applied, work' = [work EXCEPT ![i] = w]
  PROVE  /\ work' \in [Slots -> Applied]
         /\ work'[i] = w /\ \A j \in Slots : j # i => work'[j] = work[j]
OBVIOUS

LEMMA WriteStep ==
  ASSUME Works, NEW i \in Slots, NEW w \in Applied, work' = [work EXCEPT ![i] = w],
         Informed(w, revision', status'),
         \A j \in Slots : j # i => Informed(work[j], revision', status'),
         w.row # Nothing => /\ w.row \in DOMAIN rows'
                            /\ \A j \in Slots : j # i => work[j].row # w.row,
         DOMAIN rows \subseteq DOMAIN rows'
  PROVE  Works'
<1>1. /\ work' \in [Slots -> Applied]
      /\ work'[i] = w /\ \A j \in Slots : j # i => work'[j] = work[j]
    BY WriteWork DEF Works
<1>2. ASSUME NEW j \in Slots PROVE Informed(work'[j], revision', status')
  <2>1. CASE j = i
      BY <1>1, <2>1
  <2>2. CASE j # i
      BY <1>1, <2>2
  <2> QED BY <2>1, <2>2
<1>4. ASSUME NEW j \in Slots PROVE work'[j].row # Nothing => work'[j].row \in DOMAIN rows'
    BY <1>1 DEF Works
<1>3. ASSUME NEW j \in Slots, NEW k \in Slots, work'[j].row # Nothing, work'[j].row = work'[k].row
      PROVE  j = k
    BY <1>1, <1>3 DEF Works
<1> QED BY <1>1, <1>2, <1>3, <1>4 DEF Works

\* A slot settles, and no other slot is touched.
LEMMA SettledFacts ==
  ASSUME NEW w \in Applied
  PROVE  /\ Settled(w) \in Applied /\ Settled(w).row = Nothing /\ Settled(w).tries = 0
         /\ Settled(w).todo = w.todo /\ Settled(w).busy = w.busy /\ Settled(w).base = w.base
         /\ Settled(w).rev = 0 /\ Settled(w).snapshot = w.snapshot
<1> DEFINE a == [w EXCEPT !.row = Nothing]
           b == [a EXCEPT !.tries = 0]
           c == [b EXCEPT !.seen = NoStatuses]
           d == [c EXCEPT !.rev = 0]
<1>1. Settled(w) = d
    BY DEF Settled
<1>2. a \in Applied /\ a.row = Nothing /\ a.todo = w.todo /\ a.busy = w.busy /\ a.base = w.base
      /\ a.snapshot = w.snapshot
    BY DEF Applied
<1> HIDE DEF a
<1>3. b \in Applied /\ b.row = Nothing /\ b.tries = 0 /\ b.todo = w.todo /\ b.busy = w.busy
      /\ b.base = w.base /\ b.snapshot = w.snapshot
    BY <1>2 DEF Applied
<1> HIDE DEF b
<1>4. c \in Applied /\ c.row = Nothing /\ c.tries = 0 /\ c.todo = w.todo /\ c.busy = w.busy
      /\ c.base = w.base /\ c.snapshot = w.snapshot
    BY <1>3 DEF Applied, Known
<1> HIDE DEF c
<1>5. d \in Applied /\ d.row = Nothing /\ d.tries = 0 /\ d.todo = w.todo /\ d.busy = w.busy
      /\ d.base = w.base /\ d.snapshot = w.snapshot /\ d.rev = 0
    BY <1>4 DEF Applied
<1> HIDE DEF d
<1> QED BY <1>1, <1>5

LEMMA SettledInformed ==
  ASSUME NEW w \in Applied, NEW rev \in Nat, NEW sts, Informed(w, rev, sts)
  PROVE  Informed(Settled(w), rev, sts)
BY SettledFacts DEF Informed, Applied

\* A budget is spent.
LEMMA SpendFacts ==
  ASSUME left \in Budgets
  PROVE  /\ Spend("changes") => left' \in Budgets /\ left'.changes = left.changes - 1 /\ left'.lapses = left.lapses /\ left'.throws = left.throws
         /\ Spend("lapses") => left' \in Budgets /\ left'.changes = left.changes /\ left'.lapses = left.lapses - 1 /\ left'.throws = left.throws
         /\ Spend("parks") => left' \in Budgets /\ left'.changes = left.changes /\ left'.lapses = left.lapses /\ left'.throws = left.throws
         /\ Spend("throws") => left' \in Budgets /\ left'.changes = left.changes /\ left'.lapses = left.lapses /\ left'.throws = left.throws - 1
         /\ Spend("restarts") => left' \in Budgets /\ left'.changes = left.changes /\ left'.lapses = left.lapses /\ left'.throws = left.throws
<1> USE ModelBlocksAssumption DEF Budgets, Spend
<1>1. Spend("changes") => left' \in Budgets /\ left'.changes = left.changes - 1 /\ left'.lapses = left.lapses /\ left'.throws = left.throws
    OBVIOUS
<1>2. Spend("lapses") => left' \in Budgets /\ left'.changes = left.changes /\ left'.lapses = left.lapses - 1 /\ left'.throws = left.throws
    OBVIOUS
<1>3. Spend("parks") => left' \in Budgets /\ left'.changes = left.changes /\ left'.lapses = left.lapses /\ left'.throws = left.throws
    OBVIOUS
<1>4. Spend("throws") => left' \in Budgets /\ left'.changes = left.changes /\ left'.lapses = left.lapses /\ left'.throws = left.throws - 1
    OBVIOUS
<1>5. Spend("restarts") => left' \in Budgets /\ left'.changes = left.changes /\ left'.lapses = left.lapses /\ left'.throws = left.throws
    OBVIOUS
<1> QED BY <1>1, <1>2, <1>3, <1>4, <1>5

-----------------------------------------------------------------------------
(* One step of each operation *)

\* Steps that leave the cache's status and revision, the rows and the work alone.
LEMMA IdleStep ==
  ASSUME BlocksIInv, UNCHANGED <<status, revision, rows, dated, work>>, left'.throws <= left.throws,
         CacheTypes', UserTypes', Revisions'
  PROVE  BlocksIInv'
<1>1. Works'
    BY DEF BlocksIInv, Works
<1>2. Thrown => Thrown'
    BY ModelBlocksAssumption DEF BlocksIInv, UserTypes, Budgets, Thrown
<1>3. Owed'
    BY <1>2 DEF BlocksIInv, Owed, Stuck, Owes, Lifted, Only, Doomed
<1> QED BY <1>1, <1>3 DEF BlocksIInv

LEMMA BudgetFacts ==
  ASSUME left \in Budgets
  PROVE  /\ left.lapses \in Nat /\ left.lapses <= MaxLapses /\ MaxLapses \in Nat
         /\ left.changes \in Nat /\ left.changes <= MaxProviderChanges /\ MaxProviderChanges \in Nat
         /\ left.throws \in Nat /\ left.throws <= MaxThrows /\ MaxThrows \in Nat
BY ModelBlocksAssumption DEF Budgets

LEMMA ProviderChangesStep ==
  ASSUME BlocksIInv, NEW m \in Models, ProviderChanges(m)
  PROVE  BlocksIInv'
<1>1. /\ left \in Budgets /\ Spend("changes") /\ up' = [up EXCEPT ![m] = ~@]
      /\ UNCHANGED <<status, revision, reading, rows, dated, parked, work>>
    BY DEF BlocksIInv, UserTypes, ProviderChanges, launches
<1>2. left' \in Budgets /\ left'.changes = left.changes - 1 /\ left'.lapses = left.lapses /\ left'.throws = left.throws
    BY <1>1, SpendFacts
<1>3. Lag \in Nat /\ Lag' \in Nat /\ Lag' <= Lag + 1
    BY <1>1 DEF Lag, Apart
<1>4. Revisions'
    BY <1>1, <1>2, <1>3, BudgetFacts DEF BlocksIInv, CacheTypes, Revisions
<1>5. CacheTypes'
    BY <1>1 DEF BlocksIInv, CacheTypes
<1>6. UserTypes'
    BY <1>1, <1>2 DEF BlocksIInv, UserTypes
<1>7. left'.throws <= left.throws
    BY <1>1, <1>2, BudgetFacts
<1> QED BY <1>1, <1>4, <1>5, <1>6, <1>7, IdleStep

LEMMA RefreshReadsStep ==
  ASSUME BlocksIInv, RefreshReads
  PROVE  BlocksIInv'
<1>1. /\ left \in Budgets /\ reading = NoStatuses
      /\ UNCHANGED <<up, status, revision, rows, dated, parked, work>>
      /\ Answer \in [Models -> Statuses] /\ Answer' = Answer
    BY AnswerType DEF BlocksIInv, UserTypes, RefreshReads, Answer, launches
<1>2. CASE reading' = Answer /\ left' = left
  <2>1. Lag' = Lag /\ Lag \in Nat
      BY <1>1, <1>2 DEF Lag, Apart
  <2>2. Revisions'
      BY <1>1, <1>2, <2>1 DEF BlocksIInv, Revisions
  <2>3. CacheTypes' /\ UserTypes'
      BY <1>1, <1>2 DEF BlocksIInv, CacheTypes, UserTypes, Known
  <2>4. left'.throws <= left.throws
      BY <1>1, <1>2, BudgetFacts
  <2> QED BY <1>1, <2>2, <2>3, <2>4, IdleStep
<1>3. CASE Spend("lapses") /\ \E m \in Models : reading' = [Answer EXCEPT ![m] = "stale"]
  <2>1. left' \in Budgets /\ left'.changes = left.changes /\ left'.lapses = left.lapses - 1 /\ left'.throws = left.throws
      BY <1>1, <1>3, SpendFacts
  <2>2. Lag \in Nat /\ Lag' \in Nat /\ Lag' <= Lag + 2
      BY <1>1 DEF Lag, Apart
  <2>3. Revisions'
      BY <1>1, <2>1, <2>2, BudgetFacts DEF BlocksIInv, CacheTypes, Revisions
  <2>4. reading' \in Known
      BY <1>1, <1>3 DEF Known, Statuses
  <2>5. CacheTypes' /\ UserTypes'
      BY <1>1, <2>1, <2>4 DEF BlocksIInv, CacheTypes, UserTypes
  <2>6. left'.throws <= left.throws
      BY <1>1, <2>1, BudgetFacts
  <2> QED BY <1>1, <2>3, <2>5, <2>6, IdleStep
<1> QED BY <1>2, <1>3 DEF RefreshReads

LEMMA StartParksStep ==
  ASSUME BlocksIInv, NEW m \in Models, StartParks(m)
  PROVE  BlocksIInv'
<1>1. /\ left \in Budgets /\ Spend("parks") /\ parked' = m
      /\ UNCHANGED <<up, status, revision, reading, rows, dated, work>>
    BY DEF BlocksIInv, UserTypes, StartParks, launches
<1>2. left' \in Budgets /\ left'.changes = left.changes /\ left'.lapses = left.lapses /\ left'.throws = left.throws
    BY <1>1, SpendFacts
<1>3. Lag' = Lag
    BY <1>1 DEF Lag, Answer
<1>4. Revisions'
    BY <1>1, <1>2, <1>3 DEF BlocksIInv, Revisions
<1>5. CacheTypes' /\ UserTypes'
    BY <1>1, <1>2 DEF BlocksIInv, CacheTypes, UserTypes
<1>6. left'.throws <= left.throws
    BY <1>1, <1>2, BudgetFacts
<1> QED BY <1>1, <1>4, <1>5, <1>6, IdleStep

\* The statuses expire: none is available until the next refresh commits.
LEMMA ExpireStep ==
  ASSUME BlocksIInv, Expire
  PROVE  BlocksIInv'
<1>1. /\ left \in Budgets /\ Spend("lapses") /\ status' = [m \in Models |-> "stale"]
      /\ revision' = revision + 1 /\ revision \in Nat
      /\ UNCHANGED <<up, reading, rows, dated, parked, work>> /\ Works /\ UserTypes
    BY DEF BlocksIInv, UserTypes, CacheTypes, Expire, launches
<1>2. left' \in Budgets /\ left'.changes = left.changes /\ left'.lapses = left.lapses - 1 /\ left'.throws = left.throws
    BY <1>1, SpendFacts
<1>3. Lag \in Nat /\ Lag' \in Nat /\ Lag' <= Lag + 1
    BY <1>1 DEF Lag, Apart, Answer
<1>4. Revisions'
    BY <1>1, <1>2, <1>3, BudgetFacts DEF BlocksIInv, Revisions
<1>5. CacheTypes' /\ UserTypes'
    BY <1>1, <1>2 DEF BlocksIInv, CacheTypes, UserTypes, Statuses
<1>6. Works'
  <2>1. \A i \in Slots : work[i] \in Applied /\ Informed(work[i], revision, status)
      BY <1>1 DEF Works
  <2>2. \A i \in Slots : Informed(work[i], revision + 1, status')
      BY <1>1, <2>1, MovesOn
  <2> QED BY <1>1, <2>2 DEF Works
<1>7. \A r \in DOMAIN rows : status'[rows[r].model] # "available"
  <2>1. \A r \in DOMAIN rows : rows[r].model \in Models
      BY <1>1 DEF UserTypes
  <2> QED BY <1>1, <2>1
<1>8. Owed'
    BY <1>1, <1>7 DEF Owed
<1> QED BY <1>4, <1>5, <1>6, <1>8 DEF BlocksIInv

\* The refresh commits: the rows of the models that changed are candidates of a
\* new application, the others are as they were.
LEMMA RefreshCommitsStep ==
  ASSUME BlocksIInv, RefreshCommits
  PROVE  BlocksIInv'
<1>1. /\ CacheTypes /\ UserTypes /\ Works /\ Revisions /\ Owed
      /\ reading # NoStatuses /\ reading' = NoStatuses /\ status' = reading
      /\ UNCHANGED <<up, rows, dated, parked, left>>
      /\ reading \in [Models -> Statuses] /\ status \in [Models -> Statuses] /\ revision \in Nat
    BY DEF BlocksIInv, CacheTypes, Known, RefreshCommits, launches
<1>2. Answer \in [Models -> Statuses] /\ Answer' = Answer
    BY <1>1, AnswerType DEF Answer
<1>3. UserTypes'
    BY <1>1 DEF UserTypes
<1>4. CASE Changed = {}
  <2>1. reading = status
      BY <1>1, <1>4 DEF Changed
  <2>2. UNCHANGED <<revision, work, status>>
      BY <1>1, <1>4, <2>1 DEF RefreshCommits
  <2>3. CacheTypes'
      BY <1>1, <2>2 DEF CacheTypes, Known
  <2>4. Lag' = Lag /\ Lag \in Nat
      BY <1>1, <1>2, <2>1, <2>2 DEF Lag, Apart
  <2>5. Revisions'
      BY <1>1, <2>2, <2>4 DEF Revisions
  <2>6. left.throws <= left.throws
      BY <1>1, BudgetFacts DEF UserTypes
  <2> QED BY <1>1, <1>3, <2>2, <2>3, <2>5, <2>6, IdleStep
<1>5. CASE Changed # {}
  <2> DEFINE a == Application(Candidates(Changed),
                    {m \in Changed : reading[m] = "available"}, reading, revision + 1)
  <2>1. PICK i \in Slots : /\ ~work[i].busy /\ work' = [work EXCEPT ![i] = a]
                           /\ revision' = revision + 1
      BY <1>5 DEF RefreshCommits
  <2>2. /\ a \in Applied /\ a.row = Nothing /\ a.todo = Candidates(Changed)
        /\ a.tries = 0 /\ Informed(a, revision + 1, reading)
    <3>1. Candidates(Changed) \in SUBSET Rows /\ {m \in Changed : reading[m] = "available"} \in SUBSET Models
        BY <1>1 DEF Candidates, Changed, UserTypes
    <3> QED BY <1>1, <3>1, ApplicationFacts
  <2> HIDE DEF a
  <2>3. \A j \in Slots : Informed(work[j], revision', status')
    <3>1. \A j \in Slots : Informed(work[j], revision, status)
        BY <1>1 DEF Works
    <3>2. \A j \in Slots : work[j] \in Applied
        BY <1>1 DEF Works
    <3> QED BY <1>1, <2>1, <3>1, <3>2, MovesOn
  <2>4. Informed(a, revision', status')
      BY <1>1, <2>1, <2>2
  <2>5. Works'
      BY <1>1, <2>1, <2>2, <2>3, <2>4, WriteStep
  <2>6. CacheTypes'
      BY <1>1, <2>1 DEF CacheTypes, Known
  <2>7. Lag \in Nat /\ Lag' \in Nat /\ Lag' + 1 <= Lag
    <3>1. status # reading
        BY <1>1, <1>5 DEF Changed
    <3> QED BY <1>1, <1>2, <3>1 DEF Lag, Apart
  <2>8. Revisions'
      BY <1>1, <2>1, <2>7, BudgetFacts DEF Revisions, UserTypes
  <2>9. Owed'
    <3> SUFFICES ASSUME ~Thrown', NEW r \in DOMAIN rows' \ dated', status'[rows'[r].model] = "available",
                        Stuck(r)'
                 PROVE  \E j \in Slots : Owes(j, r)'
        BY DEF Owed
    <3>1. r \in DOMAIN rows /\ rows'[r] = rows[r] /\ rows[r].model \in Models /\ ~Thrown
        BY <1>1 DEF UserTypes, Thrown
    <3>2. work'[i] = a /\ \A j \in Slots : j # i => work'[j] = work[j]
        BY <1>1, <2>1, <2>2 DEF Works
    <3>3. CASE rows[r].model \in Changed
      <4>1. r \in a.todo
          BY <2>2, <3>1, <3>3 DEF Candidates
      <4> QED BY <3>2, <4>1 DEF Owes
    <3>4. CASE rows[r].model \notin Changed
      <4>1. status[rows[r].model] = "available" /\ ~Only(r)
          BY <1>1, <1>5, <3>1, <3>4 DEF Changed, Only
      <4>2. Only(r)' = Only(r) /\ Lifted(r)' = Lifted(r)
          BY <1>1 DEF Only, Lifted
      <4>3. Stuck(r)
          BY <4>1, <4>2 DEF Stuck
      <4>4. PICK j \in Slots : Owes(j, r)
          BY <1>1, <3>1, <4>1, <4>3 DEF Owed
      <4>5. j # i
        <5>1. work[i].todo = {} /\ work[i].row = Nothing
            BY <1>1, <2>1 DEF Works, Informed
        <5>2. r # Nothing
            BY <1>1, ModelBlocksAssumption DEF UserTypes
        <5> QED BY <4>4, <5>1, <5>2 DEF Owes
      <4>6. Owes(j, r)'
          BY <3>2, <4>1, <4>2, <4>4, <4>5 DEF Owes
      <4> QED BY <4>6
    <3> QED BY <3>3, <3>4
  <2> QED BY <1>3, <2>5, <2>6, <2>8, <2>9 DEF BlocksIInv
<1> QED BY <1>4, <1>5

\* A new server reads the statuses anew and has every row to revalidate.
LEMMA BootStep ==
  ASSUME BlocksIInv, Boot
  PROVE  BlocksIInv'
<1>1. /\ CacheTypes /\ UserTypes /\ Spend("restarts") /\ status' = Answer /\ revision' = 0
      /\ reading' = NoStatuses /\ UNCHANGED <<up, rows, dated, parked>> /\ left \in Budgets
    BY DEF BlocksIInv, UserTypes, Boot
<1>2. left' \in Budgets /\ left'.changes = left.changes /\ left'.lapses = left.lapses /\ left'.throws = left.throws
    BY <1>1, SpendFacts
<1>3. Answer \in [Models -> Statuses] /\ Answer' = Answer
    BY <1>1, AnswerType DEF Answer
<1> DEFINE a == Application(DOMAIN rows, Models, Answer, 0)
<1>4. PICK i \in Slots : work' = [j \in Slots |-> IF j = i THEN a ELSE Free]
    BY DEF Boot
<1>5. /\ a \in Applied /\ a.row = Nothing /\ a.todo = DOMAIN rows /\ Informed(a, 0, Answer)
    BY <1>1, <1>3, ApplicationFacts DEF UserTypes
<1> HIDE DEF a
<1>6. /\ work' \in [Slots -> Applied] /\ work'[i] = a
      /\ \A j \in Slots : j # i => work'[j] = Free
    BY <1>4, <1>5, FreeFacts
<1>7. \A j \in Slots : Informed(work'[j], revision', status')
  <2> SUFFICES ASSUME NEW j \in Slots PROVE Informed(work'[j], 0, Answer)
      BY <1>1
  <2>1. CASE j = i
      BY <1>5, <1>6, <2>1
  <2>2. CASE j # i
      BY <1>6, <2>2, FreeFacts
  <2> QED BY <2>1, <2>2
<1>8. \A j \in Slots : work'[j].row = Nothing
    BY <1>5, <1>6, FreeFacts
<1>9. Works'
    BY <1>6, <1>7, <1>8 DEF Works
<1>10. CacheTypes' /\ UserTypes'
    BY <1>1, <1>2, <1>3 DEF CacheTypes, UserTypes, Known
<1>11. Lag' = 0
    BY <1>1, <1>3 DEF Lag, Apart
<1>12. Revisions'
    BY <1>1, <1>2, <1>11, BudgetFacts DEF Revisions
<1>13. Owed'
    BY <1>1, <1>5, <1>6 DEF Owed, Owes
<1> QED BY <1>9, <1>10, <1>12, <1>13 DEF BlocksIInv

LEMMA SameCache ==
  ASSUME CacheTypes, Revisions, UNCHANGED <<up, status, revision, reading>>,
         left'.lapses = left.lapses, left'.changes = left.changes
  PROVE  CacheTypes' /\ Revisions'
<1>1. Lag' = Lag
    BY DEF Lag, Answer
<1> QED BY <1>1 DEF CacheTypes, Revisions

\* A candidate is taken up.
Taken(w, r, row) ==
    [w EXCEPT !.todo = w.todo \ {r}, !.row = row, !.seen = w.snapshot, !.rev = w.base]

LEMMA TakenFacts ==
  ASSUME NEW w \in Applied, NEW r \in w.todo, NEW row \in {r, Nothing}, NEW x,
         x = Taken(w, r, row)
  PROVE  /\ x \in Applied /\ x.row = row /\ x.tries = w.tries /\ x.todo = w.todo \ {r}
         /\ x.busy = w.busy /\ x.base = w.base /\ x.rev = w.base
         /\ x.seen = w.snapshot /\ x.snapshot = w.snapshot
<1> DEFINE a == [w EXCEPT !.todo = w.todo \ {r}]
           b == [a EXCEPT !.row = row]
           c == [b EXCEPT !.seen = w.snapshot]
           d == [c EXCEPT !.rev = w.base]
<1>1. w.todo \in SUBSET Rows /\ r \in Rows /\ w.snapshot \in Known /\ w.base \in Nat
    BY DEF Applied
<1>2. a \in Applied /\ a.todo = w.todo \ {r} /\ a.tries = w.tries /\ a.busy = w.busy /\ a.base = w.base
      /\ a.snapshot = w.snapshot
  <2>1. w.todo \ {r} \in SUBSET Rows
      BY <1>1
  <2> QED BY <2>1 DEF Applied
<1> HIDE DEF a
<1>3. b \in Applied /\ b.row = row /\ b.tries = w.tries /\ b.todo = w.todo \ {r} /\ b.busy = w.busy
      /\ b.base = w.base /\ b.snapshot = w.snapshot
    BY <1>1, <1>2 DEF Applied
<1> HIDE DEF b
<1>4. c \in Applied /\ c.row = row /\ c.tries = w.tries /\ c.todo = w.todo \ {r} /\ c.busy = w.busy
      /\ c.base = w.base /\ c.snapshot = w.snapshot /\ c.seen = w.snapshot
    BY <1>1, <1>3 DEF Applied
<1> HIDE DEF c
<1>5. d \in Applied /\ d.row = row /\ d.tries = w.tries /\ d.todo = w.todo \ {r} /\ d.busy = w.busy
      /\ d.base = w.base /\ d.snapshot = w.snapshot /\ d.seen = w.snapshot /\ d.rev = w.base
    BY <1>1, <1>4 DEF Applied
<1> HIDE DEF d
<1>6. x = d
    BY DEF Taken, d, c, b, a
<1> QED BY <1>5, <1>6

LEMMA ReconcileRowStep ==
  ASSUME BlocksIInv, NEW i \in Slots, NEW r \in Rows, ReconcileRow(i, r)
  PROVE  BlocksIInv'
<1> DEFINE w   == work[i]
           row == IF r \in DOMAIN rows THEN r ELSE Nothing
           a   == [w EXCEPT !.todo = w.todo \ {r}, !.row = row, !.seen = w.snapshot, !.rev = w.base]
<1>1. /\ CacheTypes /\ UserTypes /\ Works /\ Revisions /\ Owed
      /\ w.busy /\ w.row = Nothing /\ r \in w.todo /\ ~Locked(r)
      /\ UNCHANGED <<up, status, revision, reading, rows, dated, parked, left>>
    BY DEF BlocksIInv, ReconcileRow, launches
<1>2. w \in Applied /\ Informed(w, revision, status)
    BY <1>1 DEF Works
<1>3. work' = [work EXCEPT ![i] = a]
    BY DEF ReconcileRow
<1>4. row \in {r, Nothing} /\ (row # Nothing => row \in DOMAIN rows) /\ r # Nothing
    BY ModelBlocksAssumption
<1> HIDE DEF row, w
<1>12. a = Taken(w, r, row)
    BY DEF Taken
<1> HIDE DEF a
<1>5. /\ a \in Applied /\ a.row = row /\ a.tries = w.tries /\ a.todo = w.todo \ {r}
      /\ a.busy = w.busy /\ a.base = w.base /\ a.rev = w.base
      /\ a.seen = w.snapshot /\ a.snapshot = w.snapshot
  <2>1. w \in Applied /\ r \in w.todo /\ row \in {r, Nothing}
      BY <1>1, <1>2, <1>4
  <2>2. LET x == Taken(w, r, row) IN
        /\ x \in Applied /\ x.row = row /\ x.tries = w.tries /\ x.todo = w.todo \ {r}
        /\ x.busy = w.busy /\ x.base = w.base /\ x.rev = w.base
        /\ x.seen = w.snapshot /\ x.snapshot = w.snapshot
      BY <2>1, TakenFacts
  <2> QED BY <1>12, <2>2
<1>6. Informed(a, revision, status) /\ a.tries = 0
    BY <1>1, <1>2, <1>4, <1>5 DEF Informed, Applied
<1>7. \A j \in Slots : j # i => Informed(work[j], revision', status')
    BY <1>1 DEF Works
<1>8. Informed(a, revision', status')
    BY <1>1, <1>6
<1>9. Works'
  <2>1. \A j \in Slots : work[j].row # r
      BY <1>1 DEF Locked
  <2>2. a.row # Nothing => /\ a.row \in DOMAIN rows' /\ \A j \in Slots : j # i => work[j].row # a.row
      BY <1>1, <1>4, <1>5, <2>1
  <2> QED BY <1>1, <1>3, <1>5, <1>7, <1>8, <2>2, WriteStep
<1>10. CacheTypes' /\ Revisions' /\ UserTypes'
    BY <1>1, SameCache DEF UserTypes
<1>11. Owed'
  <2> SUFFICES ASSUME ~Thrown', NEW q \in DOMAIN rows' \ dated', status'[rows'[q].model] = "available",
                      Stuck(q)'
               PROVE  \E j \in Slots : Owes(j, q)'
      BY DEF Owed
  <2>1. work'[i] = a /\ \A j \in Slots : j # i => work'[j] = work[j]
      BY <1>1, <1>3, <1>5 DEF Works
  <2>2. Only(q)' = Only(q) /\ Lifted(q)' = Lifted(q)
      BY <1>1 DEF Only, Lifted
  <2>3. \A j \in Slots : Doomed(j)' => Doomed(j) /\ j # i
      BY <1>1, <1>6, <2>1 DEF Doomed
  <2>4. Stuck(q)
      BY <2>1, <2>2, <2>3 DEF Stuck
  <2>5. PICK j \in Slots : Owes(j, q)
      BY <1>1, <2>4 DEF Owed, Thrown
  <2>6. CASE j # i
      BY <1>1, <2>1, <2>2, <2>5, <2>6 DEF Owes, Doomed
  <2>7. CASE j = i
    <3>1. q # Nothing
        BY <1>1, ModelBlocksAssumption DEF UserTypes
    <3>2. q \in w.todo
        BY <1>1, <2>5, <2>7, <3>1 DEF Owes, w
    <3>3. CASE q = r
      <4>1. a.row = q
          BY <1>1, <1>5, <3>3 DEF row
      <4>2. ~Doomed(i)'
          BY <2>3
      <4> QED BY <2>1, <4>1, <4>2 DEF Owes
    <3>4. CASE q # r
        BY <1>5, <2>1, <3>2, <3>4 DEF Owes
    <3> QED BY <3>3, <3>4
  <2> QED BY <2>6, <2>7
<1> QED BY <1>9, <1>10, <1>11 DEF BlocksIInv

\* A row that throws ends its application: what it owed is owed by nobody.
LEMMA RowThrowsStep ==
  ASSUME BlocksIInv, NEW i \in Slots, RowThrows(i)
  PROVE  BlocksIInv'
<1>1. /\ CacheTypes /\ UserTypes /\ Works /\ Revisions /\ left \in Budgets
      /\ Spend("throws") /\ work' = [work EXCEPT ![i] = Free]
      /\ UNCHANGED <<up, status, revision, reading, rows, dated, parked>>
    BY DEF BlocksIInv, RowThrows, UserTypes, launches
<1>2. left' \in Budgets /\ left'.changes = left.changes /\ left'.lapses = left.lapses /\ left'.throws = left.throws - 1
    BY <1>1, SpendFacts
<1>3. Thrown'
    BY <1>1, <1>2, BudgetFacts DEF Thrown
<1>4. Owed'
    BY <1>3 DEF Owed
<1>5. \A j \in Slots : j # i => Informed(work[j], revision', status')
    BY <1>1 DEF Works
<1>6. Informed(Free, revision', status')
    BY <1>1, FreeFacts DEF CacheTypes
<1>7. Works'
    BY <1>1, <1>5, <1>6, FreeFacts, WriteStep
<1>8. CacheTypes' /\ Revisions' /\ UserTypes'
    BY <1>1, <1>2, SameCache DEF UserTypes
<1> QED BY <1>4, <1>7, <1>8 DEF BlocksIInv

\* The application is done: it owes nothing any more.
LEMMA RecoverProcessesStep ==
  ASSUME BlocksIInv, NEW i \in Slots, RecoverProcesses(i)
  PROVE  BlocksIInv'
<1>1. /\ CacheTypes /\ UserTypes /\ Works /\ Revisions /\ Owed
      /\ work[i].row = Nothing /\ work[i].todo = {}
      /\ work' = [work EXCEPT ![i] = Free]
      /\ UNCHANGED <<up, status, revision, reading, rows, dated, left>>
      /\ parked' \in {parked, Nothing}
    BY DEF BlocksIInv, RecoverProcesses, launches
<1>2. \A j \in Slots : j # i => Informed(work[j], revision', status')
    BY <1>1 DEF Works
<1>3. Informed(Free, revision', status')
    BY <1>1, FreeFacts DEF CacheTypes
<1>4. Works'
    BY <1>1, <1>2, <1>3, FreeFacts, WriteStep
<1>5. CacheTypes' /\ Revisions' /\ UserTypes'
    BY <1>1, SameCache DEF UserTypes
<1>6. Owed'
  <2> SUFFICES ASSUME ~Thrown', NEW q \in DOMAIN rows' \ dated', status'[rows'[q].model] = "available",
                      Stuck(q)'
               PROVE  \E j \in Slots : Owes(j, q)'
      BY DEF Owed
  <2>1. work'[i] = Free /\ \A j \in Slots : j # i => work'[j] = work[j]
      BY <1>1, FreeFacts DEF Works
  <2>2. Only(q)' = Only(q) /\ Lifted(q)' = Lifted(q)
      BY <1>1 DEF Only, Lifted
  <2>3. \A j \in Slots : Doomed(j)' => Doomed(j) /\ j # i
      BY <1>1, <2>1, FreeFacts DEF Doomed
  <2>4. Stuck(q)
      BY <2>1, <2>2, <2>3 DEF Stuck
  <2>5. PICK j \in Slots : Owes(j, q)
      BY <1>1, <2>4 DEF Owed, Thrown
  <2>6. q # Nothing
      BY <1>1, ModelBlocksAssumption DEF UserTypes
  <2>7. j # i
      BY <1>1, <2>5, <2>6 DEF Owes
  <2> QED BY <1>1, <2>1, <2>2, <2>5, <2>7 DEF Owes, Doomed
<1> QED BY <1>4, <1>5, <1>6 DEF BlocksIInv

\* What the rows of the others say when one of them is written.
LEMMA WriteRow ==
  ASSUME UserTypes, NEW r \in DOMAIN rows, NEW block \in BlockReasons,
         rows' = [rows EXCEPT ![r].block = block]
  PROVE  /\ DOMAIN rows' = DOMAIN rows
         /\ rows' \in [DOMAIN rows' -> [model : Models, block : BlockReasons]]
         /\ rows'[r].block = block
         /\ \A q \in DOMAIN rows : /\ rows'[q].model = rows[q].model
                                   /\ q # r => rows'[q] = rows[q]
<1>1. rows \in [DOMAIN rows -> [model : Models, block : BlockReasons]]
    BY DEF UserTypes
<1>2. rows[r] \in [model : Models, block : BlockReasons]
    BY <1>1
<1>3. [rows[r] EXCEPT !.block = block] = [model |-> rows[r].model, block |-> block]
    BY <1>2
<1>4. rows' = [rows EXCEPT ![r] = [model |-> rows[r].model, block |-> block]]
    BY <1>3
<1> DEFINE x == [model |-> rows[r].model, block |-> block]
<1>5. x \in [model : Models, block : BlockReasons] /\ x.model = rows[r].model /\ x.block = block
    BY <1>2
<1>6. rows' = [rows EXCEPT ![r] = x]
    BY <1>4
<1> HIDE DEF x
<1> QED BY <1>1, <1>5, <1>6

\* An evaluation that ends settles its row: it is runnable when its model is
\* available, unless the cache moved on twice meanwhile.
LEMMA EvaluatedStep ==
  ASSUME BlocksIInv, NEW i \in Slots, Evaluated(i)
  PROVE  BlocksIInv'
<1> DEFINE w == work[i]
           r == w.row
<1>1. /\ CacheTypes /\ UserTypes /\ Works /\ Revisions /\ Owed /\ r # Nothing
      /\ UNCHANGED <<up, status, revision, reading, parked, left>>
      /\ dated' \in {dated, dated \ {r}}
    BY DEF BlocksIInv, Evaluated
<1>2. /\ w \in Applied /\ Informed(w, revision, status) /\ r \in DOMAIN rows
      /\ \A j \in Slots : j # i => work[j].row # r
    BY <1>1 DEF Works
<1>3. CacheTypes' /\ Revisions'
    BY <1>1, SameCache
<1>4. \A j \in Slots : j # i => Informed(work[j], revision', status')
    BY <1>1 DEF Works
<1>5. rows[r].model \in Models /\ r \in Rows /\ r # Nothing
    BY <1>1, <1>2, ModelBlocksAssumption DEF UserTypes
<1>6. ASSUME NEW block \in BlockReasons, rows' = [rows EXCEPT ![r].block = block],
             work' = [work EXCEPT ![i] = Settled(w)]
      PROVE  /\ UserTypes' /\ Works'
             /\ \A q \in DOMAIN rows :
                  q # r => ((\E j \in Slots : Owes(j, q)) => \E j \in Slots : Owes(j, q)')
             /\ \A q \in DOMAIN rows : q # r /\ Stuck(q)' => Stuck(q)
             /\ DOMAIN rows' = DOMAIN rows /\ rows'[r].block = block
             /\ \A q \in DOMAIN rows : rows'[q].model = rows[q].model
             /\ \A j \in Slots : work'[j].row # r
             /\ \A j \in Slots : j # i => work'[j] = work[j]
    <2>1. /\ DOMAIN rows' = DOMAIN rows
          /\ rows' \in [DOMAIN rows' -> [model : Models, block : BlockReasons]]
          /\ rows'[r].block = block
          /\ \A q \in DOMAIN rows : /\ rows'[q].model = rows[q].model
                                    /\ q # r => rows'[q] = rows[q]
        BY <1>1, <1>2, <1>6, WriteRow
    <2>2. UserTypes'
        BY <1>1, <2>1 DEF UserTypes
    <2> HIDE DEF w
    <2>3. /\ Settled(w) \in Applied /\ Settled(w).row = Nothing /\ Settled(w).tries = 0
          /\ Settled(w).todo = w.todo /\ Informed(Settled(w), revision, status)
        BY <1>2, <1>1, SettledFacts, SettledInformed DEF CacheTypes
    <2>4. Informed(Settled(w), revision', status')
        BY <1>1, <2>3
    <2>5. Works'
        BY <1>1, <1>4, <1>6, <2>1, <2>3, <2>4, WriteStep
    <2>6. work'[i] = Settled(w) /\ \A j \in Slots : j # i => work'[j] = work[j]
        BY <1>1, <1>6, <2>3 DEF Works
    <2>7. \A j \in Slots : work'[j].row # r
        BY <1>1, <1>2, <2>3, <2>6
    <2>8. ASSUME NEW q \in DOMAIN rows, q # r, NEW j \in Slots, Owes(j, q)
          PROVE  Owes(j, q)'
      <3>1. Only(q)' = Only(q)
          BY <2>1 DEF Only
      <3>2. CASE j # i
          BY <1>1, <2>6, <2>8, <3>1, <3>2 DEF Owes, Doomed
      <3>3. CASE j = i
        <4>1. q \in w.todo
            BY <2>8, <3>3 DEF Owes, w
        <4> QED BY <2>3, <2>6, <3>3, <4>1 DEF Owes
      <3> QED BY <3>2, <3>3
    <2>9. ASSUME NEW q \in DOMAIN rows, q # r, Stuck(q)'
          PROVE  Stuck(q)
      <3>1. Only(q)' = Only(q) /\ Lifted(q)' = Lifted(q)
          BY <2>1, <2>9 DEF Only, Lifted
      <3>2. \A j \in Slots : Doomed(j)' => Doomed(j) /\ j # i
          BY <1>1, <2>3, <2>6 DEF Doomed
      <3> QED BY <2>6, <2>9, <3>1, <3>2 DEF Stuck
    <2>10. work'[i] = Settled(w)
        BY <2>6
    <2> QED BY <2>1, <2>2, <2>5, <2>6, <2>7, <2>8, <2>9
<1>7. CASE /\ revision = w.rev /\ rows' = [rows EXCEPT ![r].block = Block(r, w.seen)]
           /\ work' = [work EXCEPT ![i] = Settled(w)]
  <2>1. w.seen = status
      BY <1>1, <1>2, <1>7 DEF Informed
  <2>2. Block(r, w.seen) \in BlockReasons
      BY DEF Block, BlockOf, BlockReasons
  <2>3. /\ UserTypes' /\ Works'
        /\ \A q \in DOMAIN rows :
             q # r => ((\E j \in Slots : Owes(j, q)) => \E j \in Slots : Owes(j, q)')
        /\ \A q \in DOMAIN rows : q # r /\ Stuck(q)' => Stuck(q)
        /\ DOMAIN rows' = DOMAIN rows /\ rows'[r].block = Block(r, w.seen)
        /\ \A q \in DOMAIN rows : rows'[q].model = rows[q].model
        /\ \A j \in Slots : work'[j].row # r
      BY <1>6, <1>7, <2>2
  <2>4. Owed'
    <3> SUFFICES ASSUME ~Thrown', NEW q \in DOMAIN rows' \ dated', status'[rows'[q].model] = "available",
                        Stuck(q)'
                 PROVE  \E j \in Slots : Owes(j, q)'
        BY DEF Owed
    <3>1. CASE q # r
        BY <1>1, <2>3, <3>1 DEF Owed, Thrown
    <3>2. CASE q = r
      <4>1. rows'[r].block = Nothing
          BY <1>1, <2>1, <2>3, <3>2 DEF Block, BlockOf
      <4> QED BY <2>3, <3>2, <4>1 DEF Stuck, Lifted
    <3> QED BY <3>1, <3>2
  <2> QED BY <1>3, <2>3, <2>4 DEF BlocksIInv
<1>8. CASE /\ revision # w.rev /\ w.tries = 1 /\ rows' = [rows EXCEPT ![r].block = "snapshot"]
           /\ work' = [work EXCEPT ![i] = Settled(w)] /\ UNCHANGED dated
  <2>2. "snapshot" \in BlockReasons
      BY DEF BlockReasons
  <2>3. /\ UserTypes' /\ Works'
        /\ \A q \in DOMAIN rows :
             q # r => ((\E j \in Slots : Owes(j, q)) => \E j \in Slots : Owes(j, q)')
        /\ \A q \in DOMAIN rows : q # r /\ Stuck(q)' => Stuck(q)
        /\ DOMAIN rows' = DOMAIN rows /\ rows'[r].block = "snapshot"
        /\ \A q \in DOMAIN rows : rows'[q].model = rows[q].model
        /\ \A j \in Slots : work'[j].row # r
        /\ \A j \in Slots : j # i => work'[j] = work[j]
      BY <1>6, <1>8, <2>2
  <2>4. Owed'
    <3> SUFFICES ASSUME ~Thrown', NEW q \in DOMAIN rows' \ dated', status'[rows'[q].model] = "available",
                        Stuck(q)'
                 PROVE  \E j \in Slots : Owes(j, q)'
        BY DEF Owed
    <3>1. CASE q # r
        BY <1>1, <2>3, <3>1 DEF Owed, Thrown
    <3>2. CASE q = r
      <4>1. Only(r) /\ status[rows[r].model] = "available"
          BY <1>1, <1>2, <2>3, <3>2 DEF Stuck, Lifted, Only
      <4>2. Doomed(i)
          BY <1>8 DEF Doomed
      <4>3. Stuck(r)
          BY <4>1, <4>2 DEF Stuck
      <4>4. PICK j \in Slots : Owes(j, r)
          BY <1>1, <1>2, <1>8, <3>2, <4>1, <4>3 DEF Owed, Thrown
      <4>5. j # i
          BY <1>1, <1>2, <4>1, <4>2, <4>4 DEF Owes, Informed
      <4>6. r \in work[j].todo
          BY <1>2, <4>4, <4>5 DEF Owes
      <4> QED BY <2>3, <3>2, <4>5, <4>6 DEF Owes
    <3> QED BY <3>1, <3>2
  <2> QED BY <1>3, <2>3, <2>4 DEF BlocksIInv
<1>9. CASE /\ revision # w.rev /\ w.tries = 0 /\ UNCHANGED <<rows, dated>>
           /\ work' = [work EXCEPT ![i].seen = status, ![i].rev = revision, ![i].tries = 1]
  <2> DEFINE a == [w EXCEPT !.seen = status]
             b == [a EXCEPT !.rev = revision]
             c == [b EXCEPT !.tries = 1]
  <2>1. status \in Known /\ status \in [Models -> Statuses] /\ revision \in Nat
      BY <1>1 DEF CacheTypes, Known
  <2>2. work' = [work EXCEPT ![i] = c]
    <3>1. work \in [Slots -> Applied]
        BY <1>1 DEF Works
    <3> QED BY <1>9, <3>1
  <2> HIDE DEF w
  <2>3. a \in Applied /\ a.seen = status /\ a.row = w.row /\ a.todo = w.todo /\ a.busy = w.busy
        /\ a.base = w.base /\ a.snapshot = w.snapshot
      BY <1>2, <2>1 DEF Applied
  <2> HIDE DEF a
  <2>4. b \in Applied /\ b.seen = status /\ b.row = w.row /\ b.todo = w.todo /\ b.busy = w.busy
        /\ b.base = w.base /\ b.snapshot = w.snapshot /\ b.rev = revision
      BY <2>1, <2>3 DEF Applied
  <2> HIDE DEF b
  <2>5. c \in Applied /\ c.seen = status /\ c.row = w.row /\ c.todo = w.todo /\ c.busy = w.busy
        /\ c.base = w.base /\ c.snapshot = w.snapshot /\ c.rev = revision
      BY <2>4 DEF Applied
  <2> HIDE DEF c
  <2>6. Informed(c, revision, status)
      BY <1>1, <1>2, <2>1, <2>5 DEF Informed
  <2>7. Informed(c, revision', status')
      BY <1>1, <2>6
  <2>8. Works'
    <3>1. rows' = rows
        BY <1>9
    <3>2. c.row \in DOMAIN rows' /\ \A j \in Slots : j # i => work[j].row # c.row
        BY <1>2, <2>5, <3>1
    <3> QED BY <1>1, <1>4, <2>2, <2>5, <2>7, <3>1, <3>2, WriteStep
  <2>9. UserTypes'
      BY <1>1, <1>9 DEF UserTypes
  <2>10. work'[i] = c /\ \A j \in Slots : j # i => work'[j] = work[j]
      BY <1>1, <2>2, <2>5 DEF Works
  <2>11. Owed'
    <3> SUFFICES ASSUME ~Thrown', NEW q \in DOMAIN rows' \ dated', status'[rows'[q].model] = "available",
                        Stuck(q)'
                 PROVE  \E j \in Slots : Owes(j, q)'
        BY DEF Owed
    <3>1. q \in DOMAIN rows /\ Only(q)' = Only(q) /\ Lifted(q)' = Lifted(q)
        BY <1>9 DEF Only, Lifted
    <3>2. \A j \in Slots : Doomed(j)' => Doomed(j) /\ j # i
        BY <1>1, <2>5, <2>10 DEF Doomed
    <3>3. Stuck(q)
        BY <2>10, <3>1, <3>2 DEF Stuck
    <3>4. PICK j \in Slots : Owes(j, q)
        BY <1>1, <1>9, <3>1, <3>3 DEF Owed, Thrown
    <3>5. CASE j = i
      <4>1. q \in c.todo \/ c.row = q
          BY <2>5, <3>4, <3>5 DEF Owes, w
      <4> QED BY <2>10, <3>2, <3>5, <4>1 DEF Owes
    <3>6. CASE j # i
        BY <1>1, <2>10, <3>1, <3>4, <3>6 DEF Owes, Doomed
    <3> QED BY <3>5, <3>6
  <2> QED BY <1>3, <2>8, <2>9, <2>11 DEF BlocksIInv
<1> QED BY <1>7, <1>8, <1>9 DEF Evaluated

\* A row is blocked when it is due and its model is not available.
LEMMA DueRowStep ==
  ASSUME BlocksIInv, NEW r \in Rows, DueRow(r)
  PROVE  BlocksIInv'
<1>1. /\ CacheTypes /\ UserTypes /\ Works /\ Revisions /\ Owed /\ r \in DOMAIN rows
      /\ status[rows[r].model] # "available" /\ rows' = [rows EXCEPT ![r].block = "model"]
      /\ UNCHANGED <<up, status, revision, reading, parked, work, left>> /\ dated' = dated \ {r}
    BY DEF BlocksIInv, DueRow
<1>2. /\ DOMAIN rows' = DOMAIN rows
      /\ rows' \in [DOMAIN rows' -> [model : Models, block : BlockReasons]]
      /\ \A q \in DOMAIN rows : /\ rows'[q].model = rows[q].model
                                /\ q # r => rows'[q] = rows[q]
    BY <1>1, WriteRow DEF BlockReasons
<1>3. CacheTypes' /\ Revisions' /\ UserTypes'
    BY <1>1, <1>2, SameCache DEF UserTypes
<1>4. Works'
    BY <1>1, <1>2 DEF Works
<1>5. Owed'
  <2> SUFFICES ASSUME ~Thrown', NEW q \in DOMAIN rows' \ dated', status'[rows'[q].model] = "available",
                      Stuck(q)'
               PROVE  \E j \in Slots : Owes(j, q)'
      BY DEF Owed
  <2>1. q # r /\ q \in DOMAIN rows \ dated /\ rows'[q] = rows[q]
      BY <1>1, <1>2
  <2>2. Only(q)' = Only(q) /\ Lifted(q)' = Lifted(q)
      BY <2>1 DEF Only, Lifted
  <2>3. Stuck(q)
      BY <1>1, <2>2 DEF Stuck, Doomed
  <2>4. PICK j \in Slots : Owes(j, q)
      BY <1>1, <2>1, <2>3 DEF Owed, Thrown
  <2> QED BY <1>1, <2>2, <2>4 DEF Owes, Doomed
<1> QED BY <1>3, <1>4, <1>5 DEF BlocksIInv

\* A row is scheduled, with a block that is right or is known to be dated.
LEMMA ScheduledStep ==
  ASSUME BlocksIInv, NEW r \in Rows, NEW m \in Models, NEW block \in BlockReasons,
         Scheduled(r, m, block), dated \subseteq dated',
         status[m] = "available" /\ r \notin dated' => block = Nothing,
         UNCHANGED <<up, status, revision, reading, parked, work, left>>
  PROVE  BlocksIInv'
<1> DEFINE x == [model |-> m, block |-> block]
<1>1. /\ CacheTypes /\ UserTypes /\ Works /\ Revisions /\ Owed /\ r \notin DOMAIN rows
      /\ rows' = [q \in DOMAIN rows \cup {r} |-> IF q = r THEN x ELSE rows[q]]
      /\ UNCHANGED <<up, status, revision, reading, parked, work, left>>
    BY DEF BlocksIInv, Scheduled
<1>2. /\ x \in [model : Models, block : BlockReasons] /\ x.model = m
      /\ status[m] = "available" /\ r \notin dated' => x.block = Nothing
    OBVIOUS
<1> HIDE DEF x
<1>3. /\ DOMAIN rows' = DOMAIN rows \cup {r} /\ rows'[r] = x
      /\ \A q \in DOMAIN rows : rows'[q] = rows[q]
    BY <1>1
<1>4. UserTypes'
  <2>1. \A q \in DOMAIN rows' : rows'[q] \in [model : Models, block : BlockReasons]
      BY <1>1, <1>2, <1>3 DEF UserTypes
  <2>2. rows' \in [DOMAIN rows' -> [model : Models, block : BlockReasons]]
    <3> DEFINE D == DOMAIN rows \cup {r}
               f == [q \in D |-> IF q = r THEN x ELSE rows[q]]
    <3>1. rows' = f /\ DOMAIN rows' = D
        BY <1>1
    <3>2. \A q \in D : f[q] \in [model : Models, block : BlockReasons]
        BY <2>1, <3>1
    <3>3. f \in [D -> [model : Models, block : BlockReasons]]
        BY <3>2
    <3> QED BY <3>1, <3>3
  <2> QED BY <1>1, <1>3, <2>2 DEF UserTypes
<1>5. CacheTypes' /\ Revisions'
    BY <1>1, SameCache
<1>6. Works'
    BY <1>1, <1>3 DEF Works
<1>7. Owed'
  <2> SUFFICES ASSUME ~Thrown', NEW q \in DOMAIN rows' \ dated', status'[rows'[q].model] = "available",
                      Stuck(q)'
               PROVE  \E j \in Slots : Owes(j, q)'
      BY DEF Owed
  <2>1. CASE q = r
    <3>1. Lifted(r)'
        BY <1>1, <1>2, <1>3, <2>1 DEF Lifted
    <3>2. r # Nothing
        BY ModelBlocksAssumption
    <3>3. \A j \in Slots : work'[j].row # r
        BY <1>1, <3>2 DEF Works
    <3> QED BY <2>1, <3>1, <3>3 DEF Stuck
  <2>2. CASE q # r
    <3>1. q \in DOMAIN rows \ dated /\ rows'[q] = rows[q]
        BY <1>3, <2>2
    <3>2. Only(q)' = Only(q) /\ Lifted(q)' = Lifted(q)
        BY <3>1 DEF Only, Lifted
    <3>3. Stuck(q)
        BY <1>1, <3>2 DEF Stuck, Doomed
    <3>4. PICK j \in Slots : Owes(j, q)
        BY <1>1, <3>1, <3>3 DEF Owed, Thrown
    <3> QED BY <1>1, <3>2, <3>4 DEF Owes, Doomed
  <2> QED BY <2>1, <2>2
<1> QED BY <1>4, <1>5, <1>6, <1>7 DEF BlocksIInv

LEMMA ScheduleRowStep ==
  ASSUME BlocksIInv, NEW r \in Rows, NEW m \in Models, ScheduleRow(r, m)
  PROVE  BlocksIInv'
<1>1. BlockOf(m, status) \in BlockReasons /\ (status[m] = "available" => BlockOf(m, status) = Nothing)
    BY DEF BlockOf, BlockReasons
<1> QED BY <1>1, ScheduledStep DEF ScheduleRow, launches

\* A launch that was prepared is persisted: its row is dated if it is blocked no
\* more, or should be.
LEMMA PersistLaunchStep ==
  ASSUME BlocksIInv, LaunchTypes, NEW r \in Rows, PersistLaunch(r)
  PROVE  BlocksIInv'
<1>1. plan.model \in Models /\ plan.block \in BlockReasons
    BY DEF LaunchTypes, PersistLaunch, BlockReasons
<1>2. status[plan.model] = "available" /\ r \notin dated' => plan.block = Nothing
    BY DEF PersistLaunch, BlockOf
<1> QED BY <1>1, <1>2, ScheduledStep DEF PersistLaunch

LEMMA PrepareLaunchStep ==
  ASSUME BlocksIInv, NEW m \in Models, PrepareLaunch(m)
  PROVE  BlocksIInv'
<1>1. UNCHANGED <<up, status, revision, reading, rows, dated, parked, work, left>>
    BY DEF PrepareLaunch
<1>2. CacheTypes' /\ UserTypes' /\ Revisions'
    BY <1>1, SameCache DEF BlocksIInv, UserTypes
<1>3. left'.throws <= left.throws
    BY <1>1, BudgetFacts DEF BlocksIInv, UserTypes
<1> QED BY <1>1, <1>2, <1>3, IdleStep

\* The launches under way and the dated rows are those of the rows there are.
LEMMA LaunchTypesStep ==
  ASSUME BlocksIInv, LaunchTypes, BlocksNext
  PROVE  LaunchTypes'
<1>1. CASE UNCHANGED <<rows, launches>>
    BY <1>1 DEF LaunchTypes, launches
<1>2. ASSUME plan' \in {plan, NoPlan}, dated' \subseteq dated, DOMAIN rows' = DOMAIN rows
      PROVE  LaunchTypes'
    BY <1>2 DEF LaunchTypes
<1>3. ASSUME NEW i \in Slots, Evaluated(i) PROVE LaunchTypes'
  <2>1. DOMAIN rows' = DOMAIN rows /\ plan' = plan /\ dated' \subseteq dated
      BY <1>3 DEF Evaluated
  <2> QED BY <1>2, <2>1
<1>4. ASSUME NEW r \in Rows, DueRow(r) PROVE LaunchTypes'
  <2>1. DOMAIN rows' = DOMAIN rows /\ plan' = plan /\ dated' \subseteq dated
      BY <1>4 DEF DueRow
  <2> QED BY <1>2, <2>1
<1>5. CASE Boot
    BY <1>2, <1>5 DEF Boot
<1>6. ASSUME NEW m \in Models, PrepareLaunch(m) PROVE LaunchTypes'
    BY <1>6 DEF PrepareLaunch, LaunchTypes, BlockOf
<1>7. ASSUME NEW r \in Rows, NEW m, NEW block, Scheduled(r, m, block)
      PROVE  DOMAIN rows' = DOMAIN rows \cup {r}
    BY <1>7 DEF Scheduled
<1>8. ASSUME NEW r \in Rows, PersistLaunch(r) PROVE LaunchTypes'
    BY <1>7, <1>8 DEF PersistLaunch, LaunchTypes
<1>9. ASSUME NEW r \in Rows, NEW m \in Models, ScheduleRow(r, m) PROVE LaunchTypes'
    BY <1>7, <1>9 DEF ScheduleRow, LaunchTypes, launches
<1>10. ASSUME NEW i \in Slots, RecoverProcesses(i) \/ RowThrows(i) \/ \E r \in Rows : ReconcileRow(i, r)
       PROVE  LaunchTypes'
    BY <1>1, <1>10 DEF RecoverProcesses, RowThrows, ReconcileRow
<1>11. ASSUME NEW m \in Models, ProviderChanges(m) \/ StartParks(m) PROVE LaunchTypes'
    BY <1>1, <1>11 DEF ProviderChanges, StartParks
<1>12. CASE Expire \/ CacheStep
    BY <1>1, <1>12 DEF Expire, CacheStep, RefreshReads, RefreshCommits
<1> QED BY <1>3, <1>4, <1>5, <1>6, <1>8, <1>9, <1>10, <1>11, <1>12 DEF BlocksNext, Apply

-----------------------------------------------------------------------------
(* The invariant *)

LEMMA BlocksInitIInv == BlocksInit => BlocksIInv /\ LaunchTypes
<1> SUFFICES ASSUME BlocksInit PROVE BlocksIInv /\ LaunchTypes
    OBVIOUS
<1>1. /\ up \in [Models -> BOOLEAN] /\ status = Answer /\ revision = 0 /\ reading = NoStatuses
      /\ rows = <<>> /\ parked = Nothing /\ work = [i \in Slots |-> Free]
    BY DEF BlocksInit
<1>2. Answer \in [Models -> Statuses]
    BY <1>1 DEF Answer, Statuses
<1>3. CacheTypes
    BY <1>1, <1>2 DEF CacheTypes, Known
<1>4. left \in Budgets /\ left.lapses = MaxLapses /\ left.changes = MaxProviderChanges
    BY ModelBlocksAssumption DEF BlocksInit, Budgets
<1>5. DOMAIN rows = {}
    BY <1>1
<1>6. UserTypes
    BY <1>1, <1>4, <1>5 DEF UserTypes
<1>7. Revisions
    BY <1>1, <1>4, ModelBlocksAssumption DEF Revisions, Lag, Apart
<1>8. Works
  <2>1. work \in [Slots -> Applied] /\ \A i \in Slots : work[i] = Free
      BY <1>1, FreeFacts
  <2>2. \A i \in Slots : Informed(work[i], revision, status)
      BY <1>1, <2>1, FreeFacts
  <2> QED BY <2>1, <2>2, FreeFacts DEF Works
<1>9. Owed
    BY <1>5 DEF Owed
<1>10. LaunchTypes
    BY DEF BlocksInit, LaunchTypes
<1> QED BY <1>3, <1>6, <1>7, <1>8, <1>9, <1>10 DEF BlocksIInv

LEMMA BlocksNextIInv ==
  BlocksIInv /\ LaunchTypes /\ [BlocksNext]_blockVars => BlocksIInv' /\ LaunchTypes'
<1> SUFFICES ASSUME BlocksIInv, LaunchTypes, [BlocksNext]_blockVars PROVE BlocksIInv' /\ LaunchTypes'
    OBVIOUS
<1>1. CASE UNCHANGED blockVars
  <2>1. UNCHANGED <<up, status, revision, reading, rows, plan, dated, parked, work, left>>
      BY <1>1 DEF blockVars, launches
  <2>2. CacheTypes' /\ UserTypes' /\ Revisions'
      BY <2>1, SameCache DEF BlocksIInv, UserTypes
  <2>3. left'.throws <= left.throws
      BY <2>1, BudgetFacts DEF BlocksIInv, UserTypes
  <2>4. LaunchTypes'
      BY <2>1 DEF LaunchTypes
  <2> QED BY <2>1, <2>2, <2>3, <2>4, IdleStep
<1>2. CASE BlocksNext
    BY <1>2, ProviderChangesStep, StartParksStep, ExpireStep, RefreshReadsStep, RefreshCommitsStep,
       ReconcileRowStep, EvaluatedStep, RecoverProcessesStep, RowThrowsStep, DueRowStep,
       ScheduleRowStep, PrepareLaunchStep, PersistLaunchStep, BootStep, LaunchTypesStep DEF BlocksNext, CacheStep, Apply
<1> QED BY <1>1, <1>2

LEMMA BlocksFacts == BlocksIInv /\ LaunchTypes => BlocksInvariant
<1> SUFFICES ASSUME BlocksIInv, LaunchTypes PROVE BlocksInvariant
    OBVIOUS
<1>1. /\ CacheTypes /\ UserTypes /\ Works /\ Revisions /\ Owed /\ left \in Budgets
    BY DEF BlocksIInv, UserTypes
<1>2. revision \in 0 .. (MaxLapses * 2 + MaxProviderChanges + 2)
  <2>1. Lag \in Nat
      BY DEF Lag, Apart
  <2> QED BY <1>1, <2>1, BudgetFacts DEF CacheTypes, Revisions
<1>3. ModelBlocksTypeOK
    BY <1>1, <1>2 DEF ModelBlocksTypeOK, CacheTypes, UserTypes, LaunchTypes, Works
<1>4. BlocksAgreeWithCache
  <2> SUFFICES ASSUME Quiet, ~Thrown, NEW r \in DOMAIN rows \ dated, status[rows[r].model] = "available"
               PROVE  Lifted(r)
      BY DEF BlocksAgreeWithCache
  <2>1. r # Nothing
      BY <1>1, ModelBlocksAssumption DEF UserTypes
  <2>2. \A i \in Slots : ~Owes(i, r)
      BY <1>1, <2>1 DEF Quiet, Works, Informed, Owes
  <2>3. ~Stuck(r)
      BY <1>1, <2>2 DEF Owed
  <2> QED BY <2>3 DEF Stuck
<1> QED BY <1>3, <1>4 DEF BlocksInvariant

\* What the rows say agrees with the cache whenever nothing is being applied,
\* however refreshes, changes, expiries and restarts overlap with applications:
\* no row is blocked for want of a model that the cache has as available, but for
\* a launch that was persisted with a block from before a change.
THEOREM BlocksAgree == BlocksSpec => []BlocksInvariant
<1>1. BlocksIInv /\ LaunchTypes /\ [BlocksNext]_blockVars => BlocksIInv' /\ LaunchTypes'
    BY BlocksNextIInv
<1> QED BY BlocksInitIInv, <1>1, BlocksFacts, PTL DEF BlocksSpec
=============================================================================
