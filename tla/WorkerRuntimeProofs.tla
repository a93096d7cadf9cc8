------------------------- MODULE WorkerRuntimeProofs -------------------------
(***************************************************************************)
(* The worker's lifecycle reducer keeps its invariant for any inputs,      *)
(* session kinds and order of events.                                      *)
(*                                                                         *)
(* An event is a change of the reducer's state followed by advance.  The   *)
(* proof follows the code: what each helper changes, that advance keeps    *)
(* the invariant, and then one step per event.                             *)
(***************************************************************************)
EXTENDS WorkerRuntime, FiniteSetTheorems, WellFoundedInduction, TLAPS

-----------------------------------------------------------------------------
(* Numbers *)

\* A set of natural numbers has a least element.
LEMMA LeastNat == ASSUME NEW T, T \subseteq Nat, T # {} PROVE \E x \in T : \A y \in T : x <= y
<1> DEFINE R == OpToRel(<, Nat)
<1>1. IsWellFoundedOn(R, Nat)
  BY NatLessThanWellFounded
<1>2. \A x, y \in Nat : <<y, x>> \in R <=> y < x
  BY DEF OpToRel
<1> HIDE DEF R
<1>3. PICK x \in T : \A y \in T : ~(<<y, x>> \in R)
  BY <1>1, WFMin
<1>4. \A y \in T : ~(y < x)
  BY <1>2, <1>3
<1>5. \A a, b \in Nat : ~(a < b) => b <= a
  OBVIOUS
<1> QED BY <1>4, <1>5

\* The newest of the consumed inputs is one of them.
LEMMA MaxType ==
    ASSUME NEW S \in SUBSET Inputs, NEW n \in 0..MaxInput
    PROVE  Max(S \cup {n}) \in 0..MaxInput
<1> DEFINE T == S \cup {n}
           U == {MaxInput - x : x \in T}
<1>1. T \subseteq 0..MaxInput /\ MaxInput \in Nat
  BY MaxInputAssumption DEF Inputs
<1>2. U \subseteq Nat /\ U # {}
  BY <1>1
<1>3. PICK u \in U : \A y \in U : u <= y
  BY <1>2, LeastNat
<1>4. PICK x \in T : u = MaxInput - x
  BY <1>3
<1>5. \A y \in T : x >= y
  BY <1>1, <1>3, <1>4
<1>6. Max(T) \in T
  BY <1>5 DEF Max
<1> QED BY <1>1, <1>6

-----------------------------------------------------------------------------
(* The reducer's state *)

Fields == {"phase", "op", "stage", "turn", "accepted", "pub", "fact", "after", "kind", "pi", "queue",
           "consumed", "delivery", "tainted", "cred", "base", "timers", "jobs", "out", "threw"}

\* Protocol facts.
FactNames == {"hello", "ready", "turn_started", "turn_outcome", "turn_failed", "parked", "worker_failed",
              "cleanup_completed", "credential_update", "none"}
WorkerStates == {"draining", "busy", "idle"}
Facts ==
    [type : FactNames] \cup [type : {"heartbeat"}, state : WorkerStates] \cup [type : {"state"}, to : WorkerStates]
      \cup UNION {{ConsumedFacts(S)[n] : n \in 1..Cardinality(S)} : S \in SUBSET Inputs}

Typed(s) ==
    /\ DOMAIN s = Fields
    /\ s.phase \in Phases /\ s.op \in {"none", "bootstrap", "activation", "turn"}
    /\ s.stage \in {"none", "publication", "resources"}
    /\ s.turn \in {"none", "pending", "executing", "completed"}
    /\ s.pub \in Publications /\ s.fact \in {"none", "turn_outcome", "turn_failed"}
    /\ s.after \in {"none", "exit", "cleanup"}
    /\ s.kind \in {"none", "llm", "automatic"} /\ s.cred \in Credentials
    /\ s.queue \subseteq Inputs /\ s.delivery \subseteq Inputs /\ s.consumed \in 0..MaxInput
    /\ s.timers \subseteq Timers /\ s.jobs \subseteq Jobs
    /\ s.accepted \in BOOLEAN /\ s.pi \in BOOLEAN /\ s.tainted \in BOOLEAN
    /\ s.base \in BOOLEAN /\ s.threw \in BOOLEAN
    /\ s.out \in Seq(Facts)

\* The state t differs from s in the fields F at most.
Keeps(s, t, F) == DOMAIN t = Fields /\ \A f \in Fields \ F : t[f] = s[f]

\* A fact of the type t is among the facts of the step.
Says(s, t) == \E n \in 1..Len(s.out) : s.out[n].type = t

\* The facts that end a turn or park its process, and their order: a park
\* that stands for a failed turn comes after the fact that says so.
Loud == {"turn_outcome", "turn_failed", "parked", "state"}
Ordered(q) ==
    \A n \in 1..Len(q) : q[n].type = "parked" =>
      \E m \in 1..Len(q) : m < n /\ q[m].type = "turn_failed"

Mute(s) == \A x \in Loud : ~Says(s, x)
Alike(s, t) == (\A x \in Loud : Says(t, x) <=> Says(s, x)) /\ (Ordered(s.out) => Ordered(t.out))

LEMMA FactTypes ==
    /\ \A t \in FactNames : Fact(t) \in Facts /\ Fact(t).type = t
    /\ \A t \in WorkerStates : [type |-> "state", to |-> t] \in Facts
    /\ \A s : /\ Reported(s) \in WorkerStates
              /\ Heartbeat(s) \in Facts /\ Heartbeat(s).type = "heartbeat"
<1>1. \A s : Reported(s) \in WorkerStates
  BY DEF Reported, WorkerStates
<1> QED BY <1>1 DEF Fact, Facts, Heartbeat, FactNames

LEMMA AlikeFacts ==
    /\ \A s, t : t.out = s.out => Alike(s, t)
    /\ \A s, t : Mute(s) /\ Alike(s, t) => Mute(t)
    /\ \A r, s, t : Alike(r, s) /\ Alike(s, t) => Alike(r, t)
    /\ \A s : Mute(s) => Ordered(s.out)
<1>1. \A s, t : t.out = s.out => Alike(s, t)
  BY DEF Alike, Says
<1>2. \A s, t : Mute(s) /\ Alike(s, t) => Mute(t)
  BY DEF Alike, Mute
<1>3. \A r, s, t : Alike(r, s) /\ Alike(s, t) => Alike(r, t)
  BY DEF Alike
<1>4. \A s : Mute(s) => Ordered(s.out)
  BY DEF Mute, Says, Ordered, Loud
<1> QED BY <1>1, <1>2, <1>3, <1>4

\* Emit adds one fact and changes nothing else.
LEMMA EmitFacts ==
    ASSUME NEW s, Typed(s), NEW f \in Facts
    PROVE  LET t == Emit(s, f)
           IN  /\ Typed(t) /\ Keeps(s, t, {"out"})
               /\ \A x : Says(t, x) <=> Says(s, x) \/ f.type = x
               /\ Ordered(s.out) /\ (f.type = "parked" => Says(s, "turn_failed")) => Ordered(t.out)
               /\ f.type \notin Loud => Alike(s, t)
<1> DEFINE t == Emit(s, f)
<1>1. Keeps(s, t, {"out"}) /\ t.out = Append(s.out, f)
  BY DEF Emit, Keeps, Typed, Fields
<1> HIDE DEF t
<1>2. s.out \in Seq(Facts) /\ t.out \in Seq(Facts) /\ Len(s.out) \in Nat
      /\ Len(t.out) = Len(s.out) + 1 /\ t.out[Len(s.out) + 1] = f
      /\ \A n \in 1..Len(s.out) : t.out[n] = s.out[n]
  BY <1>1 DEF Typed
<1>3. Typed(t)
  BY <1>1, <1>2 DEF Typed, Keeps, Fields
<1>4. \A n \in 1..Len(t.out) : n \in 1..Len(s.out) \/ n = Len(s.out) + 1
  BY <1>2
<1>5. ASSUME NEW x PROVE Says(t, x) <=> Says(s, x) \/ f.type = x
  <2>1. Says(t, x) => Says(s, x) \/ f.type = x
    BY <1>2, <1>4 DEF Says
  <2>2. ASSUME Says(s, x) PROVE Says(t, x)
    <3>1. PICK n \in 1..Len(s.out) : s.out[n].type = x
      BY <2>2 DEF Says
    <3>2. n \in 1..Len(t.out) /\ t.out[n].type = x
      BY <1>2, <3>1
    <3> QED BY <3>2 DEF Says
  <2>3. f.type = x => Says(t, x)
    BY <1>2 DEF Says
  <2> QED BY <2>1, <2>2, <2>3
<1>6. ASSUME Ordered(s.out), f.type = "parked" => Says(s, "turn_failed") PROVE Ordered(t.out)
  <2> SUFFICES ASSUME NEW n \in 1..Len(t.out), t.out[n].type = "parked"
               PROVE  \E m \in 1..Len(t.out) : m < n /\ t.out[m].type = "turn_failed"
    BY DEF Ordered
  <2>1. \A m \in 1..Len(s.out) : m \in 1..Len(t.out) /\ t.out[m] = s.out[m] /\ m < Len(s.out) + 1
    BY <1>2
  <2>2. CASE n \in 1..Len(s.out)
    <3>1. PICK m \in 1..Len(s.out) : m < n /\ s.out[m].type = "turn_failed"
      BY <1>2, <1>6, <2>2 DEF Ordered
    <3> QED BY <2>1, <3>1
  <2>3. CASE n = Len(s.out) + 1
    <3>1. PICK m \in 1..Len(s.out) : s.out[m].type = "turn_failed"
      BY <1>2, <1>6, <2>3 DEF Says
    <3> QED BY <2>1, <2>3, <3>1
  <2> QED BY <1>4, <2>2, <2>3
<1>7. f.type \notin Loud => Alike(s, t)
  BY <1>5, <1>6 DEF Alike, Loud
<1> QED BY <1>1, <1>3, <1>5, <1>6, <1>7 DEF t

LEMMA LaunchFacts ==
    ASSUME NEW s, Typed(s), NEW j \in Jobs
    PROVE  /\ Typed(Launch(s, j)) /\ Keeps(s, Launch(s, j), {"jobs"})
           /\ Launch(s, j).jobs = s.jobs \cup {j}
<1>1. Keeps(s, Launch(s, j), {"jobs"}) /\ Launch(s, j).jobs = s.jobs \cup {j}
  BY DEF Launch, Keeps, Typed, Fields
<1> QED BY <1>1 DEF Typed, Keeps, Fields

LEMMA ArmFacts ==
    ASSUME NEW s, Typed(s), NEW t \in Timers
    PROVE  /\ Typed(Arm(s, t)) /\ Keeps(s, Arm(s, t), {"timers"})
           /\ Arm(s, t).timers = s.timers \cup {t}
<1>1. Keeps(s, Arm(s, t), {"timers"}) /\ Arm(s, t).timers = s.timers \cup {t}
  BY DEF Arm, Keeps, Typed, Fields
<1> QED BY <1>1 DEF Typed, Keeps, Fields

LEMMA SnapshotFacts ==
    ASSUME NEW s, Typed(s), s.pub = "none", NEW p \in Publications
    PROVE  LET t == BeginSnapshot(s, p)
           IN  /\ Typed(t) /\ Keeps(s, t, {"pub", "jobs"})
               /\ t.pub = p /\ t.jobs = s.jobs \cup {"snapshot"}
<1> DEFINE r == [s EXCEPT !.pub = p]
           t == Launch(r, "snapshot")
<1>1. Keeps(s, r, {"pub"}) /\ r.pub = p
  BY DEF Keeps, Typed, Fields
<1> HIDE DEF r
<1>2. Typed(r)
  BY <1>1 DEF Typed, Keeps, Fields
<1>3. Typed(t) /\ Keeps(r, t, {"jobs"}) /\ t.jobs = r.jobs \cup {"snapshot"}
  BY <1>2, LaunchFacts DEF Jobs
<1>4. t = BeginSnapshot(s, p)
  BY DEF BeginSnapshot, r
<1> HIDE DEF t
<1>5. Keeps(s, t, {"pub", "jobs"}) /\ t.pub = p /\ t.jobs = s.jobs \cup {"snapshot"}
  BY <1>1, <1>3 DEF Keeps, Fields
<1> QED BY <1>3, <1>4, <1>5

\* A terminal fact is sent and held, with its retry timer armed.
LEMMA PublishFacts ==
    ASSUME NEW s, Typed(s), Mute(s)
    PROVE  LET t == PublishTerminal(s)
           IN  /\ Typed(t) /\ Keeps(s, t, {"out", "pub", "timers"})
               /\ t.pub = "terminal_pending_ack" /\ t.timers = s.timers \cup {"terminal_ack"}
               /\ \A x \in {"turn_outcome", "turn_failed", "state"} : Says(t, x) <=> s.fact = x
               /\ Ordered(t.out)
<1> DEFINE sent == Emit(s, Fact(s.fact))
           both == Emit(sent, Fact("parked"))
           parked == IF s.fact = "turn_failed" THEN both ELSE sent
           held == [parked EXCEPT !.pub = "terminal_pending_ack"]
           t == Arm(held, "terminal_ack")
<1>1. /\ Fact(s.fact) \in Facts /\ Fact(s.fact).type = s.fact
      /\ Fact("parked") \in Facts /\ Fact("parked").type = "parked"
      /\ s.fact # "parked"
  BY FactTypes DEF Typed, FactNames
<1>2. Ordered(s.out) /\ \A x \in Loud : ~Says(s, x)
  BY AlikeFacts DEF Mute
<1>3. /\ Typed(sent) /\ Keeps(s, sent, {"out"}) /\ Ordered(sent.out)
      /\ \A x : Says(sent, x) <=> Says(s, x) \/ s.fact = x
  BY <1>1, <1>2, EmitFacts
<1> HIDE DEF sent
<1>4. /\ Typed(both) /\ Keeps(sent, both, {"out"})
      /\ \A x : Says(both, x) <=> Says(sent, x) \/ x = "parked"
      /\ s.fact = "turn_failed" => Ordered(both.out)
  <2>1. s.fact = "turn_failed" => Says(sent, "turn_failed")
    BY <1>3
  <2> QED BY <1>1, <1>3, <2>1, EmitFacts
<1> HIDE DEF both
<1>5. Typed(parked) /\ Keeps(s, parked, {"out"})
  BY <1>3, <1>4 DEF Keeps, Fields
<1>6. Ordered(parked.out) /\ \A x \in {"turn_outcome", "turn_failed", "state"} : Says(parked, x) <=> s.fact = x
  BY <1>2, <1>3, <1>4 DEF Loud
<1> HIDE DEF parked
<1>7. Keeps(parked, held, {"pub"}) /\ held.pub = "terminal_pending_ack"
  BY <1>5 DEF Keeps, Typed, Fields
<1> HIDE DEF held
<1>8. Typed(held)
  BY <1>5, <1>7 DEF Keeps, Typed, Fields, Publications
<1>9. Typed(t) /\ Keeps(held, t, {"timers"}) /\ t.timers = held.timers \cup {"terminal_ack"}
  BY <1>8, ArmFacts DEF Timers
<1>10. t = PublishTerminal(s)
  BY DEF PublishTerminal, held, parked, both, sent
<1> HIDE DEF t
<1>11. Keeps(s, t, {"out", "pub", "timers"}) /\ t.pub = "terminal_pending_ack"
      /\ t.timers = s.timers \cup {"terminal_ack"} /\ t.out = parked.out
  BY <1>5, <1>7, <1>9 DEF Keeps, Fields
<1>12. Ordered(t.out) /\ \A x \in {"turn_outcome", "turn_failed", "state"} : Says(t, x) <=> s.fact = x
  BY <1>6, <1>11 DEF Says
<1> QED BY <1>9, <1>10, <1>11, <1>12

LEMMA FatalFacts ==
    ASSUME NEW s, Typed(s)
    PROVE  LET t == FinishFatal(s)
           IN  /\ Typed(t) /\ Keeps(s, t, {"out", "pub", "phase", "timers"})
               /\ t.phase = "exited" /\ t.pub = "none" /\ Alike(s, t)
<1> DEFINE r == Emit(s, Fact("worker_failed"))
           t == [r EXCEPT !.pub = "none", !.phase = "exited", !.timers = {}]
<1>1. Typed(r) /\ Keeps(s, r, {"out"}) /\ Alike(s, r)
  <2>1. Fact("worker_failed") \in Facts /\ Fact("worker_failed").type \notin Loud
    BY FactTypes DEF FactNames, Loud
  <2> QED BY <2>1, EmitFacts
<1>2. t = FinishFatal(s)
  BY DEF FinishFatal
<1> HIDE DEF r
<1>3. /\ Keeps(r, t, {"pub", "phase", "timers"}) /\ t.pub = "none" /\ t.phase = "exited" /\ t.timers = {}
      /\ t.out = r.out
  BY <1>1 DEF Keeps, Typed, Fields
<1> HIDE DEF t
<1>4. Typed(t)
  BY <1>1, <1>3, SMTT(60) DEF Keeps, Typed, Fields, Phases, Publications
<1>5. Keeps(s, t, {"out", "pub", "phase", "timers"})
  BY <1>1, <1>3 DEF Keeps, Fields
<1>6. Alike(s, t)
  BY <1>1, <1>3, AlikeFacts
<1> QED BY <1>2, <1>3, <1>4, <1>5, <1>6

\* A failed worker exits, after a snapshot where one is wanted and possible.
LEMMA FailedFacts ==
    ASSUME NEW s, Typed(s), NEW b \in BOOLEAN
    PROVE  LET t == WorkerFailed(s, b)
           IN  /\ Typed(t) /\ Keeps(s, t, {"out", "pub", "phase", "timers", "jobs", "after"})
               /\ Alike(s, t)
               /\ \/ t.phase = "exited" /\ t.pub = "none" /\ t.jobs = s.jobs
                  \/ /\ s.pub = "none" /\ t.pub = "fatal_snapshot" /\ t.jobs = s.jobs \cup {"snapshot"}
                     /\ t.phase = s.phase /\ t.timers = s.timers
                     /\ t.after = "cleanup" => s.phase = "cleaning"
<1> DEFINE t == WorkerFailed(s, b)
<1>1. CASE b /\ s.pub = "none"
  <2> DEFINE r == BeginSnapshot(s, "fatal_snapshot")
             a == IF s.phase = "cleaning" /\ s.stage = "publication" THEN "cleanup" ELSE "exit"
  <2>1. /\ Typed(r) /\ Keeps(s, r, {"pub", "jobs"})
        /\ r.pub = "fatal_snapshot" /\ r.jobs = s.jobs \cup {"snapshot"}
    BY <1>1, SnapshotFacts DEF Publications
  <2> HIDE DEF r
  <2>2. t = [r EXCEPT !.after = a]
    BY <1>1 DEF WorkerFailed, r
  <2>3. a \in {"none", "exit", "cleanup"} /\ (a = "cleanup" => s.phase = "cleaning")
    OBVIOUS
  <2> HIDE DEF a, t
  <2>4. Keeps(r, t, {"after"}) /\ t.after = a
    BY <2>1, <2>2 DEF Keeps, Typed, Fields
  <2>5. Typed(t)
    BY <2>1, <2>3, <2>4 DEF Keeps, Typed, Fields
  <2>6. /\ Keeps(s, t, {"out", "pub", "phase", "timers", "jobs", "after"})
        /\ t.out = s.out /\ t.pub = "fatal_snapshot" /\ t.jobs = s.jobs \cup {"snapshot"}
        /\ t.phase = s.phase /\ t.timers = s.timers
    BY <2>1, <2>4 DEF Keeps, Fields
  <2>7. Alike(s, t)
    BY <2>6, AlikeFacts
  <2> QED BY <1>1, <2>3, <2>4, <2>5, <2>6, <2>7 DEF t
<1>2. CASE ~(b /\ s.pub = "none")
  <2>1. t = FinishFatal(s)
    BY <1>2 DEF WorkerFailed
  <2>2. /\ Typed(t) /\ Keeps(s, t, {"out", "pub", "phase", "timers"})
        /\ t.phase = "exited" /\ t.pub = "none" /\ Alike(s, t)
    BY <2>1, FatalFacts
  <2> HIDE DEF t
  <2>3. Keeps(s, t, {"out", "pub", "phase", "timers", "jobs", "after"}) /\ t.jobs = s.jobs
    BY <2>2 DEF Keeps, Fields
  <2> QED BY <2>2, <2>3 DEF t
<1> QED BY <1>1, <1>2

\* A worker with a session parks its process, one without exits.
LEMMA DispatchFacts ==
    ASSUME NEW s, Typed(s)
    PROVE  LET t == DispatchFailed(s)
           IN  /\ Typed(t) /\ Keeps(s, t, {"out", "pub", "phase", "timers", "jobs", "after"})
               /\ \A x \in {"turn_outcome", "turn_failed", "state"} : Says(t, x) <=> Says(s, x)
               /\ Alike(s, t) \/ Says(t, "parked")
               /\ Keeps(s, t, {"out"}) \/ (t.phase = "exited" /\ t.pub = "none" /\ t.jobs = s.jobs)
<1> DEFINE t == DispatchFailed(s)
<1>1. CASE s.kind # "none"
  <2>1. t = Emit(s, Fact("parked"))
    BY <1>1 DEF DispatchFailed
  <2>2. Fact("parked") \in Facts /\ Fact("parked").type = "parked"
    BY FactTypes DEF FactNames
  <2>4. /\ Typed(t) /\ Keeps(s, t, {"out"}) /\ Says(t, "parked")
        /\ \A x \in {"turn_outcome", "turn_failed", "state"} : Says(t, x) <=> Says(s, x)
    BY <2>1, <2>2, EmitFacts
  <2> HIDE DEF t
  <2>3. Keeps(s, t, {"out", "pub", "phase", "timers", "jobs", "after"})
    BY <2>4 DEF Keeps
  <2> QED BY <2>3, <2>4 DEF t
<1>2. CASE s.kind = "none"
  <2>1. t = FinishFatal(s)
    BY <1>2 DEF DispatchFailed, WorkerFailed
  <2>2. /\ Typed(t) /\ Keeps(s, t, {"out", "pub", "phase", "timers"})
        /\ t.phase = "exited" /\ t.pub = "none" /\ Alike(s, t)
    BY <2>1, FatalFacts
  <2> HIDE DEF t
  <2>3. Keeps(s, t, {"out", "pub", "phase", "timers", "jobs", "after"}) /\ t.jobs = s.jobs
    BY <2>2 DEF Keeps, Fields
  <2> QED BY <2>2, <2>3 DEF t, Alike, Loud
<1> QED BY <1>1, <1>2

LEMMA ActivationFacts ==
    ASSUME NEW s, Typed(s)
    PROVE  LET t == BeginActivation(s)
           IN  /\ Typed(t) /\ Keeps(s, t, {"phase", "timers", "jobs"})
               /\ t.phase = "activating" /\ t.timers = s.timers \ {"acceptance_retry"}
               /\ t.jobs = s.jobs \cup {"activate"}
<1> DEFINE r == [s EXCEPT !.phase = "activating", !.timers = @ \ {"acceptance_retry"}]
           t == Launch(r, "activate")
<1>1. /\ Keeps(s, r, {"phase", "timers"}) /\ r.phase = "activating"
      /\ r.timers = s.timers \ {"acceptance_retry"}
  BY DEF Keeps, Typed, Fields
<1> HIDE DEF r
<1>2. Typed(r)
  BY <1>1 DEF Keeps, Typed, Fields, Phases
<1>3. Typed(t) /\ Keeps(r, t, {"jobs"}) /\ t.jobs = r.jobs \cup {"activate"}
  BY <1>2, LaunchFacts DEF Jobs
<1>4. t = BeginActivation(s)
  BY DEF BeginActivation, r
<1> HIDE DEF t
<1>5. /\ Keeps(s, t, {"phase", "timers", "jobs"}) /\ t.phase = "activating"
      /\ t.timers = s.timers \ {"acceptance_retry"} /\ t.jobs = s.jobs \cup {"activate"}
  BY <1>1, <1>3 DEF Keeps, Fields
<1> QED BY <1>3, <1>4, <1>5

\* The facts of consumed inputs.
LEMMA ConsumedType ==
    ASSUME NEW S \in SUBSET Inputs
    PROVE  /\ ConsumedFacts(S) \in Seq(Facts)
           /\ \A n \in 1..Len(ConsumedFacts(S)) : ConsumedFacts(S)[n].type = "input_consumed"
<1>1. Cardinality(S) \in Nat
  <2>1. IsFiniteSet(Inputs)
    BY FS_Interval, MaxInputAssumption DEF Inputs
  <2> QED BY <2>1, FS_Subset, FS_CardinalityType
<1>2. \A n \in 1..Cardinality(S) : ConsumedFacts(S)[n] \in Facts
  BY DEF Facts
<1>3. /\ DOMAIN ConsumedFacts(S) = 1..Cardinality(S)
      /\ \A n \in 1..Cardinality(S) : ConsumedFacts(S)[n].type = "input_consumed"
  BY DEF ConsumedFacts
<1>4. ConsumedFacts(S) = [n \in 1..Cardinality(S) |-> ConsumedFacts(S)[n]]
  BY DEF ConsumedFacts
<1>5. ConsumedFacts(S) \in Seq(Facts) /\ Len(ConsumedFacts(S)) = Cardinality(S)
  BY <1>1, <1>2, <1>4
<1> QED BY <1>3, <1>5

LEMMA ConsumeFacts ==
    ASSUME NEW s, Typed(s), NEW S \in SUBSET Inputs
    PROVE  LET t == Consume(s, S)
           IN  /\ Typed(t) /\ Keeps(s, t, {"queue", "consumed", "out"})
               /\ t.queue = s.queue \ S /\ Alike(s, t)
<1> DEFINE t == Consume(s, S)
           c == ConsumedFacts(S)
           m == Max(S \cup {s.consumed})
<1>1. c \in Seq(Facts) /\ \A n \in 1..Len(c) : c[n].type = "input_consumed"
  BY ConsumedType
<1>2. m \in 0..MaxInput
  BY MaxType DEF Typed
<1>3. t = [s EXCEPT !.queue = @ \ S, !.consumed = m, !.out = @ \o c]
  BY DEF Consume
<1> HIDE DEF c, m, t
<1>4. /\ Keeps(s, t, {"queue", "consumed", "out"})
      /\ t.queue = s.queue \ S /\ t.consumed = m /\ t.out = s.out \o c
  BY <1>3 DEF Keeps, Typed, Fields
<1>5. /\ t.out \in Seq(Facts) /\ Len(t.out) = Len(s.out) + Len(c) /\ Len(s.out) \in Nat /\ Len(c) \in Nat
      /\ \A n \in 1..(Len(s.out) + Len(c)) : t.out[n] = IF n <= Len(s.out) THEN s.out[n] ELSE c[n - Len(s.out)]
  BY <1>1, <1>4 DEF Typed
<1>6. Typed(t)
  BY <1>2, <1>4, <1>5, ZenonT(60) DEF Keeps, Typed, Fields
<1>7. \A n \in 1..Len(s.out) : n \in 1..Len(t.out) /\ t.out[n] = s.out[n]
  BY <1>5
<1>8. \A n \in 1..Len(t.out) : n \in 1..Len(s.out) \/ t.out[n].type = "input_consumed"
  <2> SUFFICES ASSUME NEW n \in 1..Len(t.out), n \notin 1..Len(s.out)
               PROVE  t.out[n].type = "input_consumed"
    OBVIOUS
  <2>1. n - Len(s.out) \in 1..Len(c) /\ t.out[n] = c[n - Len(s.out)]
    BY <1>5
  <2> QED BY <1>1, <2>1
<1>9. Alike(s, t)
  <2>1. ASSUME NEW x \in Loud PROVE Says(t, x) <=> Says(s, x)
    BY <1>7, <1>8 DEF Says, Loud
  <2>2. ASSUME Ordered(s.out) PROVE Ordered(t.out)
    <3> SUFFICES ASSUME NEW n \in 1..Len(t.out), t.out[n].type = "parked"
                 PROVE  \E k \in 1..Len(t.out) : k < n /\ t.out[k].type = "turn_failed"
      BY DEF Ordered
    <3>1. n \in 1..Len(s.out) /\ s.out[n].type = "parked"
      BY <1>7, <1>8
    <3>2. PICK k \in 1..Len(s.out) : k < n /\ s.out[k].type = "turn_failed"
      BY <2>2, <3>1 DEF Ordered
    <3> QED BY <1>7, <3>2
  <2> QED BY <2>1, <2>2 DEF Alike
<1> QED BY <1>4, <1>6, <1>9 DEF t

-----------------------------------------------------------------------------
(* The invariant *)

Early == {"init", "waiting_for_start", "bootstrapping", "readying", "waiting_for_acceptance", "activating"}

\* What a worker that has not exited may be doing in each phase.
Good(s) ==
    /\ "bootstrap" \in s.jobs =>
         s.pub = "none" /\ (s.phase = "bootstrapping" \/ (s.phase = "draining" /\ s.op = "bootstrap"))
    /\ "activate" \in s.jobs =>
         s.pub = "none" /\ s.turn = "none" /\ (s.phase = "activating" \/ (s.phase = "draining" /\ s.op = "activation"))
    /\ "turn" \in s.jobs =>
         s.pub = "none" /\ s.turn = "executing" /\ (s.phase = "active" \/ (s.phase = "draining" /\ s.op = "turn"))
    /\ "deliver" \in s.jobs => s.delivery # {}
    /\ "cleanup" \in s.jobs => s.phase = "cleaning"
    /\ s.delivery # {} => s.phase \in {"active", "draining"}
    /\ s.phase \in Early => s.turn = "none" /\ s.pi = FALSE
    /\ s.phase \in {"init", "waiting_for_start", "waiting_for_acceptance", "activating"} => s.pub = "none"
    /\ s.phase = "bootstrapping" => s.pub \in {"none", "fatal_snapshot"}
    /\ s.phase = "readying" => s.pub \in {"none", "ready_snapshot"}
    /\ s.phase = "active" => s.turn # "none" /\ s.pub \in {"none", "terminal_snapshot", "terminal_pending_ack"}
    /\ s.phase = "cleaning" =>
         /\ s.jobs \subseteq {"snapshot", "cleanup", "sample"}
         /\ s.pub \in {"none", "cleanup_snapshot", "fatal_snapshot", "fatal_pending_cleanup"}
    /\ s.pub = "cleanup_snapshot" => s.phase = "cleaning"
    /\ s.pub = "fatal_snapshot" /\ s.after = "cleanup" => s.phase = "cleaning"
    /\ s.pub \in {"terminal_snapshot", "terminal_pending_ack"} => s.turn # "none" /\ s.fact # "none"
    /\ s.pub = "terminal_pending_ack" /\ s.phase # "draining" => "terminal_ack" \in s.timers

Sound(s) ==
    /\ Typed(s) /\ s.threw = FALSE
    /\ s.phase # "exited" => Good(s)
    /\ s.phase = "exited" => s.pub # "terminal_pending_ack"

\* The turn has been launched.
Begun(s) == s.turn \in {"executing", "completed"}
TurnStays(s, t) == (Begun(t) <=> Begun(s)) /\ (t.turn = "executing" => s.turn = "executing")

\* The turn was accepted, or is treated as if it were.
Admitted(s) == s.accepted = TRUE \/ s.turn # "none" \/ s.phase \in {"activating", "active"}

\* The turn ended with the event.
Ended(s) == "turn" \in w.jobs /\ "turn" \notin s.jobs

\* What an event may say of the turn: an outcome or a failure is sent with the
\* publication that holds it, a publication begins when the turn ends and is
\* kept until it is recorded (the event "recorded"), and only the end of a
\* command (the event "job") parks the process for any other reason.
Tale(s, e) ==
    /\ Says(s, "turn_outcome") => s.fact = "turn_outcome" /\ s.pub = "terminal_pending_ack"
    /\ Says(s, "turn_failed") =>
         \/ s.fact = "turn_failed" /\ s.pub = "terminal_pending_ack"
         \/ w.pub = "terminal_snapshot" /\ s.pub \notin {"terminal_snapshot", "terminal_pending_ack"}
    /\ s.pub = "terminal_pending_ack" => w.pub \in {"terminal_snapshot", "terminal_pending_ack"} \/ Ended(s)
    /\ s.pub = "terminal_snapshot" => w.pub = "terminal_snapshot" \/ Ended(s)
    /\ s.fact = w.fact \/ Ended(s)
    /\ Ended(s) => e = "job"
    /\ w.pub = "terminal_pending_ack" =>
         s.pub = "terminal_pending_ack" \/ s.phase = "exited" \/ e = "recorded"
    /\ \/ Ordered(s.out)
       \/ /\ e = "job" /\ Says(s, "parked")
          /\ ~(Says(s, "turn_failed") /\ s.pub = "terminal_pending_ack")

\* A state that an event leaves to advance, g being what granted becomes.
Pre(s, g, e) ==
    /\ Sound(s) /\ ~Says(s, "state")
    /\ TurnStays(w, s)
    /\ "turn" \in s.jobs => "turn" \in w.jobs
    /\ Admitted(s) => g
    /\ Tale(s, e)

\* From s to t the turn is launched, or its launch is left as it was.
Runs(s, t) ==
    \/ t.turn = s.turn /\ ("turn" \in t.jobs <=> "turn" \in s.jobs)
    \/ s.turn = "pending" /\ t.turn = "executing" /\ "turn" \in t.jobs /\ t.phase # "exited"

\* What a part of advance keeps.
Moves(s, t) ==
    /\ Sound(t) /\ Alike(s, t) /\ Runs(s, t) /\ t.fact = s.fact
    /\ (t.phase = "exited") <=> (s.phase = "exited")
    /\ (t.pub = "terminal_pending_ack") <=> (s.pub = "terminal_pending_ack")
    /\ (t.pub = "terminal_snapshot") <=> (s.pub = "terminal_snapshot")
    /\ Admitted(t) => Admitted(s)

Env ==
    /\ arrived \subseteq Inputs /\ payload \in 0..MaxInput
    /\ overtaken \in BOOLEAN /\ granted \in BOOLEAN
    /\ owed \in {"none", "turn_outcome", "turn_failed"}

Hist ==
    /\ ran = IF Begun(w) THEN 1 ELSE 0
    /\ Admitted(w) => granted
    /\ Alive => (owed = "turn_outcome" => w.pub = "terminal_pending_ack" /\ w.fact = "turn_outcome")

IInv == Sound(w) /\ Env /\ Hist

-----------------------------------------------------------------------------
(* advance *)

LEMMA FinishReadyingMoves ==
    ASSUME NEW s, Sound(s)
    PROVE  Moves(s, FinishReadying(s))
<1> DEFINE t == FinishReadying(s)
           idle == s.phase # "readying" \/ s.cred = "sampling" \/ s.pub # "none"
<1>1. CASE idle
  BY <1>1, AlikeFacts DEF FinishReadying, Moves, Runs
<1>2. CASE ~idle /\ s.accepted
  <2>1. /\ Typed(t) /\ Keeps(s, t, {"phase", "timers", "jobs"})
        /\ t.phase = "activating" /\ t.timers = s.timers \ {"acceptance_retry"}
        /\ t.jobs = s.jobs \cup {"activate"}
    BY <1>2, ActivationFacts DEF FinishReadying, Sound
  <2>2. s.phase = "readying" /\ s.pub = "none" /\ s.accepted = TRUE
    BY <1>2 DEF Sound, Typed
  <2> HIDE DEF t, idle
  <2>3. t.out = s.out /\ Good(t)
    BY <2>1, <2>2 DEF Keeps, Fields, Sound, Good, Early
  <2>4. Sound(t) /\ Runs(s, t) /\ (Admitted(t) => Admitted(s))
    BY <2>1, <2>2, <2>3 DEF Keeps, Fields, Sound, Runs, Admitted
  <2>5. Alike(s, t)
    BY <2>3, AlikeFacts
  <2>6. /\ (t.phase = "exited") <=> (s.phase = "exited")
        /\ (t.pub = "terminal_pending_ack") <=> (s.pub = "terminal_pending_ack")
        /\ (t.pub = "terminal_snapshot") <=> (s.pub = "terminal_snapshot")
        /\ t.fact = s.fact
    BY <2>1, <2>2 DEF Keeps, Fields
  <2> QED BY <2>4, <2>5, <2>6 DEF Moves, t
<1>3. CASE ~idle /\ ~s.accepted
  <2> DEFINE r == [s EXCEPT !.phase = "waiting_for_acceptance"]
             q == Emit(r, Fact("turn_started"))
  <2>1. t = Arm(q, "acceptance_retry")
    BY <1>3 DEF FinishReadying
  <2>2. s.phase = "readying" /\ s.pub = "none" /\ s.accepted = FALSE
    BY <1>3 DEF Sound, Typed
  <2>3. Typed(r) /\ Keeps(s, r, {"phase"}) /\ r.phase = "waiting_for_acceptance"
    BY DEF Sound, Typed, Keeps, Fields, Phases
  <2> HIDE DEF r
  <2>4. Fact("turn_started") \in Facts /\ Fact("turn_started").type \notin Loud
    BY FactTypes DEF FactNames, Loud
  <2>5. Typed(q) /\ Keeps(r, q, {"out"}) /\ Alike(r, q)
    BY <2>3, <2>4, EmitFacts
  <2> HIDE DEF q
  <2>6. Typed(t) /\ Keeps(q, t, {"timers"}) /\ t.timers = q.timers \cup {"acceptance_retry"}
    BY <2>1, <2>5, ArmFacts DEF Timers
  <2> HIDE DEF t, idle
  <2>7. /\ Keeps(s, t, {"phase", "out", "timers"}) /\ t.phase = "waiting_for_acceptance"
        /\ t.timers = s.timers \cup {"acceptance_retry"} /\ t.out = q.out /\ r.out = s.out
    BY <2>3, <2>5, <2>6 DEF Keeps, Fields
  <2>8. Good(t)
    BY <2>2, <2>7 DEF Keeps, Fields, Sound, Good, Early
  <2>9. Sound(t) /\ Runs(s, t) /\ (Admitted(t) => Admitted(s))
    BY <2>2, <2>6, <2>7, <2>8 DEF Keeps, Fields, Sound, Runs, Admitted
  <2>10. Alike(s, t)
    BY <2>5, <2>7, AlikeFacts
  <2>11. /\ (t.phase = "exited") <=> (s.phase = "exited")
         /\ (t.pub = "terminal_pending_ack") <=> (s.pub = "terminal_pending_ack")
         /\ (t.pub = "terminal_snapshot") <=> (s.pub = "terminal_snapshot")
         /\ t.fact = s.fact
    BY <2>2, <2>7 DEF Keeps, Fields
  <2> QED BY <2>9, <2>10, <2>11 DEF Moves, t
<1> QED BY <1>1, <1>2, <1>3

\* A worker with no active work has only its resources left to give back.
LEMMA BeginCleaningMoves ==
    ASSUME NEW s, Sound(s), NoActiveWork(s)
    PROVE  Moves(s, BeginCleaning(s))
<1> DEFINE t == BeginCleaning(s)
           up == Uploads(s, "before_cleanup_completed")
           r == [s EXCEPT !.phase = "cleaning"]
           p == [r EXCEPT !.stage = "publication"]
           q == [r EXCEPT !.stage = "resources"]
<1>1. /\ Keeps(s, p, {"phase", "stage"}) /\ p.phase = "cleaning" /\ p.stage = "publication"
      /\ Keeps(s, q, {"phase", "stage"}) /\ q.phase = "cleaning" /\ q.stage = "resources"
  BY DEF Sound, Typed, Keeps, Fields
<1>2. t = IF up THEN BeginSnapshot(p, "cleanup_snapshot") ELSE Launch(q, "cleanup")
  BY DEF BeginCleaning
<1>3. s.phase = "draining" /\ s.op = "none" /\ s.delivery = {} /\ s.pub = "none"
  BY DEF NoActiveWork
<1>4. s.jobs \subseteq {"snapshot", "cleanup", "sample"}
  BY <1>3 DEF Sound, Typed, Good, Jobs
<1> HIDE DEF p, q, up
<1>5. Typed(p) /\ Typed(q) /\ p.pub = "none"
  BY <1>1, <1>3 DEF Sound, Typed, Keeps, Fields, Phases
<1>6. /\ Typed(t) /\ Keeps(s, t, {"phase", "stage", "pub", "jobs"}) /\ t.phase = "cleaning"
      /\ t.pub \in {"none", "cleanup_snapshot"} /\ t.jobs \subseteq s.jobs \cup {"snapshot", "cleanup"}
  <2>1. CASE up
    <3>1. /\ Typed(t) /\ Keeps(p, t, {"pub", "jobs"})
          /\ t.pub = "cleanup_snapshot" /\ t.jobs = p.jobs \cup {"snapshot"}
      BY <1>2, <1>5, <2>1, SnapshotFacts DEF Publications
    <3> HIDE DEF t
    <3> QED BY <1>1, <3>1 DEF Keeps, Fields
  <2>2. CASE ~up
    <3>1. Typed(t) /\ Keeps(q, t, {"jobs"}) /\ t.jobs = q.jobs \cup {"cleanup"}
      BY <1>2, <1>5, <2>2, LaunchFacts DEF Jobs
    <3> HIDE DEF t
    <3> QED BY <1>1, <1>3, <3>1 DEF Keeps, Fields
  <2> QED BY <2>1, <2>2
<1> HIDE DEF t
<1>7. Good(t)
  BY <1>3, <1>4, <1>6 DEF Keeps, Fields, Sound, Good, Early
<1>8. Sound(t) /\ Runs(s, t) /\ (Admitted(t) => Admitted(s))
  BY <1>3, <1>4, <1>6, <1>7 DEF Keeps, Fields, Sound, Runs, Admitted
<1>9. t.out = s.out
  BY <1>6 DEF Keeps, Fields
<1>10. Alike(s, t)
  BY <1>9, AlikeFacts
<1>11. /\ (t.phase = "exited") <=> (s.phase = "exited")
       /\ (t.pub = "terminal_pending_ack") <=> (s.pub = "terminal_pending_ack")
       /\ (t.pub = "terminal_snapshot") <=> (s.pub = "terminal_snapshot")
       /\ t.fact = s.fact
  BY <1>3, <1>6 DEF Keeps, Fields
<1> QED BY <1>8, <1>10, <1>11 DEF Moves, t

LEMMA IgnoreInputsMoves ==
    ASSUME NEW s, Sound(s)
    PROVE  Moves(s, IgnoreInputs(s))
<1> DEFINE t == IgnoreInputs(s)
           S == Ordinary(s)
<1>1. CASE t = s
  BY <1>1, AlikeFacts DEF Moves, Runs
<1>2. CASE t = Consume(s, S)
  <2>1. S \in SUBSET Inputs
    BY DEF Ordinary, Sound, Typed
  <2>2. Typed(t) /\ Keeps(s, t, {"queue", "consumed", "out"}) /\ Alike(s, t)
    BY <1>2, <2>1, ConsumeFacts DEF Sound
  <2> HIDE DEF t
  <2>3. (s.phase # "exited" => Good(t)) /\ Runs(s, t) /\ (Admitted(t) => Admitted(s))
    BY <2>2 DEF Keeps, Fields, Sound, Good, Early, Runs, Admitted
  <2>4. t.phase = s.phase /\ t.pub = s.pub /\ t.threw = s.threw /\ t.fact = s.fact
    BY <2>2 DEF Keeps, Fields
  <2> QED BY <2>2, <2>3, <2>4 DEF Sound, Moves, t
<1> QED BY <1>1, <1>2 DEF IgnoreInputs

LEMMA InputStepMoves ==
    ASSUME NEW s, Sound(s)
    PROVE  Moves(s, InputStep(s))
<1> DEFINE t == InputStep(s)
           d == [s EXCEPT !.delivery = Ordinary(s)]
           e == [s EXCEPT !.turn = "executing"]
<1>1. CASE t = s
  BY <1>1, AlikeFacts DEF Moves, Runs
<1>2. CASE HandlesInputs(s) /\ Ordinary(s) # {} /\ s.pi /\ t = Launch(d, "deliver")
  <2>1. Typed(s)
    BY DEF Sound
  <2>2. Ordinary(s) \subseteq Inputs
    BY <2>1 DEF Ordinary, Typed
  <2>3. Keeps(s, d, {"delivery"}) /\ d.delivery = Ordinary(s)
    BY <2>1 DEF Typed, Keeps, Fields
  <2> HIDE DEF d
  <2>4. Typed(d)
    BY <2>1, <2>2, <2>3 DEF Typed, Keeps, Fields
  <2>5. Typed(t) /\ Keeps(d, t, {"jobs"}) /\ t.jobs = d.jobs \cup {"deliver"}
    BY <1>2, <2>4, LaunchFacts DEF Jobs
  <2> HIDE DEF t
  <2>6. Keeps(s, t, {"delivery", "jobs"}) /\ t.delivery # {} /\ t.jobs = s.jobs \cup {"deliver"} /\ t.out = s.out
    BY <1>2, <2>3, <2>5 DEF Keeps, Fields
  <2>7. s.pi = TRUE /\ s.phase \in {"active", "waiting_for_acceptance"}
    BY <1>2, <2>1 DEF HandlesInputs, Typed
  <2>8. s.phase = "active"
    BY <2>7 DEF Sound, Good, Early
  <2>9. Good(t) /\ t.phase = s.phase /\ t.pub = s.pub /\ t.threw = s.threw /\ t.fact = s.fact
    BY <2>6, <2>8 DEF Keeps, Fields, Sound, Good, Early
  <2>10. Runs(s, t) /\ (Admitted(t) => Admitted(s))
    BY <2>6 DEF Keeps, Fields, Runs, Admitted
  <2>11. Alike(s, t)
    BY <2>6, AlikeFacts
  <2> QED BY <2>5, <2>8, <2>9, <2>10, <2>11 DEF Moves, Sound, t
<1>3. CASE HandlesInputs(s) /\ MayStartTurn(s) /\ t = Launch(e, "turn")
  <2>1. Typed(s)
    BY DEF Sound
  <2>2. Keeps(s, e, {"turn"}) /\ e.turn = "executing"
    BY <2>1 DEF Typed, Keeps, Fields
  <2> HIDE DEF e
  <2>3. Typed(e)
    BY <2>1, <2>2 DEF Typed, Keeps, Fields
  <2>4. Typed(t) /\ Keeps(e, t, {"jobs"}) /\ t.jobs = e.jobs \cup {"turn"}
    BY <1>3, <2>3, LaunchFacts DEF Jobs
  <2> HIDE DEF t
  <2>5. Keeps(s, t, {"turn", "jobs"}) /\ t.turn = "executing" /\ t.jobs = s.jobs \cup {"turn"} /\ t.out = s.out
    BY <2>2, <2>4 DEF Keeps, Fields
  <2>6. s.phase = "active" /\ s.turn = "pending" /\ s.pub = "none"
    BY <1>3 DEF HandlesInputs, MayStartTurn
  <2>7. Good(t) /\ t.phase = s.phase /\ t.pub = s.pub /\ t.threw = s.threw /\ t.fact = s.fact
    BY <2>5, <2>6 DEF Keeps, Fields, Sound, Good, Early
  <2>8. Runs(s, t) /\ (Admitted(t) => Admitted(s))
    BY <2>5, <2>6 DEF Keeps, Fields, Runs, Admitted
  <2>9. Alike(s, t)
    BY <2>5, AlikeFacts
  <2> QED BY <2>4, <2>6, <2>7, <2>8, <2>9 DEF Moves, Sound, t
<1> QED BY <1>1, <1>2, <1>3 DEF InputStep

LEMMA MovesTransitive ==
    ASSUME NEW r, NEW s, NEW t, Moves(r, s), Moves(s, t)
    PROVE  Moves(r, t)
BY AlikeFacts DEF Moves, Runs

LEMMA AdvanceMoves ==
    ASSUME NEW s, Sound(s)
    PROVE  Moves(s, Advance(s))
<1> DEFINE r == FinishReadying(s)
           i == IgnoreInputs(r)
           t == Advance(s)
<1>1. Moves(s, r)
  BY FinishReadyingMoves
<1>2. t = IF NoActiveWork(r) THEN BeginCleaning(r) ELSE InputStep(i)
  BY DEF Advance
<1> HIDE DEF r, t
<1>3. Sound(r)
  BY <1>1 DEF Moves
<1>4. Moves(r, i)
  BY <1>3, IgnoreInputsMoves
<1> HIDE DEF i
<1>5. Moves(i, InputStep(i))
  BY <1>4, InputStepMoves DEF Moves
<1>6. NoActiveWork(r) => Moves(r, BeginCleaning(r))
  BY <1>3, BeginCleaningMoves
<1>7. Moves(r, t)
  BY <1>2, <1>4, <1>5, <1>6, MovesTransitive
<1> QED BY <1>1, <1>7, MovesTransitive DEF t

-----------------------------------------------------------------------------
(* An event *)

\* What v says of its reported state: a change is the last fact of a worker
\* that goes on; one that exits says nothing and launches nothing.
Voice(v) ==
    /\ v.phase = "exited" /\ v.turn = "executing" => w.turn = "executing"
    /\ \A n \in 1..Len(v.out) : v.out[n].type = "state" =>
         v.phase # "exited" /\ n = Len(v.out) /\ v.out[n].to = Reported(v)
    /\ v.phase # "exited" /\ Reported(v) # Reported(w) => Says(v, "state")

\* The state w' = v after an event.
After(v, g, e) ==
    /\ Sound(v)
    /\ IF "turn" \in v.jobs \ w.jobs THEN ~Begun(w) /\ Begun(v) ELSE Begun(v) <=> Begun(w)
    /\ Admitted(v) => g
    /\ Tale(v, e) /\ Voice(v)

\* A prepared state is advanced to one that keeps what the event promised.
LEMMA ReduceFacts ==
    ASSUME IInv, Alive, NEW s, NEW g, NEW e, Pre(s, g, e), Reduce(s)
    PROVE  \E v : v = w' /\ After(v, g, e)
<1> DEFINE t == Advance(s)
           f == [type |-> "state", to |-> Reported(t)]
           turns == Reported(w) # Reported(t) /\ t.phase # "exited"
<1>1. PICK v : v = w'
  OBVIOUS
<1>2. Moves(s, t)
  BY AdvanceMoves DEF Pre
<1>3. v = IF turns THEN Emit(t, f) ELSE t
  BY <1>1 DEF Reduce
<1>4. f \in Facts /\ f.type = "state" /\ f.to = Reported(t)
  BY FactTypes
<1> HIDE DEF t, f
<1>5. /\ Typed(t) /\ Typed(v) /\ Keeps(t, v, {"out"})
      /\ ~turns => v = t
      /\ turns => v.out = Append(t.out, f)
      /\ \A x \in {"turn_outcome", "turn_failed", "parked"} : Says(v, x) <=> Says(t, x)
      /\ Ordered(t.out) => Ordered(v.out)
  <2>1. Typed(t)
    BY <1>2 DEF Moves, Sound
  <2>2. CASE ~turns
    BY <1>3, <2>1, <2>2 DEF Typed, Keeps
  <2>3. CASE turns
    <3>1. v = Emit(t, f)
      BY <1>3, <2>3
    <3>2. /\ Typed(v) /\ Keeps(t, v, {"out"})
          /\ \A x : Says(v, x) <=> Says(t, x) \/ f.type = x
          /\ Ordered(t.out) => Ordered(v.out)
      BY <1>4, <2>1, <3>1, EmitFacts
    <3>3. v.out = Append(t.out, f)
      BY <2>1, <3>1 DEF Emit, Typed, Fields
    <3>4. \A x \in {"turn_outcome", "turn_failed", "parked"} : Says(v, x) <=> Says(t, x)
      BY <1>4, <3>2
    <3> QED BY <2>1, <2>3, <3>2, <3>3, <3>4
  <2> QED BY <2>2, <2>3
<1>6. /\ \A y \in Fields \ {"out"} : v[y] = t[y]
      /\ v.phase = t.phase /\ v.pub = t.pub /\ v.fact = t.fact /\ v.turn = t.turn /\ v.jobs = t.jobs
      /\ (Admitted(v) <=> Admitted(t)) /\ Reported(v) = Reported(t)
  BY <1>5 DEF Keeps, Fields, Admitted, Reported
<1>7. Sound(v)
  <2>1. t.phase # "exited" => Good(v)
    BY <1>2, <1>5 DEF Keeps, Fields, Moves, Sound, Good, Early
  <2> QED BY <1>2, <1>5, <2>1 DEF Keeps, Fields, Moves, Sound
<1>8. /\ IF "turn" \in v.jobs \ w.jobs THEN ~Begun(w) /\ Begun(v) ELSE Begun(v) <=> Begun(w)
      /\ Ended(v) <=> Ended(s)
      /\ v.phase = "exited" /\ v.turn = "executing" => w.turn = "executing"
  <2>1. CASE v.turn = s.turn /\ ("turn" \in v.jobs <=> "turn" \in s.jobs)
    BY <2>1 DEF Pre, TurnStays, Begun, Ended
  <2>2. CASE s.turn = "pending" /\ v.turn = "executing" /\ "turn" \in v.jobs /\ v.phase # "exited"
    <3>1. ~Begun(w) /\ Begun(v)
      BY <2>2 DEF Pre, TurnStays, Begun
    <3>2. "turn" \notin w.jobs
      BY <3>1 DEF IInv, Alive, Sound, Good, Begun
    <3> QED BY <2>2, <3>1, <3>2 DEF Ended
  <2> QED BY <1>2, <1>6, <2>1, <2>2 DEF Moves, Runs
<1>9. /\ \A x \in {"turn_outcome", "turn_failed", "parked"} : Says(v, x) <=> Says(s, x)
      /\ Ordered(s.out) => Ordered(v.out)
      /\ ~Says(t, "state")
  BY <1>2, <1>5 DEF Moves, Alike, Loud, Pre
<1>10. /\ (v.pub = "terminal_pending_ack") <=> (s.pub = "terminal_pending_ack")
       /\ (v.pub = "terminal_snapshot") <=> (s.pub = "terminal_snapshot")
       /\ (v.phase = "exited") <=> (s.phase = "exited")
       /\ v.fact = s.fact /\ (Admitted(v) => Admitted(s))
  BY <1>2, <1>6 DEF Moves
<1>11. Tale(v, e)
  BY <1>8, <1>9, <1>10 DEF Pre, Tale
<1>12. Voice(v)
  <2>1. CASE ~turns
    BY <1>5, <1>6, <1>8, <1>9, <2>1 DEF Voice, Says
  <2>2. CASE turns
    <3>1. /\ Len(v.out) = Len(t.out) + 1 /\ v.out[Len(t.out) + 1] = f /\ Len(t.out) \in Nat
          /\ \A n \in 1..Len(v.out) : n = Len(t.out) + 1 \/ (n \in 1..Len(t.out) /\ v.out[n] = t.out[n])
      BY <1>5, <2>2 DEF Typed
    <3>2. \A n \in 1..Len(v.out) : v.out[n].type = "state" => n = Len(v.out) /\ v.out[n] = f
      BY <1>9, <3>1 DEF Says
    <3>3. Says(v, "state")
      BY <1>4, <3>1 DEF Says
    <3> QED BY <1>4, <1>6, <1>8, <2>2, <3>2, <3>3 DEF Voice
  <2> QED BY <2>1, <2>2
<1>13. After(v, g, e)
  BY <1>7, <1>8, <1>10, <1>11, <1>12 DEF After, Pre
<1> QED BY <1>1, <1>13

\* Advancing a prepared state keeps the invariant.
LEMMA StepLemma ==
    ASSUME IInv, Alive, NEW v, NEW e, v = w', After(v, granted', e), Observe,
           arrived' \subseteq Inputs, payload' \in 0..MaxInput,
           overtaken' \in BOOLEAN, granted' \in BOOLEAN
    PROVE  IInv'
<1>1. ran' = IF Begun(v) THEN 1 ELSE 0
  <2>1. ran' = IF "turn" \in v.jobs \ w.jobs THEN ran + 1 ELSE ran
    BY DEF Observe
  <2>2. ran = IF Begun(w) THEN 1 ELSE 0
    BY DEF IInv, Hist
  <2>3. IF "turn" \in v.jobs \ w.jobs THEN ~Begun(w) /\ Begun(v) ELSE Begun(v) <=> Begun(w)
    BY DEF After
  <2> QED BY <2>1, <2>2, <2>3
<1>2. /\ owed' \in {"none", "turn_outcome", "turn_failed"}
      /\ v.phase # "exited" =>
           (owed' = "turn_outcome" => v.pub = "terminal_pending_ack" /\ v.fact = "turn_outcome")
  <2> DEFINE acked == w.pub = "terminal_pending_ack" /\ w'.pub # "terminal_pending_ack" /\ w'.phase # "exited"
             a == Sends("turn_outcome")
             b == Sends("turn_failed")
  <2>1. owed' = IF a THEN "turn_outcome" ELSE IF b THEN "turn_failed" ELSE IF acked THEN "none" ELSE owed
    BY DEF Observe
  <2>2. a <=> Says(v, "turn_outcome")
    BY DEF Sends, Says
  <2>3. acked <=> w.pub = "terminal_pending_ack" /\ v.pub # "terminal_pending_ack" /\ v.phase # "exited"
    OBVIOUS
  <2> HIDE DEF a, b, acked
  <2>4. /\ owed' \in {"none", "turn_outcome", "turn_failed", owed}
        /\ owed' = "turn_outcome" => a \/ (~acked /\ owed = "turn_outcome")
    BY <2>1
  <2>5. /\ Says(v, "turn_outcome") => v.pub = "terminal_pending_ack" /\ v.fact = "turn_outcome"
        /\ v.fact = w.fact \/ Ended(v)
    BY DEF After, Tale
  <2>6. owed = "turn_outcome" => w.pub = "terminal_pending_ack" /\ w.fact = "turn_outcome"
    BY DEF IInv, Hist
  <2>7. Ended(v) => w.pub = "none"
    BY DEF Ended, IInv, Alive, Sound, Good
  <2>8. owed \in {"none", "turn_outcome", "turn_failed"}
    BY DEF IInv, Env
  <2> QED BY <2>2, <2>3, <2>4, <2>5, <2>6, <2>7, <2>8
<1>3. Sound(v) /\ (Admitted(v) => granted')
  BY DEF After
<1> QED BY <1>1, <1>2, <1>3 DEF IInv, Env, Hist, Alive

-----------------------------------------------------------------------------
(* The state an event starts from *)

LEMMA QuietFacts ==
    ASSUME IInv, Alive
    PROVE  /\ Typed(Quiet) /\ Keeps(w, Quiet, {"out"}) /\ Mute(Quiet)
           /\ Sound(w) /\ Good(w) /\ w.phase # "exited" /\ (Admitted(w) => granted)
<1> DEFINE q == Quiet
<1>1. Sound(w) /\ Typed(w) /\ Good(w) /\ w.phase # "exited" /\ (Admitted(w) => granted)
  BY DEF IInv, Sound, Alive, Hist
<1>2. Keeps(w, q, {"out"}) /\ q.out = <<>>
  BY <1>1 DEF Quiet, Keeps, Typed, Fields
<1> HIDE DEF q
<1>3. q.out \in Seq(Facts) /\ Len(q.out) = 0
  BY <1>2
<1>4. Typed(q)
  BY <1>1, <1>2, <1>3 DEF Keeps, Typed, Fields
<1>5. Mute(q)
  BY <1>3 DEF Mute, Says
<1> QED BY <1>1, <1>2, <1>4, <1>5 DEF q

LEMMA DoneFacts ==
    ASSUME IInv, Alive, NEW job
    PROVE  /\ Typed(Done(job)) /\ Keeps(w, Done(job), {"out", "jobs"}) /\ Mute(Done(job))
           /\ Done(job).jobs = w.jobs \ {job}
<1> DEFINE d == Done(job)
<1>1. Typed(Quiet) /\ Keeps(w, Quiet, {"out"}) /\ Mute(Quiet)
  BY QuietFacts
<1>2. Keeps(Quiet, d, {"jobs"}) /\ d.jobs = Quiet.jobs \ {job}
  BY <1>1 DEF Done, Keeps, Typed, Fields
<1> HIDE DEF d
<1>3. Typed(d)
  BY <1>1, <1>2 DEF Keeps, Typed, Fields
<1>4. Keeps(w, d, {"out", "jobs"}) /\ d.jobs = w.jobs \ {job} /\ d.out = Quiet.out
  BY <1>1, <1>2 DEF Keeps, Fields
<1>5. Mute(d)
  BY <1>1, <1>4 DEF Mute, Says
<1> QED BY <1>3, <1>4, <1>5 DEF d

\* A step that says nothing of the turn tells its tale if it leaves the
\* publication alone.
Follows(s, e) ==
    /\ s.fact = w.fact
    /\ s.pub = w.pub \/ s.pub \notin {"terminal_snapshot", "terminal_pending_ack"}
    /\ w.pub = "terminal_pending_ack" =>
         s.pub = "terminal_pending_ack" \/ s.phase = "exited" \/ e = "recorded"
    /\ e = "job" \/ w.jobs \subseteq s.jobs

LEMMA MuteTale == ASSUME NEW s, NEW e, Mute(s), Follows(s, e)
                    PROVE  Tale(s, e) /\ ~Says(s, "state")
<1>1. /\ Ordered(s.out) /\ ~Says(s, "turn_outcome") /\ ~Says(s, "turn_failed")
      /\ ~Says(s, "state")
  BY AlikeFacts DEF Mute, Loud
<1>2. Ended(s) => e = "job"
  BY DEF Follows, Ended
<1> QED BY <1>1, <1>2 DEF Tale, Follows

\* A prepared state that the event does not exit from.
LEMMA PreLemma ==
    ASSUME NEW s, NEW g, NEW e, Typed(s), s.threw = FALSE, Good(s), s.phase # "exited",
           TurnStays(w, s), "turn" \in s.jobs => "turn" \in w.jobs,
           Admitted(s) => g, Tale(s, e), ~Says(s, "state")
    PROVE  Pre(s, g, e)
BY DEF Pre, Sound

\* A prepared state that has exited.
LEMMA PreExited ==
    ASSUME NEW s, NEW e, Typed(s), s.threw = FALSE, s.phase = "exited", s.pub # "terminal_pending_ack",
           s.turn = w.turn, s.accepted = w.accepted, s.jobs \subseteq w.jobs, Admitted(w) => granted, Tale(s, e),
           ~Says(s, "state")
    PROVE  Pre(s, granted, e)
BY DEF Pre, Sound, Begun, TurnStays, Admitted

-----------------------------------------------------------------------------
(* The worker's own events *)

LEMMA StartedPre ==
    ASSUME IInv, RuntimeStarted
    PROVE  Alive /\ \E s : Pre(s, granted, "other") /\ Reduce(s)
<1> DEFINE r == [Quiet EXCEPT !.phase = "waiting_for_start"]
           s == Emit(r, Fact("hello"))
<1>1. Alive /\ Reduce(s) /\ w.phase = "init"
  BY DEF RuntimeStarted, Alive
<1>2. /\ Typed(Quiet) /\ Keeps(w, Quiet, {"out"}) /\ Mute(Quiet)
      /\ Sound(w) /\ Good(w) /\ w.phase # "exited" /\ (Admitted(w) => granted)
  BY <1>1, QuietFacts
<1>3. Keeps(Quiet, r, {"phase"}) /\ r.phase = "waiting_for_start"
  BY <1>2 DEF Keeps, Typed, Fields
<1> HIDE DEF r
<1>4. Typed(r)
  BY <1>2, <1>3 DEF Keeps, Typed, Fields, Phases
<1>5. Fact("hello") \in Facts /\ Fact("hello").type \notin Loud
  BY FactTypes DEF FactNames, Loud
<1>6. Typed(s) /\ Keeps(r, s, {"out"}) /\ Alike(r, s)
  BY <1>4, <1>5, EmitFacts
<1> HIDE DEF s
<1>7. Keeps(w, s, {"out", "phase"}) /\ s.phase = "waiting_for_start" /\ r.out = Quiet.out
  BY <1>2, <1>3, <1>6 DEF Keeps, Fields
<1>8. Mute(s)
  BY <1>2, <1>6, <1>7, AlikeFacts
<1>9. Good(s) /\ s.threw = FALSE /\ s.jobs = w.jobs
  BY <1>1, <1>2, <1>7 DEF Keeps, Fields, Good, Early, Sound
<1>10. TurnStays(w, s) /\ (Admitted(s) => Admitted(w)) /\ Follows(s, "other")
  BY <1>7 DEF Keeps, Fields, Begun, TurnStays, Admitted, Follows
<1>11. Pre(s, granted, "other")
  BY <1>2, <1>6, <1>7, <1>8, <1>9, <1>10, PreLemma, MuteTale
<1> QED BY <1>1, <1>11

LEMMA ConnectedPre ==
    ASSUME IInv, TransportConnected
    PROVE  Alive /\ \E s : Pre(s, granted, "other") /\ Reduce(s)
<1> DEFINE g == Emit(Quiet, Fact("hello"))
           b == IF w.kind # "none" THEN Emit(g, Heartbeat(w)) ELSE g
           s == IF w.pub = "terminal_pending_ack" THEN PublishTerminal(b) ELSE b
<1>1. Alive /\ Reduce(s)
  BY DEF TransportConnected, Alive
<1>2. /\ Typed(Quiet) /\ Keeps(w, Quiet, {"out"}) /\ Mute(Quiet)
      /\ Sound(w) /\ Good(w) /\ w.phase # "exited" /\ (Admitted(w) => granted)
  BY <1>1, QuietFacts
<1>3. Fact("hello") \in Facts /\ Fact("hello").type \notin Loud
      /\ Heartbeat(w) \in Facts /\ Heartbeat(w).type \notin Loud
  BY FactTypes DEF FactNames, Loud
<1>4. Typed(g) /\ Keeps(Quiet, g, {"out"}) /\ Alike(Quiet, g)
  BY <1>2, <1>3, EmitFacts
<1> HIDE DEF g
<1>5. /\ Typed(Emit(g, Heartbeat(w))) /\ Keeps(g, Emit(g, Heartbeat(w)), {"out"})
      /\ Alike(g, Emit(g, Heartbeat(w)))
  BY <1>3, <1>4, EmitFacts
<1>6. Typed(b) /\ Keeps(w, b, {"out"}) /\ Mute(b)
  BY <1>2, <1>4, <1>5, AlikeFacts DEF Keeps, Fields
<1> HIDE DEF b
<1>7. CASE w.pub = "terminal_pending_ack"
  <2>1. /\ Typed(s) /\ Keeps(b, s, {"out", "pub", "timers"})
        /\ s.pub = "terminal_pending_ack" /\ s.timers = b.timers \cup {"terminal_ack"}
        /\ \A x \in {"turn_outcome", "turn_failed", "state"} : Says(s, x) <=> b.fact = x
        /\ Ordered(s.out)
    BY <1>6, <1>7, PublishFacts
  <2> HIDE DEF s
  <2>2. Good(s) /\ s.threw = FALSE /\ s.phase # "exited" /\ s.jobs = w.jobs
    BY <1>2, <1>6, <1>7, <2>1 DEF Keeps, Fields, Good, Early, Sound
  <2>3. TurnStays(w, s) /\ (Admitted(s) => Admitted(w))
    BY <1>6, <2>1 DEF Keeps, Fields, Begun, TurnStays, Admitted
  <2>4. s.fact = w.fact /\ b.fact = w.fact /\ ~Ended(s)
    BY <1>6, <2>1, <2>2 DEF Keeps, Fields, Ended
  <2>5. Tale(s, "other") /\ ~Says(s, "state")
    <3>1. ~Says(s, "state")
      BY <1>6, <2>1 DEF Typed
    <3> QED BY <1>7, <2>1, <2>4, <3>1 DEF Tale
  <2>6. Pre(s, granted, "other")
    BY <1>2, <2>1, <2>2, <2>3, <2>5, PreLemma
  <2> QED BY <1>1, <2>6
<1>8. CASE w.pub # "terminal_pending_ack"
  <2>1. s = b
    BY <1>8
  <2>2. Good(b) /\ b.threw = FALSE /\ b.phase # "exited" /\ b.jobs = w.jobs
    BY <1>2, <1>6 DEF Keeps, Fields, Good, Early, Sound
  <2>3. TurnStays(w, b) /\ (Admitted(b) => Admitted(w)) /\ Follows(b, "other")
    BY <1>6 DEF Keeps, Fields, Begun, TurnStays, Admitted, Follows
  <2>4. Pre(b, granted, "other")
    BY <1>2, <1>6, <2>2, <2>3, PreLemma, MuteTale
  <2> QED BY <1>1, <2>1, <2>4
<1> QED BY <1>7, <1>8

LEMMA TransportFailedPre ==
    ASSUME IInv, TransportFailed
    PROVE  Alive /\ \E s : Pre(s, granted, "other") /\ Reduce(s)
<1> DEFINE s == [Quiet EXCEPT !.pub = "none", !.phase = "exited", !.timers = {}]
<1>1. Alive /\ Reduce(s)
  BY DEF TransportFailed, Alive
<1>2. /\ Typed(Quiet) /\ Keeps(w, Quiet, {"out"}) /\ Mute(Quiet)
      /\ Sound(w) /\ Good(w) /\ w.phase # "exited" /\ (Admitted(w) => granted)
  BY <1>1, QuietFacts
<1>3. Keeps(Quiet, s, {"pub", "phase", "timers"}) /\ s.pub = "none" /\ s.phase = "exited" /\ s.timers = {}
  BY <1>2 DEF Keeps, Typed, Fields
<1> HIDE DEF s
<1>4. Typed(s)
  BY <1>2, <1>3 DEF Keeps, Typed, Fields, Phases, Publications
<1>5. s.threw = FALSE /\ s.turn = w.turn /\ s.accepted = w.accepted /\ s.jobs = w.jobs /\ s.fact = w.fact
      /\ s.out = Quiet.out
  BY <1>2, <1>3 DEF Keeps, Fields, Sound
<1>6. Mute(s) /\ Follows(s, "other")
  BY <1>2, <1>3, <1>5 DEF Mute, Says, Follows
<1>7. Pre(s, granted, "other")
  BY <1>2, <1>3, <1>4, <1>5, <1>6, PreExited, MuteTale
<1> QED BY <1>1, <1>7

\* The operation under way is noted, so that its completion is waited for.
LEMMA StopPre ==
    ASSUME IInv, StopRequested
    PROVE  Alive /\ \E s : Pre(s, granted, "other") /\ Reduce(s)
<1> DEFINE o == CASE w.phase = "bootstrapping" -> "bootstrap"
                  [] w.phase = "activating" -> "activation"
                  [] w.phase = "active" /\ w.turn = "executing" -> "turn"
                  [] OTHER -> "none"
           s == [Quiet EXCEPT !.phase = "draining", !.timers = {}, !.cred = "none", !.op = o]
<1>1. Alive /\ Reduce(s) /\ w.phase \notin {"init", "draining", "cleaning"}
  BY DEF StopRequested
<1>2. /\ Typed(Quiet) /\ Keeps(w, Quiet, {"out"}) /\ Mute(Quiet)
      /\ Sound(w) /\ Good(w) /\ w.phase # "exited" /\ (Admitted(w) => granted)
  BY <1>1, QuietFacts
<1>3. /\ o \in {"none", "bootstrap", "activation", "turn"}
      /\ w.phase = "bootstrapping" => o = "bootstrap"
      /\ w.phase = "activating" => o = "activation"
      /\ w.phase = "active" /\ w.turn = "executing" => o = "turn"
  OBVIOUS
<1> HIDE DEF o
<1>4. /\ Keeps(Quiet, s, {"phase", "timers", "cred", "op"})
      /\ s.phase = "draining" /\ s.timers = {} /\ s.cred = "none" /\ s.op = o
  BY <1>2 DEF Keeps, Typed, Fields
<1> HIDE DEF s
<1>5. Typed(s)
  BY <1>2, <1>3, <1>4 DEF Keeps, Typed, Fields, Phases, Credentials
<1>6. Keeps(w, s, {"phase", "timers", "cred", "op", "out"}) /\ s.out = Quiet.out
  BY <1>2, <1>4 DEF Keeps, Fields
<1>7. Good(s) /\ s.threw = FALSE /\ s.jobs = w.jobs
  BY <1>1, <1>2, <1>3, <1>4, <1>6 DEF Keeps, Fields, Good, Early, Sound
<1>8. TurnStays(w, s) /\ (Admitted(s) => Admitted(w)) /\ Follows(s, "other")
  BY <1>2, <1>4, <1>6 DEF Keeps, Fields, Begun, TurnStays, Admitted, Follows
<1>9. Mute(s)
  BY <1>2, <1>6, AlikeFacts
<1>10. Pre(s, granted, "other")
  BY <1>2, <1>4, <1>5, <1>7, <1>8, <1>9, PreLemma, MuteTale
<1> QED BY <1>1, <1>10

LEMMA TaintedPre ==
    ASSUME IInv, SessionTainted
    PROVE  Alive /\ \E s : Pre(s, granted, "other") /\ Reduce(s)
<1> DEFINE s == [Quiet EXCEPT !.tainted = TRUE]
<1>1. Alive /\ Reduce(s)
  BY DEF SessionTainted
<1>2. /\ Typed(Quiet) /\ Keeps(w, Quiet, {"out"}) /\ Mute(Quiet)
      /\ Sound(w) /\ Good(w) /\ w.phase # "exited" /\ (Admitted(w) => granted)
  BY <1>1, QuietFacts
<1>3. Keeps(Quiet, s, {"tainted"}) /\ s.tainted = TRUE
  BY <1>2 DEF Keeps, Typed, Fields
<1> HIDE DEF s
<1>4. Typed(s)
  BY <1>2, <1>3, ZenonT(60) DEF Keeps, Typed, Fields
<1>5. Keeps(w, s, {"tainted", "out"}) /\ s.out = Quiet.out
  BY <1>2, <1>3 DEF Keeps, Fields
<1>6. Good(s) /\ s.threw = FALSE /\ s.jobs = w.jobs /\ s.phase # "exited"
  BY <1>2, <1>5 DEF Keeps, Fields, Good, Early, Sound
<1>7. TurnStays(w, s) /\ (Admitted(s) => Admitted(w)) /\ Follows(s, "other")
  BY <1>2, <1>5 DEF Keeps, Fields, Begun, TurnStays, Admitted, Follows
<1>8. Mute(s)
  BY <1>2, <1>5, AlikeFacts
<1>9. Pre(s, granted, "other")
  BY <1>2, <1>4, <1>6, <1>7, <1>8, PreLemma, MuteTale
<1> QED BY <1>1, <1>9

-----------------------------------------------------------------------------
(* Events that leave the phase of the worker alone *)

\* Completed jobs, samples and snapshots, inputs and credentials are free to change.
LEMMA CalmPre ==
    ASSUME IInv, Alive, NEW s, NEW g, NEW e, Typed(s),
           Keeps(w, s, {"queue", "consumed", "tainted", "cred", "base", "stage", "kind", "timers", "jobs", "out"}),
           s.jobs \subseteq w.jobs \cup {"sample", "snapshot"},
           "terminal_ack" \in w.timers => "terminal_ack" \in s.timers \/ w.pub # "terminal_pending_ack",
           e = "job" \/ w.jobs \subseteq s.jobs, Mute(s) \/ (Tale(s, e) /\ ~Says(s, "state")), granted => g
    PROVE  Pre(s, g, e)
<1>1. Sound(w) /\ Good(w) /\ w.phase # "exited" /\ (Admitted(w) => granted)
  BY QuietFacts
<1>2. Good(s) /\ s.threw = FALSE /\ s.phase # "exited" /\ s.pub = w.pub
  BY <1>1 DEF Keeps, Fields, Good, Early, Sound
<1>3. TurnStays(w, s) /\ (Admitted(s) => Admitted(w)) /\ ("turn" \in s.jobs => "turn" \in w.jobs)
  BY DEF Keeps, Fields, Begun, TurnStays, Admitted
<1>4. Follows(s, e)
  BY DEF Keeps, Fields, Follows
<1> QED BY <1>1, <1>2, <1>3, <1>4, PreLemma, MuteTale

LEMMA InputsPre ==
    ASSUME IInv, NEW S \in SUBSET Inputs, ReceiveInputs(S)
    PROVE  Alive /\ \E s : Pre(s, granted, "other") /\ Reduce(s)
<1> DEFINE n == {i \in S : i > w.consumed}
           s == [Quiet EXCEPT !.queue = @ \cup n]
<1>1. Alive /\ (Reduce(Quiet) \/ Reduce(s))
  BY DEF ReceiveInputs
<1>2. Typed(Quiet) /\ Keeps(w, Quiet, {"out"}) /\ Mute(Quiet)
  BY <1>1, QuietFacts
<1>3. n \subseteq Inputs
  OBVIOUS
<1> HIDE DEF n
<1>4. Keeps(Quiet, s, {"queue"}) /\ s.queue = Quiet.queue \cup n
  BY <1>2 DEF Keeps, Typed, Fields
<1> HIDE DEF s
<1>5. Typed(s)
  BY <1>2, <1>3, <1>4 DEF Keeps, Typed, Fields
<1>6. /\ Keeps(w, s, {"queue", "consumed", "tainted", "cred", "base", "stage", "kind", "timers", "jobs", "out"})
      /\ Keeps(w, Quiet, {"queue", "consumed", "tainted", "cred", "base", "stage", "kind", "timers", "jobs", "out"})
      /\ s.jobs = w.jobs /\ s.timers = w.timers /\ s.out = Quiet.out /\ Quiet.jobs = w.jobs /\ Quiet.timers = w.timers
  BY <1>2, <1>4 DEF Keeps, Fields
<1>7. Mute(s)
  BY <1>2, <1>6, AlikeFacts
<1>8. Pre(s, granted, "other")
  BY <1>1, <1>5, <1>6, <1>7, CalmPre
<1>9. Pre(Quiet, granted, "other")
  BY <1>1, <1>2, <1>6, CalmPre
<1> QED BY <1>1, <1>8, <1>9

LEMMA CredentialPre ==
    ASSUME IInv, NEW ok \in BOOLEAN, ReceiveCredential(ok)
    PROVE  Alive /\ \E s : Pre(s, granted, "other") /\ Reduce(s)
<1> DEFINE a == [Quiet EXCEPT !.cred = "sampling"]
           b == [Quiet EXCEPT !.cred = "off"]
           s == Launch(a, "sample")
<1>1. Alive /\ (Reduce(s) \/ Reduce(b))
  BY DEF ReceiveCredential
<1>2. Typed(Quiet) /\ Keeps(w, Quiet, {"out"}) /\ Mute(Quiet)
  BY <1>1, QuietFacts
<1>3. /\ Keeps(Quiet, a, {"cred"}) /\ a.cred = "sampling"
      /\ Keeps(Quiet, b, {"cred"}) /\ b.cred = "off"
  BY <1>2 DEF Keeps, Typed, Fields
<1> HIDE DEF a, b
<1>4. Typed(a) /\ Typed(b)
  BY <1>2, <1>3 DEF Keeps, Typed, Fields, Credentials
<1>5. Typed(s) /\ Keeps(a, s, {"jobs"}) /\ s.jobs = a.jobs \cup {"sample"}
  BY <1>4, LaunchFacts DEF Jobs
<1> HIDE DEF s
<1>6. /\ Keeps(w, s, {"queue", "consumed", "tainted", "cred", "base", "stage", "kind", "timers", "jobs", "out"})
      /\ Keeps(w, b, {"queue", "consumed", "tainted", "cred", "base", "stage", "kind", "timers", "jobs", "out"})
      /\ s.jobs = w.jobs \cup {"sample"} /\ s.timers = w.timers /\ s.out = Quiet.out
      /\ b.jobs = w.jobs /\ b.timers = w.timers /\ b.out = Quiet.out
  BY <1>2, <1>3, <1>5 DEF Keeps, Fields
<1>7. Mute(s) /\ Mute(b)
  BY <1>2, <1>6, AlikeFacts
<1>8. Pre(s, granted, "other")
  BY <1>1, <1>5, <1>6, <1>7, CalmPre
<1>9. Pre(b, granted, "other")
  BY <1>1, <1>4, <1>6, <1>7, CalmPre
<1> QED BY <1>1, <1>8, <1>9

\* The four results of a sample, and a sample that came too late.
LEMMA SampledPre ==
    ASSUME IInv, (\E changed \in BOOLEAN : CredentialSampled(changed)) \/ CredentialSampleFailed
    PROVE  Alive /\ \E s : Pre(s, granted, "job") /\ Reduce(s)
<1> DEFINE d == Done("sample")
           p == [d EXCEPT !.cred = "pending"]
           u == Emit(p, Fact("credential_update"))
           b == [d EXCEPT !.cred = "idle", !.base = TRUE]
           i == [d EXCEPT !.cred = "idle"]
           x == Arm(b, "credential_poll")
           y == Arm(i, "credential_poll")
<1>1. Alive /\ (Reduce(d) \/ Reduce(u) \/ Reduce(x) \/ Reduce(y))
  <2>1. CASE \E changed \in BOOLEAN : CredentialSampled(changed)
    BY <2>1 DEF CredentialSampled
  <2>2. CASE CredentialSampleFailed
    BY <2>2 DEF CredentialSampleFailed
  <2> QED BY <2>1, <2>2
<1>2. Typed(d) /\ Keeps(w, d, {"out", "jobs"}) /\ Mute(d) /\ d.jobs = w.jobs \ {"sample"}
  BY <1>1, DoneFacts
<1> HIDE DEF d
<1>3. /\ Keeps(d, p, {"cred"}) /\ p.cred = "pending"
      /\ Keeps(d, b, {"cred", "base"}) /\ b.cred = "idle" /\ b.base = TRUE
      /\ Keeps(d, i, {"cred"}) /\ i.cred = "idle"
  BY <1>2 DEF Keeps, Typed, Fields
<1> HIDE DEF p, b, i
<1>4. Typed(p) /\ Typed(b) /\ Typed(i)
  <2>1. Typed(p)
    BY <1>2, <1>3 DEF Keeps, Typed, Fields, Credentials
  <2>2. Typed(b)
    <3>1. Typed(d) /\ Keeps(d, b, {"cred", "base"}) /\ b.cred = "idle" /\ b.base = TRUE
      BY <1>2, <1>3
    <3>2. b.cred \in Credentials /\ b.base \in BOOLEAN
      BY <3>1 DEF Credentials
    <3> QED BY <3>1, <3>2 DEF Keeps, Typed, Fields
  <2>3. Typed(i)
    BY <1>2, <1>3 DEF Keeps, Typed, Fields, Credentials
  <2> QED BY <2>1, <2>2, <2>3
<1>5. Fact("credential_update") \in Facts /\ Fact("credential_update").type \notin Loud
  BY FactTypes DEF FactNames, Loud
<1>6. Typed(u) /\ Keeps(p, u, {"out"}) /\ Alike(p, u)
  BY <1>4, <1>5, EmitFacts
<1>7. /\ Typed(x) /\ Keeps(b, x, {"timers"}) /\ x.timers = b.timers \cup {"credential_poll"}
      /\ Typed(y) /\ Keeps(i, y, {"timers"}) /\ y.timers = i.timers \cup {"credential_poll"}
  BY <1>4, ArmFacts DEF Timers
<1> HIDE DEF u, x, y
<1> DEFINE F == {"queue", "consumed", "tainted", "cred", "base", "stage", "kind", "timers", "jobs", "out"}
<1>8. /\ Keeps(w, d, F) /\ Keeps(w, u, F) /\ Keeps(w, x, F) /\ Keeps(w, y, F)
      /\ d.jobs \subseteq w.jobs /\ u.jobs \subseteq w.jobs /\ x.jobs \subseteq w.jobs /\ y.jobs \subseteq w.jobs
      /\ d.timers = w.timers /\ u.timers = w.timers /\ w.timers \subseteq x.timers /\ w.timers \subseteq y.timers
      /\ p.out = d.out /\ x.out = d.out /\ y.out = d.out
  BY <1>2, <1>3, <1>6, <1>7 DEF Keeps, Fields
<1>9. Mute(u) /\ Mute(x) /\ Mute(y)
  BY <1>2, <1>6, <1>8, AlikeFacts
<1>10. Pre(d, granted, "job")
  BY <1>1, <1>2, <1>8, CalmPre
<1>11. Pre(u, granted, "job")
  BY <1>1, <1>6, <1>8, <1>9, CalmPre
<1>12. Pre(x, granted, "job")
  BY <1>1, <1>7, <1>8, <1>9, CalmPre
<1>13. Pre(y, granted, "job")
  BY <1>1, <1>7, <1>8, <1>9, CalmPre
<1> QED BY <1>1, <1>10, <1>11, <1>12, <1>13

LEMMA TimerPre ==
    ASSUME IInv, NEW t \in Timers, TimerFired(t)
    PROVE  Alive /\ \E s : Pre(s, granted, "other") /\ Reduce(s)
<1> DEFINE s == [Quiet EXCEPT !.timers = @ \ {t}]
           h == Emit(s, Heartbeat(w))
           k == Emit(s, Fact("turn_started"))
           c == [s EXCEPT !.cred = "sampling"]
           late == t = "terminal_ack" /\ w.pub = "terminal_pending_ack"
<1>1. /\ Alive
      /\ \/ Reduce(Arm(h, t))
         \/ Reduce(Arm(k, t))
         \/ late /\ Reduce(PublishTerminal(s))
         \/ ~late /\ Reduce(Launch(c, "sample"))
         \/ ~late /\ Reduce(s)
  <2> DEFINE a1 == t = "heartbeat" /\ w.kind # "none"
             a2 == t = "acceptance_retry" /\ w.phase = "waiting_for_acceptance"
             a3 == t = "credential_poll" /\ w.cred = "idle"
             x == CASE a1 -> Arm(h, t) [] a2 -> Arm(k, t) [] late -> PublishTerminal(s)
                    [] a3 -> Launch(c, "sample") [] OTHER -> s
  <2>1. Alive /\ Reduce(x)
    BY DEF TimerFired
  <2>2. \/ x = Arm(h, t)
        \/ x = Arm(k, t)
        \/ late /\ x = PublishTerminal(s)
        \/ ~late /\ x = Launch(c, "sample")
        \/ ~late /\ x = s
    <3>1. a3 => ~late
      OBVIOUS
    <3> HIDE DEF a1, a2, a3, late, h, k, c, s
    <3> QED BY <3>1
  <2> HIDE DEF x
  <2> QED BY <2>1, <2>2
<1>2. /\ Typed(Quiet) /\ Keeps(w, Quiet, {"out"}) /\ Mute(Quiet)
      /\ Sound(w) /\ Good(w) /\ w.phase # "exited" /\ (Admitted(w) => granted)
  BY <1>1, QuietFacts
<1>3. Keeps(Quiet, s, {"timers"}) /\ s.timers = Quiet.timers \ {t}
  BY <1>2 DEF Keeps, Typed, Fields
<1> HIDE DEF s
<1>4. Typed(s)
  BY <1>2, <1>3 DEF Keeps, Typed, Fields
<1>5. Keeps(w, s, {"timers", "out"}) /\ s.timers = w.timers \ {t} /\ s.out = Quiet.out
  BY <1>2, <1>3 DEF Keeps, Fields
<1>6. Mute(s)
  BY <1>2, <1>5, AlikeFacts
<1>7. /\ Heartbeat(w) \in Facts /\ Heartbeat(w).type \notin Loud
      /\ Fact("turn_started") \in Facts /\ Fact("turn_started").type \notin Loud
  BY FactTypes DEF FactNames, Loud
<1>8. /\ Typed(h) /\ Keeps(s, h, {"out"}) /\ Alike(s, h)
      /\ Typed(k) /\ Keeps(s, k, {"out"}) /\ Alike(s, k)
  BY <1>4, <1>7, EmitFacts
<1>9. Keeps(s, c, {"cred"}) /\ c.cred = "sampling"
  BY <1>4 DEF Keeps, Typed, Fields
<1> HIDE DEF h, k, c
<1>10. Typed(c)
  BY <1>4, <1>9 DEF Keeps, Typed, Fields, Credentials
<1> DEFINE F == {"queue", "consumed", "tainted", "cred", "base", "stage", "kind", "timers", "jobs", "out"}
           x == Arm(h, t)
           y == Arm(k, t)
           z == Launch(c, "sample")
           p == PublishTerminal(s)
<1>11. /\ Typed(x) /\ Keeps(h, x, {"timers"}) /\ x.timers = h.timers \cup {t}
       /\ Typed(y) /\ Keeps(k, y, {"timers"}) /\ y.timers = k.timers \cup {t}
  BY <1>8, ArmFacts
<1>12. Typed(z) /\ Keeps(c, z, {"jobs"}) /\ z.jobs = c.jobs \cup {"sample"}
  BY <1>10, LaunchFacts DEF Jobs
<1>13. /\ Typed(p) /\ Keeps(s, p, {"out", "pub", "timers"})
       /\ p.pub = "terminal_pending_ack" /\ p.timers = s.timers \cup {"terminal_ack"}
       /\ \A a \in {"turn_outcome", "turn_failed", "state"} : Says(p, a) <=> s.fact = a
       /\ Ordered(p.out)
  BY <1>4, <1>6, PublishFacts
<1> HIDE DEF x, y, z, p
<1>14. CASE Reduce(x)
  <2>1. Keeps(w, x, F) /\ x.jobs = w.jobs /\ w.timers \subseteq x.timers /\ x.out = h.out
    BY <1>5, <1>8, <1>11 DEF Keeps, Fields
  <2>2. Mute(x)
    BY <1>6, <1>8, <2>1, AlikeFacts
  <2>3. Pre(x, granted, "other")
    BY <1>1, <1>11, <2>1, <2>2, CalmPre
  <2> QED BY <1>1, <1>14, <2>3
<1>15. CASE Reduce(y)
  <2>1. Keeps(w, y, F) /\ y.jobs = w.jobs /\ w.timers \subseteq y.timers /\ y.out = k.out
    BY <1>5, <1>8, <1>11 DEF Keeps, Fields
  <2>2. Mute(y)
    BY <1>6, <1>8, <2>1, AlikeFacts
  <2>3. Pre(y, granted, "other")
    BY <1>1, <1>11, <2>1, <2>2, CalmPre
  <2> QED BY <1>1, <1>15, <2>3
<1>16. CASE late /\ Reduce(p)
  <2>1. Keeps(w, p, F) /\ p.jobs = w.jobs /\ w.timers \subseteq p.timers
        /\ p.fact = w.fact /\ s.fact = w.fact
    BY <1>5, <1>13, <1>16 DEF Keeps, Fields
  <2>2. Tale(p, "other") /\ ~Says(p, "state")
    <3>1. ~Says(p, "state")
      BY <1>4, <1>13 DEF Typed
    <3> QED BY <1>13, <1>16, <2>1, <3>1 DEF Tale, Ended
  <2>3. Pre(p, granted, "other")
    BY <1>1, <1>13, <1>16, <2>1, <2>2, CalmPre
  <2> QED BY <1>1, <1>16, <2>3
<1>17. CASE ~late /\ Reduce(z)
  <2>1. Keeps(w, z, F) /\ z.jobs = w.jobs \cup {"sample"} /\ z.out = s.out /\ z.timers = w.timers \ {t}
    BY <1>5, <1>9, <1>12 DEF Keeps, Fields
  <2>2. Mute(z)
    BY <1>6, <2>1, AlikeFacts
  <2>3. Pre(z, granted, "other")
    BY <1>1, <1>12, <1>17, <2>1, <2>2, CalmPre
  <2> QED BY <1>1, <1>17, <2>3
<1>18. CASE ~late /\ Reduce(s)
  <2>1. Keeps(w, s, F) /\ s.jobs = w.jobs
    BY <1>5 DEF Keeps, Fields
  <2>2. Pre(s, granted, "other")
    BY <1>1, <1>4, <1>5, <1>6, <1>18, <2>1, CalmPre
  <2> QED BY <1>1, <1>18, <2>2
<1> QED BY <1>1, <1>14, <1>15, <1>16, <1>17, <1>18 DEF x, y, z, p

-----------------------------------------------------------------------------
(* Messages of the server that move the worker on *)

LEMMA StartPre ==
    ASSUME IInv, ReceiveStart
    PROVE  Alive /\ \E s : Pre(s, granted, "other") /\ Reduce(s)
<1> DEFINE r == [Quiet EXCEPT !.phase = "bootstrapping", !.tainted = FALSE]
           s == Launch(r, "bootstrap")
<1>1. Alive /\ Reduce(s) /\ w.phase = "waiting_for_start"
  BY DEF ReceiveStart, Alive
<1>2. /\ Typed(Quiet) /\ Keeps(w, Quiet, {"out"}) /\ Mute(Quiet)
      /\ Sound(w) /\ Good(w) /\ (Admitted(w) => granted)
  BY <1>1, QuietFacts
<1>3. Keeps(Quiet, r, {"phase", "tainted"}) /\ r.phase = "bootstrapping" /\ r.tainted = FALSE
  BY <1>2 DEF Keeps, Typed, Fields
<1> HIDE DEF r
<1>4. Typed(r)
  BY <1>2, <1>3, ZenonT(60) DEF Keeps, Typed, Fields, Phases
<1>5. Typed(s) /\ Keeps(r, s, {"jobs"}) /\ s.jobs = r.jobs \cup {"bootstrap"}
  BY <1>4, LaunchFacts DEF Jobs
<1> HIDE DEF s
<1>6. /\ Keeps(w, s, {"phase", "tainted", "jobs", "out"}) /\ s.phase = "bootstrapping"
      /\ s.jobs = w.jobs \cup {"bootstrap"} /\ s.out = Quiet.out
  BY <1>2, <1>3, <1>5 DEF Keeps, Fields
<1>7. Good(s) /\ s.threw = FALSE
  BY <1>1, <1>2, <1>6 DEF Keeps, Fields, Good, Early, Sound
<1>8. TurnStays(w, s) /\ (Admitted(s) => Admitted(w)) /\ Mute(s) /\ Follows(s, "other")
  BY <1>2, <1>6 DEF Keeps, Fields, Begun, TurnStays, Admitted, Mute, Says, Follows
<1>9. Pre(s, granted, "other")
  BY <1>2, <1>5, <1>6, <1>7, <1>8, PreLemma, MuteTale
<1> QED BY <1>1, <1>9

LEMMA AcceptedPre ==
    ASSUME IInv, ReceiveAccepted
    PROVE  Alive /\ \E s : Pre(s, TRUE, "other") /\ Reduce(s)
<1> DEFINE a == [Quiet EXCEPT !.accepted = TRUE]
           b == BeginActivation(Quiet)
<1>1. Alive /\ w.phase \notin {"init", "waiting_for_start", "bootstrapping"}
  BY DEF ReceiveAccepted, Alive
<1>2. \/ w.phase = "readying" /\ Reduce(a)
      \/ w.phase = "waiting_for_acceptance" /\ Reduce(b)
      \/ Reduce(Quiet)
  <2> DEFINE x == CASE w.phase = "readying" -> a
                    [] w.phase = "waiting_for_acceptance" -> b [] OTHER -> Quiet
  <2>1. Reduce(x)
    BY DEF ReceiveAccepted
  <2>2. (w.phase = "readying" /\ x = a) \/ (w.phase = "waiting_for_acceptance" /\ x = b) \/ x = Quiet
    <3> HIDE DEF a, b
    <3> QED OBVIOUS
  <2> HIDE DEF x
  <2> QED BY <2>1, <2>2
<1>3. /\ Typed(Quiet) /\ Keeps(w, Quiet, {"out"}) /\ Mute(Quiet)
      /\ Sound(w) /\ Good(w) /\ w.phase # "exited" /\ (Admitted(w) => granted)
  BY <1>1, QuietFacts
<1>4. Keeps(Quiet, a, {"accepted"}) /\ a.accepted = TRUE
  BY <1>3 DEF Keeps, Typed, Fields
<1>5. /\ Typed(b) /\ Keeps(Quiet, b, {"phase", "timers", "jobs"})
      /\ b.phase = "activating" /\ b.timers = Quiet.timers \ {"acceptance_retry"}
      /\ b.jobs = Quiet.jobs \cup {"activate"}
  BY <1>3, ActivationFacts
<1> HIDE DEF a, b
<1>6. CASE w.phase = "readying" /\ Reduce(a)
  <2>1. Typed(a)
    BY <1>3, <1>4, ZenonT(60) DEF Keeps, Typed, Fields
  <2>2. Keeps(w, a, {"accepted", "out"}) /\ a.out = Quiet.out
    BY <1>3, <1>4 DEF Keeps, Fields
  <2>3. Good(a) /\ a.threw = FALSE /\ a.phase # "exited" /\ a.jobs = w.jobs
    BY <1>3, <2>2 DEF Keeps, Fields, Good, Early, Sound
  <2>4. TurnStays(w, a) /\ Mute(a) /\ Follows(a, "other")
    BY <1>3, <2>2 DEF Keeps, Fields, Begun, TurnStays, Mute, Says, Follows
  <2>5. Pre(a, TRUE, "other")
    BY <2>1, <2>3, <2>4, PreLemma, MuteTale
  <2> QED BY <1>1, <1>6, <2>5
<1>7. CASE w.phase = "waiting_for_acceptance" /\ Reduce(b)
  <2>1. /\ Keeps(w, b, {"phase", "timers", "jobs", "out"}) /\ b.phase = "activating"
        /\ b.jobs = w.jobs \cup {"activate"} /\ b.out = Quiet.out
    BY <1>3, <1>5 DEF Keeps, Fields
  <2>2. Good(b) /\ b.threw = FALSE
    BY <1>3, <1>7, <2>1 DEF Keeps, Fields, Good, Early, Sound
  <2>3. TurnStays(w, b) /\ Mute(b) /\ Follows(b, "other")
    BY <1>3, <2>1 DEF Keeps, Fields, Begun, TurnStays, Mute, Says, Follows
  <2>4. Pre(b, TRUE, "other")
    BY <1>5, <2>1, <2>2, <2>3, PreLemma, MuteTale
  <2> QED BY <1>1, <1>7, <2>4
<1>8. CASE Reduce(Quiet)
  <2>1. /\ Keeps(w, Quiet, {"queue", "consumed", "tainted", "cred", "base", "stage", "kind", "timers", "jobs", "out"})
        /\ Quiet.jobs = w.jobs /\ Quiet.timers = w.timers
    BY <1>3 DEF Keeps, Fields
  <2>2. Pre(Quiet, TRUE, "other")
    BY <1>1, <1>3, <2>1, CalmPre
  <2> QED BY <1>1, <1>8, <2>2
<1> QED BY <1>2, <1>6, <1>7, <1>8

LEMMA RecordedPre ==
    ASSUME IInv, ReceiveRecorded
    PROVE  Alive /\ \E s : Pre(s, granted, "recorded") /\ Reduce(s)
<1> DEFINE s == [Quiet EXCEPT !.pub = "none", !.timers = @ \ {"terminal_ack"}]
<1>1. Alive /\ Reduce(s) /\ w.pub = "terminal_pending_ack"
  BY DEF ReceiveRecorded, Alive, IInv, Sound
<1>2. /\ Typed(Quiet) /\ Keeps(w, Quiet, {"out"}) /\ Mute(Quiet)
      /\ Sound(w) /\ Good(w) /\ w.phase # "exited" /\ (Admitted(w) => granted)
  BY <1>1, QuietFacts
<1>3. Keeps(Quiet, s, {"pub", "timers"}) /\ s.pub = "none" /\ s.timers = Quiet.timers \ {"terminal_ack"}
  BY <1>2 DEF Keeps, Typed, Fields
<1> HIDE DEF s
<1>4. Typed(s)
  BY <1>2, <1>3 DEF Keeps, Typed, Fields, Publications
<1>5. Keeps(w, s, {"pub", "timers", "out"}) /\ s.out = Quiet.out
  BY <1>2, <1>3 DEF Keeps, Fields
<1>6. Good(s) /\ s.threw = FALSE /\ s.phase # "exited" /\ s.jobs = w.jobs
  BY <1>1, <1>2, <1>3, <1>5 DEF Keeps, Fields, Good, Early, Sound
<1>7. TurnStays(w, s) /\ (Admitted(s) => Admitted(w)) /\ Follows(s, "recorded")
  BY <1>3, <1>5 DEF Keeps, Fields, Begun, TurnStays, Admitted, Follows
<1>8. Mute(s)
  BY <1>2, <1>5, AlikeFacts
<1>9. Pre(s, granted, "recorded")
  BY <1>2, <1>4, <1>6, <1>7, <1>8, PreLemma, MuteTale
<1> QED BY <1>1, <1>9

-----------------------------------------------------------------------------
(* Completions *)

LEMMA BootstrappedPre ==
    ASSUME IInv, NEW kind \in Kinds, NEW resumed \in BOOLEAN, NEW refresh \in BOOLEAN,
           BootstrapSucceeded(kind, resumed, refresh)
    PROVE  Alive /\ \E s : Pre(s, granted \/ resumed, "job") /\ Reduce(s)
<1> DEFINE d == Done("bootstrap")
           N == {i \in 1..payload : i > w.consumed}
           prepared == [d EXCEPT !.kind = kind, !.queue = @ \cup N]
           ready == Emit(prepared, Fact("ready"))
           drained == [ready EXCEPT !.op = "none"]
           readying == [ready EXCEPT !.phase = "readying", !.accepted = resumed]
           snapped == IF Uploads(readying, "after_worker_ready")
                      THEN BeginSnapshot(readying, "ready_snapshot") ELSE readying
           beating == Arm(snapped, "heartbeat")
           c == [beating EXCEPT !.cred = "sampling"]
           sampling == Launch(c, "sample")
<1>1. /\ Alive /\ "bootstrap" \in w.jobs
      /\ \/ w.phase = "draining" /\ Reduce(drained)
         \/ w.phase # "draining" /\ (Reduce(beating) \/ Reduce(sampling))
  BY DEF BootstrapSucceeded
<1>2. Sound(w) /\ Good(w) /\ w.phase # "exited" /\ (Admitted(w) => granted)
  BY <1>1, QuietFacts
<1>3. Typed(d) /\ Keeps(w, d, {"out", "jobs"}) /\ Mute(d) /\ d.jobs = w.jobs \ {"bootstrap"}
  BY <1>1, DoneFacts
<1>4. N \subseteq Inputs
  <2>1. payload \in 0..MaxInput /\ MaxInput \in Nat
    BY MaxInputAssumption DEF IInv, Env
  <2> QED BY <2>1 DEF Inputs
<1> HIDE DEF d, N
<1>5. Keeps(d, prepared, {"kind", "queue"}) /\ prepared.kind = kind /\ prepared.queue = d.queue \cup N
  BY <1>3 DEF Keeps, Typed, Fields
<1> HIDE DEF prepared
<1>6. Typed(prepared)
  <2>1. kind \in {"none", "llm", "automatic"}
    BY KindsAssumption
  <2> QED BY <1>3, <1>4, <1>5, <2>1 DEF Keeps, Typed, Fields
<1>7. Fact("ready") \in Facts /\ Fact("ready").type \notin Loud
  BY FactTypes DEF FactNames, Loud
<1>8. Typed(ready) /\ Keeps(prepared, ready, {"out"}) /\ Alike(prepared, ready)
  BY <1>6, <1>7, EmitFacts
<1> HIDE DEF ready
<1>9. /\ Keeps(w, ready, {"out", "jobs", "kind", "queue"}) /\ ready.jobs = w.jobs \ {"bootstrap"}
      /\ prepared.out = d.out
  BY <1>3, <1>5, <1>8 DEF Keeps, Fields
<1>10. Mute(ready)
  BY <1>3, <1>8, <1>9, AlikeFacts
<1>11. CASE w.phase = "draining" /\ Reduce(drained)
  <2>1. Keeps(ready, drained, {"op"}) /\ drained.op = "none"
    BY <1>8 DEF Keeps, Typed, Fields
  <2> HIDE DEF drained
  <2>2. Typed(drained)
    BY <1>8, <2>1 DEF Keeps, Typed, Fields
  <2>3. /\ Keeps(w, drained, {"out", "jobs", "kind", "queue", "op"}) /\ drained.jobs = w.jobs \ {"bootstrap"}
        /\ drained.out = ready.out
    BY <1>9, <2>1 DEF Keeps, Fields
  <2>4. w.op = "bootstrap"
    BY <1>1, <1>2, <1>11 DEF Good
  <2>5. Good(drained) /\ drained.threw = FALSE /\ drained.phase # "exited"
    BY <1>2, <1>11, <2>3, <2>4 DEF Keeps, Fields, Good, Early, Sound
  <2>6. TurnStays(w, drained) /\ (Admitted(drained) => Admitted(w)) /\ Mute(drained) /\ Follows(drained, "job")
    BY <1>10, <2>3 DEF Keeps, Fields, Begun, TurnStays, Admitted, Mute, Says, Follows
  <2>7. Pre(drained, granted \/ resumed, "job")
    BY <1>2, <2>2, <2>3, <2>5, <2>6, PreLemma, MuteTale
  <2> QED BY <1>1, <1>11, <2>7
<1>12. CASE w.phase # "draining" /\ (Reduce(beating) \/ Reduce(sampling))
  <2>1. w.phase = "bootstrapping" /\ w.pub = "none"
    BY <1>1, <1>2, <1>12 DEF Good
  <2>2. Keeps(ready, readying, {"phase", "accepted"}) /\ readying.phase = "readying" /\ readying.accepted = resumed
    BY <1>8 DEF Keeps, Typed, Fields
  <2> HIDE DEF readying
  <2>3. Typed(readying) /\ readying.pub = "none"
    BY <1>8, <1>9, <2>1, <2>2 DEF Keeps, Typed, Fields, Phases
  <2>4. /\ Typed(snapped) /\ Keeps(readying, snapped, {"pub", "jobs"})
        /\ snapped.pub \in {"none", "ready_snapshot"} /\ snapped.jobs \subseteq readying.jobs \cup {"snapshot"}
    <3> DEFINE b == BeginSnapshot(readying, "ready_snapshot")
    <3>1. Typed(b) /\ Keeps(readying, b, {"pub", "jobs"}) /\ b.pub = "ready_snapshot"
          /\ b.jobs = readying.jobs \cup {"snapshot"}
      BY <2>3, SnapshotFacts DEF Publications
    <3>2. Keeps(readying, readying, {"pub", "jobs"})
      BY <2>3 DEF Keeps, Typed
    <3> HIDE DEF b
    <3>3. snapped = b \/ snapped = readying
      BY DEF b
    <3> HIDE DEF snapped
    <3> QED BY <2>3, <3>1, <3>2, <3>3
  <2> HIDE DEF snapped
  <2>5. Typed(beating) /\ Keeps(snapped, beating, {"timers"}) /\ beating.timers = snapped.timers \cup {"heartbeat"}
    BY <2>4, ArmFacts DEF Timers
  <2> HIDE DEF beating
  <2>6. Keeps(beating, c, {"cred"}) /\ c.cred = "sampling"
    BY <2>5 DEF Keeps, Typed, Fields
  <2> HIDE DEF c
  <2>7. Typed(c)
    BY <2>5, <2>6 DEF Keeps, Typed, Fields, Credentials
  <2>8. Typed(sampling) /\ Keeps(c, sampling, {"jobs"}) /\ sampling.jobs = c.jobs \cup {"sample"}
    BY <2>7, LaunchFacts DEF Jobs
  <2> HIDE DEF sampling
  <2> DEFINE F == {"out", "jobs", "kind", "queue", "phase", "accepted", "pub", "timers", "cred"}
  <2>9. ASSUME NEW s \in {beating, sampling} PROVE Pre(s, granted \/ resumed, "job")
    <3>1. Typed(s)
      BY <2>5, <2>8
    <3>2. /\ Keeps(w, beating, F) /\ beating.phase = "readying" /\ beating.accepted = resumed
          /\ beating.pub \in {"none", "ready_snapshot"} /\ beating.out = ready.out
          /\ beating.jobs \subseteq (w.jobs \ {"bootstrap"}) \cup {"snapshot"}
      BY <1>9, <2>2, <2>4, <2>5 DEF Keeps, Fields
    <3>3. /\ Keeps(w, sampling, F) /\ sampling.phase = "readying" /\ sampling.accepted = resumed
          /\ sampling.pub \in {"none", "ready_snapshot"} /\ sampling.out = ready.out
          /\ sampling.jobs \subseteq (w.jobs \ {"bootstrap"}) \cup {"snapshot", "sample"}
      BY <2>6, <2>8, <3>2 DEF Keeps, Fields
    <3>4. /\ Keeps(w, s, F) /\ s.phase = "readying" /\ s.accepted = resumed
          /\ s.pub \in {"none", "ready_snapshot"} /\ s.out = ready.out
          /\ s.jobs \subseteq (w.jobs \ {"bootstrap"}) \cup {"snapshot", "sample"}
      BY <3>2, <3>3
    <3>5. Good(s) /\ s.threw = FALSE
      BY <1>2, <2>1, <3>4 DEF Keeps, Fields, Good, Early, Sound
    <3>6. TurnStays(w, s) /\ ("turn" \in s.jobs => "turn" \in w.jobs)
      BY <3>4 DEF Keeps, Fields, Begun, TurnStays
    <3>8. Mute(s)
      BY <1>10, <3>4, AlikeFacts
    <3>9. Follows(s, "job")
      BY <2>1, <3>4 DEF Keeps, Fields, Follows
    <3>7. Admitted(s) => granted \/ resumed
      <4>1. s.turn = w.turn
        BY <3>4 DEF Keeps, Fields
      <4>2. w.turn # "none" => granted
        BY <1>2 DEF Admitted
      <4> QED BY <3>4, <4>1, <4>2 DEF Admitted
    <3> QED BY <3>1, <3>4, <3>5, <3>6, <3>7, <3>8, <3>9, PreLemma, MuteTale
  <2> QED BY <1>1, <1>12, <2>9
<1> QED BY <1>1, <1>11, <1>12

LEMMA BootstrapFailedPre ==
    ASSUME IInv, BootstrapFailed
    PROVE  Alive /\ \E s : Pre(s, granted, "job") /\ Reduce(s)
<1> DEFINE d == Done("bootstrap")
           drained == [d EXCEPT !.op = "none"]
           s == WorkerFailed(d, TRUE)
<1>1. /\ Alive /\ "bootstrap" \in w.jobs
      /\ \/ w.phase = "draining" /\ Reduce(drained)
         \/ w.phase # "draining" /\ Reduce(s)
  BY DEF BootstrapFailed
<1>2. Sound(w) /\ Good(w) /\ w.phase # "exited" /\ (Admitted(w) => granted)
  BY <1>1, QuietFacts
<1>3. Typed(d) /\ Keeps(w, d, {"out", "jobs"}) /\ Mute(d) /\ d.jobs = w.jobs \ {"bootstrap"}
  BY <1>1, DoneFacts
<1> HIDE DEF d
<1>4. CASE w.phase = "draining" /\ Reduce(drained)
  <2>1. Keeps(d, drained, {"op"}) /\ drained.op = "none"
    BY <1>3 DEF Keeps, Typed, Fields
  <2> HIDE DEF drained
  <2>2. Typed(drained)
    BY <1>3, <2>1 DEF Keeps, Typed, Fields
  <2>3. /\ Keeps(w, drained, {"out", "jobs", "op"}) /\ drained.jobs = w.jobs \ {"bootstrap"}
        /\ drained.out = d.out
    BY <1>3, <2>1 DEF Keeps, Fields
  <2>4. w.op = "bootstrap"
    BY <1>1, <1>2, <1>4 DEF Good
  <2>5. Good(drained) /\ drained.threw = FALSE /\ drained.phase # "exited"
    BY <1>2, <1>4, <2>3, <2>4 DEF Keeps, Fields, Good, Early, Sound
  <2>6. TurnStays(w, drained) /\ (Admitted(drained) => Admitted(w)) /\ Mute(drained) /\ Follows(drained, "job")
    BY <1>3, <2>3 DEF Keeps, Fields, Begun, TurnStays, Admitted, Mute, Says, Follows
  <2>7. Pre(drained, granted, "job")
    BY <1>2, <2>2, <2>3, <2>5, <2>6, PreLemma, MuteTale
  <2> QED BY <1>1, <1>4, <2>7
<1>5. CASE w.phase # "draining" /\ Reduce(s)
  <2>1. w.phase = "bootstrapping" /\ w.pub = "none"
    BY <1>1, <1>2, <1>5 DEF Good
  <2>2. /\ Typed(s) /\ Keeps(d, s, {"out", "pub", "phase", "timers", "jobs", "after"}) /\ Alike(d, s)
        /\ \/ s.phase = "exited" /\ s.pub = "none" /\ s.jobs = d.jobs
           \/ /\ d.pub = "none" /\ s.pub = "fatal_snapshot" /\ s.jobs = d.jobs \cup {"snapshot"}
              /\ s.phase = d.phase /\ s.timers = d.timers
              /\ s.after = "cleanup" => d.phase = "cleaning"
    BY <1>3, FailedFacts
  <2> HIDE DEF s
  <2>5. Mute(s) /\ s.fact = w.fact
    <3>1. Mute(s)
      BY <1>3, <2>2, AlikeFacts
    <3> QED BY <1>3, <2>2, <3>1 DEF Keeps, Fields
  <2>3. CASE s.phase = "exited" /\ s.pub = "none" /\ s.jobs = d.jobs
    <3>1. s.threw = FALSE /\ s.turn = w.turn /\ s.accepted = w.accepted
      BY <1>2, <1>3, <2>2 DEF Keeps, Fields, Sound
    <3>2. s.jobs \subseteq w.jobs /\ Follows(s, "job")
      BY <1>3, <2>1, <2>3, <2>5 DEF Follows
    <3>3. Pre(s, granted, "job")
      BY <1>2, <2>2, <2>3, <2>5, <3>1, <3>2, PreExited, MuteTale
    <3> QED BY <1>1, <1>5, <3>3
  <2>4. CASE /\ d.pub = "none" /\ s.pub = "fatal_snapshot" /\ s.jobs = d.jobs \cup {"snapshot"}
             /\ s.phase = d.phase /\ s.timers = d.timers
             /\ s.after = "cleanup" => d.phase = "cleaning"
    <3>1. /\ Keeps(w, s, {"out", "pub", "jobs", "after", "timers"}) /\ s.jobs = (w.jobs \ {"bootstrap"}) \cup {"snapshot"}
          /\ s.after = "cleanup" => w.phase = "cleaning"
      BY <1>3, <2>2, <2>4 DEF Keeps, Fields
    <3>2. Good(s) /\ s.threw = FALSE /\ s.phase # "exited"
      BY <1>2, <2>1, <2>4, <3>1 DEF Keeps, Fields, Good, Early, Sound
    <3>3. TurnStays(w, s) /\ (Admitted(s) => Admitted(w)) /\ ("turn" \in s.jobs => "turn" \in w.jobs)
      BY <3>1 DEF Keeps, Fields, Begun, TurnStays, Admitted
    <3>4. Follows(s, "job")
      BY <2>1, <2>4, <2>5 DEF Follows
    <3>5. Pre(s, granted, "job")
      BY <1>2, <2>2, <2>5, <3>2, <3>3, <3>4, PreLemma, MuteTale
    <3> QED BY <1>1, <1>5, <3>5
  <2> QED BY <2>2, <2>3, <2>4
<1> QED BY <1>1, <1>4, <1>5

\* What a prepared state says of the turn is still true after a step that
\* reports no end of it.
LEMMA CarryTale ==
    ASSUME NEW d, NEW t, NEW e, Tale(d, e), t.fact = d.fact, "turn" \in t.jobs <=> "turn" \in d.jobs,
           d.phase = "exited" => t.phase = "exited",
           \/ t.pub = d.pub
           \/ /\ t.pub \notin {"terminal_snapshot", "terminal_pending_ack"}
              /\ d.pub # "terminal_pending_ack" \/ t.phase = "exited",
           \/ Mute(t)
           \/ /\ ~Says(t, "turn_outcome") /\ ~Says(t, "turn_failed") /\ ~Says(t, "state")
              /\ e = "job" /\ Says(t, "parked")
    PROVE  Tale(t, e) /\ ~Says(t, "state")
<1>1. /\ ~Says(t, "turn_outcome") /\ ~Says(t, "turn_failed") /\ ~Says(t, "state")
      /\ Ordered(t.out) \/ (e = "job" /\ Says(t, "parked"))
  BY AlikeFacts DEF Mute, Loud
<1>2. Ended(t) <=> Ended(d)
  BY DEF Ended
<1> QED BY <1>1, <1>2 DEF Tale

\* A worker that goes on after a failure changes nothing, and one that exits is prepared.
LEMMA DispatchPre ==
    ASSUME NEW d, NEW g, Pre(d, g, "job"), d.phase # "exited", Mute(d)
    PROVE  Pre(DispatchFailed(d), g, "job")
<1> DEFINE t == DispatchFailed(d)
<1>1. Typed(d) /\ d.threw = FALSE /\ Good(d)
  BY DEF Pre, Sound
<1>2. /\ Typed(t) /\ Keeps(d, t, {"out", "pub", "phase", "timers", "jobs", "after"})
      /\ \A x \in {"turn_outcome", "turn_failed", "state"} : Says(t, x) <=> Says(d, x)
      /\ Alike(d, t) \/ Says(t, "parked")
      /\ Keeps(d, t, {"out"}) \/ (t.phase = "exited" /\ t.pub = "none" /\ t.jobs = d.jobs)
  BY <1>1, DispatchFacts
<1> HIDE DEF t
<1>3. t.threw = FALSE /\ t.jobs = d.jobs /\ TurnStays(d, t) /\ (Admitted(t) => Admitted(d))
  BY <1>1, <1>2 DEF Keeps, Fields, Begun, TurnStays, Admitted
<1>4. t.phase = "exited" => t.pub = "none"
  BY <1>2 DEF Keeps, Fields
<1>5. t.phase # "exited" => Good(t)
  BY <1>1, <1>2 DEF Keeps, Fields, Good, Early
<1>6. Sound(t)
  BY <1>2, <1>3, <1>4, <1>5 DEF Sound
<1>7. \/ Mute(t)
      \/ ~Says(t, "turn_outcome") /\ ~Says(t, "turn_failed") /\ ~Says(t, "state") /\ Says(t, "parked")
  BY <1>2, AlikeFacts DEF Mute, Loud
<1>8. t.fact = d.fact /\ (t.pub = d.pub \/ (t.pub = "none" /\ t.phase = "exited"))
  BY <1>2 DEF Keeps, Fields
<1>9. Tale(t, "job") /\ ~Says(t, "state")
  BY <1>3, <1>7, <1>8, CarryTale DEF Pre
<1> QED BY <1>2, <1>3, <1>6, <1>9 DEF Pre, TurnStays, t

\* A failed worker exits, or has one snapshot left to upload.
LEMMA FailedPre ==
    ASSUME NEW d, NEW g, NEW b \in BOOLEAN, Pre(d, g, "job"), Mute(d),
           d.phase = "cleaning"
    PROVE  Pre(WorkerFailed(d, b), g, "job")
<1> DEFINE t == WorkerFailed(d, b)
<1>1. Typed(d) /\ d.threw = FALSE /\ Good(d)
  BY DEF Pre, Sound
<1>2. /\ Typed(t) /\ Keeps(d, t, {"out", "pub", "phase", "timers", "jobs", "after"}) /\ Alike(d, t)
      /\ \/ t.phase = "exited" /\ t.pub = "none" /\ t.jobs = d.jobs
         \/ /\ d.pub = "none" /\ t.pub = "fatal_snapshot" /\ t.jobs = d.jobs \cup {"snapshot"}
            /\ t.phase = d.phase /\ t.timers = d.timers
            /\ t.after = "cleanup" => d.phase = "cleaning"
  BY <1>1, FailedFacts
<1> HIDE DEF t
<1>3. t.threw = FALSE /\ ("turn" \in t.jobs => "turn" \in d.jobs) /\ TurnStays(d, t) /\ (Admitted(t) => Admitted(d))
  BY <1>1, <1>2 DEF Keeps, Fields, Begun, TurnStays, Admitted
<1>4. (t.phase = "exited" => t.pub = "none") /\ (t.phase # "exited" => Good(t))
  BY <1>1, <1>2 DEF Keeps, Fields, Good, Early
<1>5. Sound(t)
  BY <1>2, <1>3, <1>4 DEF Sound
<1>6. Mute(t)
  BY <1>2, AlikeFacts
<1>7. t.fact = d.fact /\ ("turn" \in t.jobs <=> "turn" \in d.jobs) /\ t.pub \notin {"terminal_snapshot", "terminal_pending_ack"}
  BY <1>2 DEF Keeps, Fields
<1>8. d.pub # "terminal_pending_ack"
  BY <1>1 DEF Good
<1>9. Tale(t, "job") /\ ~Says(t, "state")
  BY <1>6, <1>7, <1>8, CarryTale DEF Pre
<1> QED BY <1>2, <1>3, <1>5, <1>9 DEF Pre, TurnStays, t

LEMMA FatalPre ==
    ASSUME NEW d, NEW g, Pre(d, g, "job"), Mute(d)
    PROVE  Pre(FinishFatal(d), g, "job")
<1> DEFINE t == FinishFatal(d)
<1>1. Typed(d) /\ d.threw = FALSE
  BY DEF Pre, Sound
<1>2. Typed(t) /\ Keeps(d, t, {"out", "pub", "phase", "timers"}) /\ t.phase = "exited" /\ t.pub = "none"
      /\ Alike(d, t)
  BY <1>1, FatalFacts
<1> HIDE DEF t
<1>3. t.threw = FALSE /\ t.jobs = d.jobs /\ TurnStays(d, t) /\ (Admitted(t) => Admitted(d))
  BY <1>1, <1>2 DEF Keeps, Fields, Begun, TurnStays, Admitted
<1>4. Sound(t)
  BY <1>2, <1>3 DEF Sound
<1>5. Mute(t) /\ t.fact = d.fact
  <2>1. Mute(t)
    BY <1>2, AlikeFacts
  <2> QED BY <1>2, <2>1 DEF Keeps, Fields
<1>6. Tale(t, "job") /\ ~Says(t, "state")
  BY <1>2, <1>3, <1>5, CarryTale DEF Pre
<1> QED BY <1>2, <1>3, <1>4, <1>6 DEF Pre, TurnStays, t

\* A job that ends, with nothing else changed.
LEMMA DonePre ==
    ASSUME IInv, Alive, NEW job
    PROVE  Pre(Done(job), granted, "job")
<1> DEFINE d == Done(job)
<1>1. Typed(d) /\ Keeps(w, d, {"out", "jobs"}) /\ Mute(d) /\ d.jobs = w.jobs \ {job}
  BY DoneFacts
<1> HIDE DEF d
<1>2. /\ Keeps(w, d, {"queue", "consumed", "tainted", "cred", "base", "stage", "kind", "timers", "jobs", "out"})
      /\ d.timers = w.timers
  BY <1>1 DEF Keeps, Fields
<1>3. Pre(d, granted, "job")
  BY <1>1, <1>2, CalmPre
<1> QED BY <1>3 DEF d

\* A draining worker notes that the operation it waited for has ended.
LEMMA DrainedPre ==
    ASSUME NEW d, NEW g, Pre(d, g, "job"), Mute(d), d.phase = "draining",
           \A j \in {"bootstrap", "activate", "turn"} : j \notin d.jobs
    PROVE  Pre([d EXCEPT !.op = "none"], g, "job")
<1> DEFINE t == [d EXCEPT !.op = "none"]
<1>1. Typed(d) /\ d.threw = FALSE /\ Good(d)
  BY DEF Pre, Sound
<1>2. Keeps(d, t, {"op"}) /\ t.op = "none"
  BY <1>1 DEF Keeps, Typed, Fields
<1> HIDE DEF t
<1>3. Typed(t)
  BY <1>1, <1>2 DEF Keeps, Typed, Fields
<1>4. Good(t) /\ t.threw = FALSE /\ t.phase = "draining" /\ t.jobs = d.jobs /\ t.out = d.out
  BY <1>1, <1>2 DEF Keeps, Fields, Good, Early
<1>5. TurnStays(d, t) /\ (Admitted(t) => Admitted(d)) /\ t.fact = d.fact /\ t.pub = d.pub
  BY <1>2, <1>4 DEF Keeps, Fields, Begun, TurnStays, Admitted
<1>6. Sound(t)
  BY <1>3, <1>4 DEF Sound
<1>7. Mute(t)
  BY <1>4, AlikeFacts
<1>8. Tale(t, "job") /\ ~Says(t, "state")
  BY <1>4, <1>5, <1>7, CarryTale DEF Pre
<1> QED BY <1>4, <1>5, <1>6, <1>8 DEF Pre, TurnStays, t

LEMMA ActivatedPre ==
    ASSUME IInv, ActivationSucceeded
    PROVE  Alive /\ \E s : Pre(s, granted, "job") /\ Reduce(s)
<1> DEFINE d == Done("activate")
           k == (w.kind = "llm")
           live == [d EXCEPT !.pi = k]
           drained == [live EXCEPT !.op = "none"]
           s == [live EXCEPT !.phase = "active", !.turn = "pending"]
<1>1. /\ Alive /\ "activate" \in w.jobs
      /\ \/ w.phase = "draining" /\ Reduce(drained)
         \/ w.phase # "draining" /\ Reduce(s)
  BY DEF ActivationSucceeded
<1>2. Sound(w) /\ Good(w) /\ w.phase # "exited" /\ (Admitted(w) => granted)
  BY <1>1, QuietFacts
<1>3. Typed(d) /\ Keeps(w, d, {"out", "jobs"}) /\ Mute(d) /\ d.jobs = w.jobs \ {"activate"}
  BY <1>1, DoneFacts
<1>4. k \in BOOLEAN
  OBVIOUS
<1> HIDE DEF d, k
<1>5. Keeps(d, live, {"pi"}) /\ live.pi = k
  BY <1>3 DEF Keeps, Typed, Fields
<1> HIDE DEF live
<1>6. Typed(live)
  BY <1>3, <1>4, <1>5 DEF Keeps, Typed, Fields
<1>7. Keeps(w, live, {"out", "jobs", "pi"}) /\ live.jobs = w.jobs \ {"activate"} /\ live.out = d.out
  BY <1>3, <1>5 DEF Keeps, Fields
<1>8. w.pub = "none" /\ w.turn = "none" /\ (w.phase = "activating" \/ (w.phase = "draining" /\ w.op = "activation"))
  BY <1>1, <1>2 DEF Good
<1>9. CASE w.phase = "draining" /\ Reduce(drained)
  <2>1. Good(live) /\ live.threw = FALSE /\ live.phase = "draining"
    BY <1>2, <1>7, <1>8, <1>9 DEF Keeps, Fields, Good, Early, Sound
  <2>2. TurnStays(w, live) /\ (Admitted(live) => Admitted(w)) /\ Mute(live) /\ Follows(live, "job")
    BY <1>3, <1>7 DEF Keeps, Fields, Begun, TurnStays, Admitted, Mute, Says, Follows
  <2>3. Pre(live, granted, "job")
    BY <1>2, <1>6, <1>7, <2>1, <2>2, PreLemma, MuteTale
  <2>4. \A j \in {"bootstrap", "activate", "turn"} : j \notin live.jobs
    BY <1>2, <1>7, <1>8, <1>9 DEF Good
  <2>5. Pre(drained, granted, "job")
    BY <2>1, <2>2, <2>3, <2>4, DrainedPre
  <2> QED BY <1>1, <1>9, <2>5
<1>10. CASE w.phase # "draining" /\ Reduce(s)
  <2>1. Keeps(live, s, {"phase", "turn"}) /\ s.phase = "active" /\ s.turn = "pending"
    BY <1>6 DEF Keeps, Typed, Fields
  <2> HIDE DEF s
  <2>2. Typed(s)
    BY <1>6, <2>1 DEF Keeps, Typed, Fields, Phases
  <2>3. Keeps(w, s, {"out", "jobs", "pi", "phase", "turn"}) /\ s.jobs = w.jobs \ {"activate"} /\ s.out = d.out
    BY <1>7, <2>1 DEF Keeps, Fields
  <2>4. Good(s) /\ s.threw = FALSE
    BY <1>2, <1>8, <1>10, <2>1, <2>3 DEF Keeps, Fields, Good, Early, Sound
  <2>5. TurnStays(w, s) /\ Admitted(w) /\ Mute(s) /\ Follows(s, "job")
    <3>1. TurnStays(w, s) /\ Admitted(w)
      BY <1>8, <1>10, <2>1, <2>3 DEF Begun, TurnStays, Admitted
    <3>2. Mute(s)
      BY <1>3, <2>3, AlikeFacts
    <3>3. Follows(s, "job")
      BY <2>3 DEF Keeps, Fields, Follows
    <3> QED BY <3>1, <3>2, <3>3
  <2>6. Pre(s, granted, "job")
    BY <1>2, <2>1, <2>2, <2>3, <2>4, <2>5, PreLemma, MuteTale
  <2> QED BY <1>1, <1>10, <2>6
<1> QED BY <1>1, <1>9, <1>10

LEMMA OperationFailedPre ==
    ASSUME IInv, NEW job \in {"activate", "turn"}, OperationFailed(job)
    PROVE  Alive /\ \E s : Pre(s, granted, "job") /\ Reduce(s)
<1> DEFINE d == Done(job)
           drained == [d EXCEPT !.op = "none"]
<1>1. /\ Alive /\ job \in w.jobs
      /\ \/ w.phase = "draining" /\ Reduce(drained)
         \/ Reduce(DispatchFailed(d))
  BY DEF OperationFailed
<1>2. Good(w) /\ w.phase # "exited"
  BY <1>1, QuietFacts
<1>3. Typed(d) /\ Keeps(w, d, {"out", "jobs"}) /\ Mute(d) /\ d.jobs = w.jobs \ {job}
  BY <1>1, DoneFacts
<1>4. Pre(d, granted, "job")
  BY <1>1, DonePre
<1> HIDE DEF d
<1>5. d.phase = w.phase
  BY <1>3 DEF Keeps, Fields
<1>6. Pre(DispatchFailed(d), granted, "job")
  BY <1>2, <1>3, <1>4, <1>5, DispatchPre
<1>7. CASE w.phase = "draining"
  <2>1. \A j \in {"bootstrap", "activate", "turn"} : j \notin d.jobs
    BY <1>1, <1>2, <1>3, <1>7 DEF Good
  <2>2. Pre(drained, granted, "job")
    BY <1>3, <1>4, <1>5, <1>7, <2>1, DrainedPre
  <2> QED BY <1>1, <1>6, <2>2
<1> QED BY <1>1, <1>6, <1>7

\* A delivery that is over, whatever became of the inputs.
LEMMA UndeliveredPre ==
    ASSUME IInv, Alive
    PROVE  LET t == [Done("deliver") EXCEPT !.delivery = {}]
           IN  Pre(t, granted, "job") /\ Mute(t) /\ Typed(t) /\ t.phase = w.phase
<1> DEFINE d == Done("deliver")
           t == [d EXCEPT !.delivery = {}]
<1>1. Sound(w) /\ Good(w) /\ w.phase # "exited" /\ (Admitted(w) => granted)
  BY QuietFacts
<1>2. Typed(d) /\ Keeps(w, d, {"out", "jobs"}) /\ Mute(d) /\ d.jobs = w.jobs \ {"deliver"}
  BY DoneFacts
<1> HIDE DEF d
<1>3. Keeps(d, t, {"delivery"}) /\ t.delivery = {}
  BY <1>2 DEF Keeps, Typed, Fields
<1> HIDE DEF t
<1>4. Typed(t)
  BY <1>2, <1>3 DEF Keeps, Typed, Fields
<1>5. /\ Keeps(w, t, {"out", "jobs", "delivery"}) /\ t.jobs = w.jobs \ {"deliver"} /\ t.out = d.out
      /\ t.phase = w.phase
  BY <1>2, <1>3 DEF Keeps, Fields
<1>6. Good(t) /\ t.threw = FALSE
  BY <1>1, <1>3, <1>5 DEF Keeps, Fields, Good, Early, Sound
<1>7. TurnStays(w, t) /\ (Admitted(t) => Admitted(w)) /\ Mute(t) /\ Follows(t, "job")
  BY <1>2, <1>5 DEF Keeps, Fields, Begun, TurnStays, Admitted, Mute, Says, Follows
<1>8. Pre(t, granted, "job")
  BY <1>1, <1>4, <1>5, <1>6, <1>7, PreLemma, MuteTale
<1> QED BY <1>4, <1>5, <1>7, <1>8 DEF t, d

\* Consumed inputs leave a prepared state prepared.
LEMMA ConsumePre ==
    ASSUME NEW d, NEW g, Pre(d, g, "job"), Mute(d), NEW S \in SUBSET Inputs
    PROVE  LET t == Consume(d, S)
           IN  Pre(t, g, "job") /\ Mute(t) /\ Typed(t) /\ Keeps(d, t, {"queue", "consumed", "out"})
<1> DEFINE t == Consume(d, S)
<1>1. Sound(d) /\ Typed(d)
  BY DEF Pre, Sound
<1>2. Typed(t) /\ Keeps(d, t, {"queue", "consumed", "out"}) /\ Alike(d, t)
  BY <1>1, ConsumeFacts
<1> HIDE DEF t
<1>3. (d.phase # "exited" => Good(t)) /\ t.phase = d.phase /\ t.pub = d.pub /\ t.threw = d.threw /\ t.jobs = d.jobs
  BY <1>1, <1>2 DEF Keeps, Fields, Sound, Good, Early
<1>4. TurnStays(d, t) /\ (Admitted(t) => Admitted(d)) /\ t.fact = d.fact
  BY <1>2 DEF Keeps, Fields, Begun, TurnStays, Admitted
<1>5. Sound(t)
  BY <1>1, <1>2, <1>3 DEF Sound
<1>6. Mute(t)
  BY <1>2, AlikeFacts
<1>7. Tale(t, "job") /\ ~Says(t, "state")
  BY <1>3, <1>4, <1>6, CarryTale DEF Pre
<1> QED BY <1>2, <1>3, <1>4, <1>5, <1>6, <1>7 DEF Pre, TurnStays, t

LEMMA DeliveredPre ==
    ASSUME IInv, InputsDelivered \/ InputDeliveryFailed
    PROVE  Alive /\ \E s : Pre(s, granted, "job") /\ Reduce(s)
<1> DEFINE d == Done("deliver")
           c == [d EXCEPT !.delivery = {}]
<1>1. Alive /\ (Reduce(Consume(c, w.delivery)) \/ Reduce(d) \/ Reduce(c) \/ Reduce(DispatchFailed(c)))
  <2>1. CASE InputsDelivered
    BY <2>1 DEF InputsDelivered
  <2>2. CASE InputDeliveryFailed
    BY <2>2 DEF InputDeliveryFailed
  <2> QED BY <2>1, <2>2
<1>2. Pre(d, granted, "job")
  BY <1>1, DonePre
<1>3. Pre(c, granted, "job") /\ Mute(c) /\ c.phase = w.phase
  BY <1>1, UndeliveredPre
<1> HIDE DEF d, c
<1>4. w.delivery \in SUBSET Inputs /\ w.phase # "exited"
  BY <1>1 DEF IInv, Sound, Typed, Alive
<1>5. Pre(Consume(c, w.delivery), granted, "job")
  BY <1>3, <1>4, ConsumePre
<1>6. Pre(DispatchFailed(c), granted, "job")
  BY <1>3, <1>4, DispatchPre
<1> QED BY <1>1, <1>2, <1>3, <1>5, <1>6

\* A terminal fact is sent and held: nothing else may be under publication.
LEMMA TerminalPre ==
    ASSUME NEW d, NEW g, Pre(d, g, "job"), Mute(d), d.phase \in {"active", "draining"},
           d.turn # "none", d.fact # "none", w.pub = "terminal_snapshot" \/ Ended(d),
           \A j \in {"bootstrap", "activate", "turn"} : j \notin d.jobs
    PROVE  Pre(PublishTerminal(d), g, "job")
<1> DEFINE t == PublishTerminal(d)
<1>1. Typed(d) /\ d.threw = FALSE /\ Good(d)
  BY DEF Pre, Sound
<1>2. /\ Typed(t) /\ Keeps(d, t, {"out", "pub", "timers"})
      /\ t.pub = "terminal_pending_ack" /\ t.timers = d.timers \cup {"terminal_ack"}
      /\ \A x \in {"turn_outcome", "turn_failed", "state"} : Says(t, x) <=> d.fact = x
      /\ Ordered(t.out)
  BY <1>1, PublishFacts
<1> HIDE DEF t
<1>3. Good(t) /\ t.threw = FALSE /\ t.phase = d.phase /\ t.jobs = d.jobs
  BY <1>1, <1>2 DEF Keeps, Fields, Good, Early
<1>4. TurnStays(d, t) /\ (Admitted(t) => Admitted(d)) /\ t.fact = d.fact
  BY <1>2 DEF Keeps, Fields, Begun, TurnStays, Admitted
<1>5. Sound(t)
  BY <1>2, <1>3 DEF Sound
<1>6. Ended(t) <=> Ended(d)
  BY <1>3 DEF Ended
<1>7. Tale(t, "job") /\ ~Says(t, "state")
  <2>1. ~Says(t, "state")
    BY <1>1, <1>2 DEF Typed
  <2> QED BY <1>2, <1>4, <1>6, <2>1 DEF Pre, Tale
<1> QED BY <1>2, <1>3, <1>4, <1>5, <1>7 DEF Pre, TurnStays, t

\* The process is parked for a reason other than a failed turn.
LEMMA ParkedPre ==
    ASSUME NEW d, NEW g, Pre(d, g, "job"), Mute(d)
    PROVE  Pre(Emit(d, Fact("parked")), g, "job")
<1> DEFINE t == Emit(d, Fact("parked"))
<1>1. Sound(d) /\ Typed(d) /\ Fact("parked") \in Facts /\ Fact("parked").type = "parked"
  BY FactTypes DEF Pre, Sound, FactNames
<1>2. Typed(t) /\ Keeps(d, t, {"out"}) /\ \A x : Says(t, x) <=> Says(d, x) \/ x = "parked"
  BY <1>1, EmitFacts
<1> HIDE DEF t
<1>3. (d.phase # "exited" => Good(t)) /\ t.phase = d.phase /\ t.pub = d.pub /\ t.threw = d.threw /\ t.jobs = d.jobs
  BY <1>1, <1>2 DEF Keeps, Fields, Sound, Good, Early
<1>4. TurnStays(d, t) /\ (Admitted(t) => Admitted(d)) /\ t.fact = d.fact
  BY <1>2 DEF Keeps, Fields, Begun, TurnStays, Admitted
<1>5. Sound(t)
  BY <1>1, <1>2, <1>3 DEF Sound
<1>6. ~Says(t, "turn_outcome") /\ ~Says(t, "turn_failed") /\ ~Says(t, "state") /\ Says(t, "parked")
  BY <1>2 DEF Mute, Loud
<1>7. Tale(t, "job") /\ ~Says(t, "state")
  BY <1>3, <1>4, <1>6, CarryTale DEF Pre
<1> QED BY <1>2, <1>3, <1>4, <1>5, <1>7 DEF Pre, TurnStays, t

\* A turn whose snapshot failed is reported failed and then parked.
LEMMA SnapshotFailedPre ==
    ASSUME NEW c, NEW g, Pre(c, g, "job"), Mute(c), c.pub = "none", w.pub = "terminal_snapshot"
    PROVE  Pre(SnapshotFailed(c), g, "job")
<1> DEFINE e == Emit(c, Fact("turn_failed"))
           t == Emit(e, Fact("parked"))
<1>1. /\ Sound(c) /\ Typed(c)
      /\ Fact("parked") \in Facts /\ Fact("parked").type = "parked"
      /\ Fact("turn_failed") \in Facts /\ Fact("turn_failed").type = "turn_failed"
  BY FactTypes DEF Pre, Sound, FactNames
<1>2. /\ Typed(e) /\ Keeps(c, e, {"out"})
      /\ \A x : Says(e, x) <=> Says(c, x) \/ x = "turn_failed"
      /\ Ordered(c.out) => Ordered(e.out)
  BY <1>1, EmitFacts
<1> HIDE DEF e
<1>3. /\ Typed(t) /\ Keeps(e, t, {"out"})
      /\ \A x : Says(t, x) <=> Says(e, x) \/ x = "parked"
      /\ Ordered(e.out) /\ Says(e, "turn_failed") => Ordered(t.out)
  BY <1>1, <1>2, EmitFacts
<1>4. t = SnapshotFailed(c)
  BY DEF SnapshotFailed, e
<1> HIDE DEF t
<1>5. Keeps(c, t, {"out"})
  BY <1>2, <1>3 DEF Keeps, Fields
<1>6. Ordered(t.out) /\ ~Says(t, "turn_outcome") /\ ~Says(t, "state")
  BY <1>2, <1>3, AlikeFacts DEF Mute, Loud
<1>7. (c.phase # "exited" => Good(t)) /\ t.phase = c.phase /\ t.pub = "none" /\ t.threw = c.threw /\ t.jobs = c.jobs
  BY <1>1, <1>5 DEF Keeps, Fields, Sound, Good, Early
<1>8. TurnStays(c, t) /\ (Admitted(t) => Admitted(c)) /\ t.fact = c.fact
  BY <1>5 DEF Keeps, Fields, Begun, TurnStays, Admitted
<1>9. Sound(t)
  BY <1>1, <1>3, <1>7 DEF Sound
<1>10. Ended(t) <=> Ended(c)
  BY <1>7 DEF Ended
<1>11. Tale(t, "job")
  BY <1>6, <1>7, <1>8, <1>10 DEF Pre, Tale
<1> QED BY <1>4, <1>6, <1>7, <1>8, <1>9, <1>11 DEF Pre, TurnStays

LEMMA TurnCompletedPre ==
    ASSUME IInv, NEW result \in {"turn_outcome", "turn_failed", "parked"}, NEW S \in SUBSET Targeted,
           TurnCompleted(result, S)
    PROVE  Alive /\ \E s : Pre(s, granted, "job") /\ Reduce(s)
<1> DEFINE d == Done("turn")
           ended == IF w.phase = "draining" THEN [d EXCEPT !.op = "none"]
                    ELSE [d EXCEPT !.turn = "completed"]
           R == {t \in S : \A i \in ended.queue : i <= t => i \in S}
           applied == Consume(ended, R)
           pending == [applied EXCEPT !.fact = result]
           held == BeginSnapshot(pending, "terminal_snapshot")
<1>1. /\ Alive /\ "turn" \in w.jobs
      /\ \/ Reduce(Emit(applied, Fact("parked")))
         \/ result # "parked" /\ Reduce(PublishTerminal(pending))
         \/ result # "parked" /\ Reduce(held)
  <2> DEFINE a == result = "parked"
             b == result # "parked" /\ w.kind = "automatic"
             e == Emit(applied, Fact("parked"))
             p == PublishTerminal(pending)
             x == CASE a -> e [] b -> p [] OTHER -> held
  <2>1. Alive /\ "turn" \in w.jobs /\ Reduce(x)
    BY DEF TurnCompleted, Applied
  <2>2. (b => ~a) /\ (~a <=> result # "parked")
    OBVIOUS
  <2>3. x = e \/ (~a /\ x = p) \/ (~a /\ x = held)
    <3> HIDE DEF a, b, e, p, held
    <3> QED BY <2>2
  <2> HIDE DEF x, a
  <2> QED BY <2>1, <2>2, <2>3
<1>2. Sound(w) /\ Good(w) /\ w.phase # "exited" /\ (Admitted(w) => granted)
  BY <1>1, QuietFacts
<1>3. Typed(d) /\ Keeps(w, d, {"out", "jobs"}) /\ Mute(d) /\ d.jobs = w.jobs \ {"turn"} /\ Pre(d, granted, "job")
  BY <1>1, DoneFacts, DonePre
<1>4. w.pub = "none" /\ w.turn = "executing" /\ (w.phase = "active" \/ (w.phase = "draining" /\ w.op = "turn"))
  BY <1>1, <1>2 DEF Good
<1> HIDE DEF d
<1>5. \A j \in {"bootstrap", "activate", "turn"} : j \notin d.jobs
  BY <1>2, <1>3, <1>4 DEF Good
<1>6. /\ Pre(ended, granted, "job") /\ Mute(ended) /\ Typed(ended)
      /\ ended.phase \in {"active", "draining"} /\ ended.turn # "none" /\ ended.pub = "none" /\ ended.jobs = d.jobs
  <2>1. CASE w.phase = "draining"
    <3> DEFINE t == [d EXCEPT !.op = "none"]
    <3>1. d.phase = "draining"
      BY <1>3, <2>1 DEF Keeps, Fields
    <3>2. Pre(t, granted, "job")
      BY <1>3, <1>5, <3>1, DrainedPre
    <3>3. Keeps(d, t, {"op"})
      BY <1>3 DEF Keeps, Typed, Fields
    <3>4. ended = t
      BY <2>1
    <3> HIDE DEF t, ended
    <3>5. t.phase = w.phase /\ t.turn = w.turn /\ t.pub = w.pub /\ t.jobs = d.jobs /\ t.out = d.out
      BY <1>3, <3>3 DEF Keeps, Fields
    <3>6. Mute(t) /\ Typed(t)
      BY <1>3, <3>2, <3>5, AlikeFacts DEF Pre, Sound
    <3> QED BY <1>4, <2>1, <3>2, <3>4, <3>5, <3>6
  <2>2. CASE w.phase # "draining"
    <3> DEFINE t == [d EXCEPT !.turn = "completed"]
    <3>1. Keeps(d, t, {"turn"}) /\ t.turn = "completed"
      BY <1>3 DEF Keeps, Typed, Fields
    <3>2. ended = t
      BY <2>2
    <3> HIDE DEF t, ended
    <3>3. Typed(t)
      BY <1>3, <3>1 DEF Keeps, Typed, Fields
    <3>4. Keeps(w, t, {"out", "jobs", "turn"}) /\ t.jobs = d.jobs /\ t.out = d.out
      BY <1>3, <3>1 DEF Keeps, Fields
    <3>5. Good(t) /\ t.threw = FALSE /\ t.phase = "active" /\ t.pub = "none"
      BY <1>2, <1>3, <1>4, <2>2, <3>1, <3>4 DEF Keeps, Fields, Good, Early, Sound
    <3>6. TurnStays(w, t) /\ Admitted(w) /\ Follows(t, "job")
      BY <1>4, <3>1, <3>4 DEF Keeps, Fields, Begun, TurnStays, Admitted, Follows
    <3>7. Mute(t)
      BY <1>3, <3>4, AlikeFacts
    <3>8. Pre(t, granted, "job")
      BY <1>2, <1>3, <3>3, <3>4, <3>5, <3>6, <3>7, PreLemma, MuteTale
    <3> QED BY <3>1, <3>2, <3>3, <3>4, <3>5, <3>6, <3>7, <3>8
  <2> QED BY <2>1, <2>2
<1> HIDE DEF ended
<1>7. R \in SUBSET Inputs
  BY TargetedAssumption DEF Inputs
<1> HIDE DEF R
<1>8. Pre(applied, granted, "job") /\ Mute(applied) /\ Typed(applied) /\ Keeps(ended, applied, {"queue", "consumed", "out"})
  BY <1>6, <1>7, ConsumePre
<1> HIDE DEF applied
<1>9. Pre(Emit(applied, Fact("parked")), granted, "job")
  BY <1>8, ParkedPre
<1>10. CASE result # "parked"
  <2>1. Keeps(applied, pending, {"fact"}) /\ pending.fact = result
    BY <1>8 DEF Keeps, Typed, Fields
  <2> HIDE DEF pending
  <2>2. Typed(pending)
    BY <1>8, <1>10, <2>1 DEF Keeps, Typed, Fields
  <2>3. /\ pending.phase \in {"active", "draining"} /\ pending.turn # "none" /\ pending.pub = "none"
        /\ pending.jobs = d.jobs /\ pending.out = applied.out
    BY <1>6, <1>8, <2>1 DEF Keeps, Fields
  <2>4. Good(applied) /\ applied.threw = FALSE /\ applied.pub = "none"
    BY <1>6, <1>8 DEF Pre, Sound, Keeps, Fields
  <2>5. Good(pending) /\ pending.threw = FALSE
    BY <2>1, <2>3, <2>4 DEF Keeps, Fields, Good, Early
  <2>6. TurnStays(w, pending) /\ (Admitted(pending) => granted)
    BY <1>8, <2>1, <2>3 DEF Pre, Keeps, Fields, Begun, TurnStays, Admitted
  <2>14. Mute(pending) /\ Ended(pending)
    <3>1. Mute(pending)
      BY <1>8, <2>3, AlikeFacts
    <3>2. Ended(pending)
      BY <1>1, <1>3, <2>3 DEF Ended
    <3> QED BY <3>1, <3>2
  <2>15. /\ Ordered(pending.out) /\ ~Says(pending, "state")
         /\ ~Says(pending, "turn_outcome") /\ ~Says(pending, "turn_failed")
    BY <2>14, AlikeFacts DEF Mute, Loud
  <2>16. Tale(pending, "job")
    BY <1>4, <2>3, <2>14, <2>15 DEF Tale
  <2>7. Pre(pending, granted, "job")
    BY <1>3, <2>2, <2>3, <2>5, <2>6, <2>15, <2>16, PreLemma
  <2>8. Pre(PublishTerminal(pending), granted, "job")
    BY <1>5, <1>10, <2>1, <2>3, <2>7, <2>14, TerminalPre
  <2>9. /\ Typed(held) /\ Keeps(pending, held, {"pub", "jobs"})
        /\ held.pub = "terminal_snapshot" /\ held.jobs = pending.jobs \cup {"snapshot"}
    BY <2>2, <2>3, SnapshotFacts DEF Publications
  <2> HIDE DEF held
  <2>10. /\ held.phase \in {"active", "draining"} /\ held.turn # "none" /\ held.fact # "none"
         /\ held.out = pending.out /\ held.threw = FALSE
         /\ \A j \in {"bootstrap", "activate", "turn"} : j \notin held.jobs
    BY <1>5, <1>10, <2>1, <2>3, <2>5, <2>9 DEF Keeps, Fields
  <2>11. Good(held)
    BY <2>5, <2>9, <2>10 DEF Keeps, Fields, Good, Early
  <2>12. TurnStays(w, held) /\ (Admitted(held) => granted)
    BY <2>6, <2>9, <2>10 DEF Keeps, Fields, Begun, TurnStays, Admitted
  <2>17. /\ Ordered(held.out) /\ ~Says(held, "state")
         /\ ~Says(held, "turn_outcome") /\ ~Says(held, "turn_failed") /\ Ended(held)
    <3>1. /\ Ordered(held.out) /\ ~Says(held, "state")
          /\ ~Says(held, "turn_outcome") /\ ~Says(held, "turn_failed")
      BY <2>10, <2>15 DEF Says
    <3> QED BY <1>1, <2>10, <3>1 DEF Ended
  <2>18. Tale(held, "job")
    BY <1>4, <2>9, <2>17 DEF Tale
  <2>13. Pre(held, granted, "job")
    BY <2>9, <2>10, <2>11, <2>12, <2>17, <2>18, PreLemma
  <2> QED BY <1>1, <1>9, <2>8, <2>13
<1> QED BY <1>1, <1>9, <1>10

LEMMA SnapshotPre ==
    ASSUME IInv, NEW ok \in BOOLEAN, SnapshotCompleted(ok)
    PROVE  Alive /\ \E s : Pre(s, granted, "job") /\ Reduce(s)
<1> DEFINE s == Done("snapshot")
           c == [s EXCEPT !.pub = "none"]
           r == [c EXCEPT !.stage = "resources"]
           q == [s EXCEPT !.stage = "resources", !.pub = "fatal_pending_cleanup"]
<1>1. /\ Alive
      /\ \/ w.pub \notin {"terminal_pending_ack"} /\ Reduce(c)
         \/ w.pub = "terminal_snapshot" /\ Reduce(PublishTerminal(s))
         \/ w.pub = "terminal_snapshot" /\ Reduce(SnapshotFailed(c))
         \/ w.pub = "cleanup_snapshot" /\ Reduce(Launch(r, "cleanup"))
         \/ w.pub = "cleanup_snapshot" /\ Reduce(WorkerFailed(c, TRUE))
         \/ Reduce(FinishFatal(s))
         \/ w.pub = "fatal_snapshot" /\ w.after = "cleanup" /\ Reduce(Launch(q, "cleanup"))
         \/ Reduce(s)
  <2> DEFINE a1 == w.pub = "ready_snapshot"
             a2 == w.pub = "terminal_snapshot"
             a3 == w.pub = "cleanup_snapshot"
             a4 == w.pub = "fatal_snapshot" /\ w.after = "exit"
             a5 == w.pub = "fatal_snapshot" /\ w.after = "cleanup"
             p == PublishTerminal(s)
             f == SnapshotFailed(c)
             l == Launch(r, "cleanup")
             e == WorkerFailed(c, TRUE)
             h == FinishFatal(s)
             m == Launch(q, "cleanup")
             x == CASE a1 -> c [] a2 -> (IF ok THEN p ELSE f) [] a3 -> (IF ok THEN l ELSE e)
                    [] a4 -> h [] a5 -> m [] OTHER -> s
  <2>1. Alive /\ Reduce(x)
    BY DEF SnapshotCompleted
  <2>2. \/ a1 /\ x = c
        \/ a2 /\ (x = p \/ x = f)
        \/ a3 /\ (x = l \/ x = e)
        \/ x = h
        \/ a5 /\ x = m
        \/ x = s
    <3> HIDE DEF a1, a2, a3, a4, a5, c, p, f, l, e, h, m, s
    <3> QED OBVIOUS
  <2>3. a1 => w.pub \notin {"terminal_pending_ack"}
    OBVIOUS
  <2> HIDE DEF x
  <2> QED BY <2>1, <2>2, <2>3
<1>2. Sound(w) /\ Good(w) /\ w.phase # "exited" /\ (Admitted(w) => granted)
  BY <1>1, QuietFacts
<1>3. Typed(s) /\ Keeps(w, s, {"out", "jobs"}) /\ Mute(s) /\ s.jobs = w.jobs \ {"snapshot"} /\ Pre(s, granted, "job")
  BY <1>1, DoneFacts, DonePre
<1> HIDE DEF s
<1>4. Good(s) /\ s.threw = FALSE /\ s.pub = w.pub /\ s.after = w.after /\ s.phase = w.phase
  BY <1>2, <1>3 DEF Pre, Sound, Keeps, Fields
<1>5. Keeps(s, c, {"pub"}) /\ c.pub = "none"
  BY <1>3 DEF Keeps, Typed, Fields
<1> HIDE DEF c
<1>6. Typed(c)
  BY <1>3, <1>5 DEF Keeps, Typed, Fields, Publications
<1>7. Good(c) /\ c.threw = FALSE /\ c.jobs = s.jobs /\ c.phase = w.phase /\ c.out = s.out
  BY <1>4, <1>5 DEF Keeps, Fields, Good, Early
<1>8. TurnStays(w, c) /\ (Admitted(c) => granted)
  BY <1>3, <1>5, <1>7 DEF Pre, Keeps, Fields, Begun, TurnStays, Admitted
<1>16. Mute(c)
  BY <1>3, <1>7, AlikeFacts
<1>17. w.pub # "terminal_pending_ack" => Follows(c, "job")
  BY <1>3, <1>5 DEF Keeps, Fields, Follows
<1>9. w.pub # "terminal_pending_ack" => Pre(c, granted, "job")
  BY <1>2, <1>3, <1>6, <1>7, <1>8, <1>16, <1>17, PreLemma, MuteTale
<1>10. CASE w.pub = "terminal_snapshot" /\ Reduce(PublishTerminal(s))
  <2>1. s.phase \in {"active", "draining"}
    BY <1>2, <1>4, <1>10 DEF Good, Early, Sound, Typed, Phases
  <2>2. s.turn # "none" /\ s.fact # "none"
    BY <1>4, <1>10 DEF Good
  <2>3. \A j \in {"bootstrap", "activate", "turn"} : j \notin s.jobs
    BY <1>4, <1>10 DEF Good
  <2>4. Pre(PublishTerminal(s), granted, "job")
    BY <1>3, <1>10, <2>1, <2>2, <2>3, TerminalPre
  <2> QED BY <1>1, <1>10, <2>4
<1>11. CASE w.pub = "terminal_snapshot" /\ Reduce(SnapshotFailed(c))
  BY <1>1, <1>5, <1>9, <1>11, <1>16, SnapshotFailedPre
<1>12. CASE w.pub = "cleanup_snapshot" /\ Reduce(Launch(r, "cleanup"))
  <2> DEFINE l == Launch(r, "cleanup")
  <2>1. Keeps(c, r, {"stage"}) /\ r.stage = "resources"
    BY <1>6 DEF Keeps, Typed, Fields
  <2> HIDE DEF r
  <2>2. Typed(r)
    BY <1>6, <2>1 DEF Keeps, Typed, Fields
  <2>3. Typed(l) /\ Keeps(r, l, {"jobs"}) /\ l.jobs = r.jobs \cup {"cleanup"}
    BY <2>2, LaunchFacts DEF Jobs
  <2> HIDE DEF l
  <2>4. Keeps(c, l, {"stage", "jobs"}) /\ l.jobs = c.jobs \cup {"cleanup"} /\ l.out = c.out
    BY <2>1, <2>3 DEF Keeps, Fields
  <2>5. w.phase = "cleaning"
    BY <1>2, <1>12 DEF Good
  <2>6. Good(l) /\ l.threw = FALSE /\ l.phase # "exited"
    BY <1>7, <2>4, <2>5 DEF Keeps, Fields, Good, Early
  <2>7. TurnStays(w, l) /\ (Admitted(l) => granted) /\ ("turn" \in l.jobs => "turn" \in w.jobs)
    BY <1>3, <1>7, <1>8, <2>4 DEF Keeps, Fields, Begun, TurnStays, Admitted
  <2>9. Mute(l)
    BY <1>16, <2>4, AlikeFacts
  <2>10. l.fact = c.fact /\ l.pub = c.pub
    BY <2>4 DEF Keeps, Fields
  <2>11. Follows(l, "job")
    BY <1>12, <1>17, <2>10 DEF Follows
  <2>8. Pre(l, granted, "job")
    BY <2>3, <2>6, <2>7, <2>9, <2>11, PreLemma, MuteTale
  <2> QED BY <1>1, <1>12, <2>8 DEF l
<1>13. CASE w.pub = "cleanup_snapshot" /\ Reduce(WorkerFailed(c, TRUE))
  <2>1. c.phase = "cleaning"
    BY <1>2, <1>7, <1>13 DEF Good
  <2>2. Pre(WorkerFailed(c, TRUE), granted, "job")
    BY <1>9, <1>13, <1>16, <2>1, FailedPre
  <2> QED BY <1>1, <1>13, <2>2
<1>14. CASE Reduce(FinishFatal(s))
  BY <1>1, <1>3, <1>14, FatalPre
<1>15. CASE w.pub = "fatal_snapshot" /\ w.after = "cleanup" /\ Reduce(Launch(q, "cleanup"))
  <2> DEFINE l == Launch(q, "cleanup")
  <2>1. Keeps(s, q, {"stage", "pub"}) /\ q.stage = "resources" /\ q.pub = "fatal_pending_cleanup"
    BY <1>3 DEF Keeps, Typed, Fields
  <2> HIDE DEF q
  <2>2. Typed(q)
    BY <1>3, <2>1 DEF Keeps, Typed, Fields, Publications
  <2>3. Typed(l) /\ Keeps(q, l, {"jobs"}) /\ l.jobs = q.jobs \cup {"cleanup"}
    BY <2>2, LaunchFacts DEF Jobs
  <2> HIDE DEF l
  <2>4. /\ Keeps(s, l, {"stage", "pub", "jobs"}) /\ l.jobs = s.jobs \cup {"cleanup"} /\ l.out = s.out
        /\ l.pub = "fatal_pending_cleanup"
    BY <2>1, <2>3 DEF Keeps, Fields
  <2>5. s.phase = "cleaning"
    BY <1>2, <1>4, <1>15 DEF Good
  <2>6. Good(l) /\ l.threw = FALSE /\ l.phase # "exited"
    BY <1>4, <2>4, <2>5 DEF Keeps, Fields, Good, Early
  <2>7. TurnStays(w, l) /\ (Admitted(l) => granted) /\ ("turn" \in l.jobs => "turn" \in w.jobs)
    BY <1>3, <2>4 DEF Pre, Keeps, Fields, Begun, TurnStays, Admitted
  <2>9. Mute(l)
    BY <1>3, <2>4, AlikeFacts
  <2>10. l.fact = w.fact
    BY <1>3, <2>4 DEF Keeps, Fields
  <2>11. Follows(l, "job")
    BY <1>15, <2>4, <2>10 DEF Follows
  <2>8. Pre(l, granted, "job")
    BY <2>3, <2>6, <2>7, <2>9, <2>11, PreLemma, MuteTale
  <2> QED BY <1>1, <1>15, <2>8 DEF l
<1> QED BY <1>1, <1>3, <1>9, <1>10, <1>11, <1>12, <1>13, <1>14, <1>15

LEMMA CleanupPre ==
    ASSUME IInv, NEW ok \in BOOLEAN, CleanupCompleted(ok)
    PROVE  Alive /\ \E s : Pre(s, granted, "job") /\ Reduce(s)
<1> DEFINE d == Done("cleanup")
           e == Emit(d, Fact("cleanup_completed"))
           x == [e EXCEPT !.phase = "exited", !.timers = {}, !.kind = "none", !.queue = {}]
           b == (w.kind # "none")
<1>1. /\ Alive /\ "cleanup" \in w.jobs
      /\ \/ Reduce(WorkerFailed(d, b))
         \/ Reduce(FinishFatal(d))
         \/ Reduce(x)
  BY DEF CleanupCompleted
<1>2. Sound(w) /\ Good(w) /\ (Admitted(w) => granted)
  BY <1>1, QuietFacts
<1>3. Typed(d) /\ Keeps(w, d, {"out", "jobs"}) /\ Mute(d) /\ d.jobs = w.jobs \ {"cleanup"} /\ Pre(d, granted, "job")
  BY <1>1, DoneFacts, DonePre
<1>4. w.phase = "cleaning" /\ w.pub # "terminal_pending_ack" /\ b \in BOOLEAN
  BY <1>1, <1>2 DEF Good
<1> HIDE DEF d, b
<1>5. Pre(WorkerFailed(d, b), granted, "job")
  <2>1. d.phase = "cleaning"
    BY <1>3, <1>4 DEF Keeps, Fields
  <2> QED BY <1>3, <1>4, <2>1, FailedPre
<1>6. Pre(FinishFatal(d), granted, "job")
  BY <1>3, FatalPre
<1>7. Pre(x, granted, "job")
  <2>1. Fact("cleanup_completed") \in Facts /\ Fact("cleanup_completed").type \notin Loud
    BY FactTypes DEF FactNames, Loud
  <2>2. Typed(e) /\ Keeps(d, e, {"out"}) /\ Alike(d, e)
    BY <1>3, <2>1, EmitFacts
  <2> HIDE DEF e
  <2>3. /\ Keeps(e, x, {"phase", "timers", "kind", "queue"})
        /\ x.phase = "exited" /\ x.timers = {} /\ x.kind = "none" /\ x.queue = {}
    BY <2>2 DEF Keeps, Typed, Fields
  <2> HIDE DEF x
  <2>4. Typed(x)
    BY <2>2, <2>3 DEF Keeps, Typed, Fields, Phases
  <2>5. x.threw = FALSE /\ x.pub = w.pub /\ x.turn = w.turn /\ x.accepted = w.accepted /\ x.jobs \subseteq w.jobs
    BY <1>2, <1>3, <2>2, <2>3 DEF Keeps, Fields, Sound
  <2>6. Mute(x)
    <3>1. x.out = e.out
      BY <2>3 DEF Keeps, Fields
    <3> QED BY <1>3, <2>2, <3>1, AlikeFacts
  <2>7. Follows(x, "job")
    <3>1. x.fact = w.fact
      BY <1>3, <2>2, <2>3 DEF Keeps, Fields
    <3> QED BY <2>3, <2>5, <3>1 DEF Follows
  <2> QED BY <1>2, <1>4, <2>3, <2>4, <2>5, <2>6, <2>7, PreExited, MuteTale
<1> QED BY <1>1, <1>5, <1>6, <1>7

-----------------------------------------------------------------------------
(* The specification *)

LEMMA InitHolds == Init => IInv
<1> SUFFICES ASSUME Init PROVE IInv
  OBVIOUS
<1>1. /\ DOMAIN w = Fields
      /\ w.phase = "init" /\ w.op = "none" /\ w.stage = "none" /\ w.turn = "none" /\ w.accepted = FALSE
      /\ w.pub = "none" /\ w.fact = "none" /\ w.after = "none" /\ w.kind = "none" /\ w.pi = FALSE
      /\ w.queue = {} /\ w.consumed = 0 /\ w.delivery = {} /\ w.tainted = FALSE /\ w.cred = "none"
      /\ w.base = FALSE /\ w.timers = {} /\ w.jobs = {} /\ w.out = <<>> /\ w.threw = FALSE
  BY DEF Init, InitialState, Fields
<1>2. 0 \in 0..MaxInput /\ <<>> \in Seq(Facts)
  BY MaxInputAssumption
<1>3. Typed(w)
  BY <1>1, <1>2 DEF Typed, Phases, Publications, Credentials
<1>4. Good(w)
  BY <1>1 DEF Good, Early
<1>5. Sound(w)
  BY <1>1, <1>3, <1>4 DEF Sound
<1>6. Hist
  BY <1>1 DEF Init, Hist, Begun, Admitted
<1>7. Env
  BY <1>2 DEF Init, Env
<1> QED BY <1>5, <1>6, <1>7 DEF IInv

\* An event of the kind e, on what the server has sent so far.
Happens(e) ==
    /\ Alive
    /\ arrived' \subseteq Inputs /\ payload' \in 0..MaxInput
    /\ overtaken' \in BOOLEAN /\ granted' \in BOOLEAN
    /\ \E v : v = w' /\ After(v, granted', e)

\* An event that leaves the server's side alone.
LEMMA OwnEvent ==
    ASSUME IInv, Alive, NEW e, \E s : Pre(s, granted, e) /\ Reduce(s), UNCHANGED env
    PROVE  Happens(e)
<1>1. PICK s : Pre(s, granted, e) /\ Reduce(s)
  OBVIOUS
<1>2. arrived' = arrived /\ payload' = payload /\ overtaken' = overtaken /\ granted' = granted
  BY DEF env
<1>3. /\ arrived' \subseteq Inputs /\ payload' \in 0..MaxInput
      /\ overtaken' \in BOOLEAN /\ granted' \in BOOLEAN
  BY <1>2 DEF IInv, Env
<1>4. Pre(s, granted', e)
  BY <1>1, <1>2
<1> QED BY <1>1, <1>3, <1>4, ReduceFacts DEF Happens

LEMMA StartHappens == ASSUME IInv, ReceiveStart PROVE Happens("other")
<1>1. Alive /\ \E s : Pre(s, granted, "other") /\ Reduce(s)
  BY StartPre
<1>2. PICK s : Pre(s, granted, "other") /\ Reduce(s)
  BY <1>1
<1>3. arrived' = arrived /\ overtaken' = overtaken /\ granted' = granted /\ payload' \in 0..MaxInput
  BY DEF ReceiveStart
<1>4. Pre(s, granted', "other")
  BY <1>2, <1>3
<1>5. arrived' \subseteq Inputs /\ overtaken' \in BOOLEAN /\ granted' \in BOOLEAN
  BY <1>3 DEF IInv, Env
<1> QED BY <1>1, <1>2, <1>3, <1>4, <1>5, ReduceFacts DEF Happens

LEMMA InputsHappen == ASSUME IInv, NEW S \in SUBSET Inputs, ReceiveInputs(S) PROVE Happens("other")
<1>1. Alive /\ \E s : Pre(s, granted, "other") /\ Reduce(s)
  BY InputsPre
<1>2. PICK s : Pre(s, granted, "other") /\ Reduce(s)
  BY <1>1
<1>3. /\ arrived' = arrived \cup S /\ overtaken' = (overtaken \/ Overtakes(S))
      /\ payload' = payload /\ granted' = granted
  BY DEF ReceiveInputs
<1>4. Pre(s, granted', "other")
  BY <1>2, <1>3
<1>5. arrived' \subseteq Inputs /\ payload' \in 0..MaxInput /\ granted' \in BOOLEAN
  BY <1>3 DEF IInv, Env
<1>6. overtaken' \in BOOLEAN
  BY <1>3
<1> QED BY <1>1, <1>2, <1>4, <1>5, <1>6, ReduceFacts DEF Happens

LEMMA AcceptedHappens == ASSUME IInv, ReceiveAccepted PROVE Happens("other")
<1>1. Alive /\ \E s : Pre(s, TRUE, "other") /\ Reduce(s)
  BY AcceptedPre
<1>2. PICK s : Pre(s, TRUE, "other") /\ Reduce(s)
  BY <1>1
<1>3. arrived' = arrived /\ payload' = payload /\ overtaken' = overtaken /\ granted' = TRUE
  BY DEF ReceiveAccepted
<1>4. Pre(s, granted', "other")
  BY <1>2, <1>3
<1>5. /\ arrived' \subseteq Inputs /\ payload' \in 0..MaxInput
      /\ overtaken' \in BOOLEAN /\ granted' \in BOOLEAN
  BY <1>3 DEF IInv, Env
<1> QED BY <1>1, <1>2, <1>4, <1>5, ReduceFacts DEF Happens

LEMMA JobHappens == ASSUME IInv, JobEnds PROVE Happens("job")
<1>1. ASSUME NEW kind \in Kinds, NEW resumed \in BOOLEAN, NEW refresh \in BOOLEAN,
             BootstrapSucceeded(kind, resumed, refresh)
      PROVE  Happens("job")
  <2>1. Alive /\ \E s : Pre(s, granted \/ resumed, "job") /\ Reduce(s)
    BY <1>1, BootstrappedPre
  <2>2. PICK s : Pre(s, granted \/ resumed, "job") /\ Reduce(s)
    BY <2>1
  <2>3. arrived' = arrived /\ payload' = payload /\ overtaken' = overtaken /\ granted' = (granted \/ resumed)
    BY <1>1 DEF BootstrapSucceeded
  <2>4. Pre(s, granted', "job")
    BY <2>2, <2>3
  <2>5. arrived' \subseteq Inputs /\ payload' \in 0..MaxInput /\ overtaken' \in BOOLEAN
    BY <2>3 DEF IInv, Env
  <2>6. granted' \in BOOLEAN
    BY <2>3
  <2> QED BY <2>1, <2>2, <2>4, <2>5, <2>6, ReduceFacts DEF Happens
<1>2. ASSUME UNCHANGED env,
             \/ BootstrapFailed \/ ActivationSucceeded
             \/ \E job \in {"activate", "turn"} : OperationFailed(job)
             \/ InputsDelivered \/ InputDeliveryFailed
             \/ \E result \in {"turn_outcome", "turn_failed", "parked"}, S \in SUBSET Targeted :
                   TurnCompleted(result, S)
             \/ \E ok \in BOOLEAN : SnapshotCompleted(ok)
             \/ \E changed \in BOOLEAN : CredentialSampled(changed)
             \/ CredentialSampleFailed
             \/ \E ok \in BOOLEAN : CleanupCompleted(ok)
      PROVE  Happens("job")
  <2> DEFINE P == Alive /\ \E s : Pre(s, granted, "job") /\ Reduce(s)
  <2>1. BootstrapFailed => P
    BY BootstrapFailedPre
  <2>2. ActivationSucceeded => P
    BY ActivatedPre
  <2>3. ASSUME NEW job \in {"activate", "turn"}, OperationFailed(job) PROVE P
    BY <2>3, OperationFailedPre
  <2>4. InputsDelivered \/ InputDeliveryFailed => P
    BY DeliveredPre
  <2>5. ASSUME NEW result \in {"turn_outcome", "turn_failed", "parked"}, NEW S \in SUBSET Targeted,
               TurnCompleted(result, S)
        PROVE  P
    BY <2>5, TurnCompletedPre
  <2>6. ASSUME NEW ok \in BOOLEAN, SnapshotCompleted(ok) PROVE P
    BY <2>6, SnapshotPre
  <2>7. (\E changed \in BOOLEAN : CredentialSampled(changed)) \/ CredentialSampleFailed => P
    BY SampledPre
  <2>8. ASSUME NEW ok \in BOOLEAN, CleanupCompleted(ok) PROVE P
    BY <2>8, CleanupPre
  <2> HIDE DEF P
  <2>9. P
    BY <1>2, <2>1, <2>2, <2>3, <2>4, <2>5, <2>6, <2>7, <2>8
  <2> QED BY <1>2, <2>9, OwnEvent DEF P
<1> QED BY <1>1, <1>2 DEF JobEnds

LEMMA LocalHappens == ASSUME IInv, Local PROVE Happens("other")
<1>1. UNCHANGED env
  BY DEF Local
<1> DEFINE P == Alive /\ \E s : Pre(s, granted, "other") /\ Reduce(s)
<1>2. RuntimeStarted => P
  BY StartedPre
<1>3. TransportConnected => P
  BY ConnectedPre
<1>4. TransportFailed => P
  BY TransportFailedPre
<1>5. StopRequested => P
  BY StopPre
<1>6. SessionTainted => P
  BY TaintedPre
<1>7. ASSUME NEW t \in Timers, TimerFired(t) PROVE P
  BY <1>7, TimerPre
<1> HIDE DEF P
<1>8. P
  BY <1>2, <1>3, <1>4, <1>5, <1>6, <1>7 DEF Local
<1> QED BY <1>1, <1>8, OwnEvent DEF P

LEMMA HappensStep == ASSUME IInv, NEW e, Happens(e), Observe PROVE IInv'
<1>1. PICK v : v = w' /\ After(v, granted', e)
  BY DEF Happens
<1> QED BY <1>1, StepLemma DEF Happens

LEMMA NextStep == ASSUME IInv, Next PROVE IInv'
<1>1. Observe /\ (FromServer \/ JobEnds \/ Local)
  BY DEF Next
<1>2. CASE FromServer
  <2>1. CASE ReceiveStart
    BY <1>1, <2>1, StartHappens, HappensStep
  <2>2. ASSUME NEW S \in SUBSET Inputs, ReceiveInputs(S) PROVE IInv'
    BY <1>1, <2>2, InputsHappen, HappensStep
  <2>3. CASE ReceiveAccepted
    BY <1>1, <2>3, AcceptedHappens, HappensStep
  <2>4. CASE ReceiveRecorded /\ UNCHANGED env
    <3>1. Happens("recorded")
      BY <2>4, RecordedPre, OwnEvent
    <3> QED BY <1>1, <3>1, HappensStep
  <2>5. ASSUME NEW ok \in BOOLEAN, ReceiveCredential(ok), UNCHANGED env PROVE IInv'
    <3>1. Happens("other")
      BY <2>5, CredentialPre, OwnEvent
    <3> QED BY <1>1, <3>1, HappensStep
  <2> QED BY <1>2, <2>1, <2>2, <2>3, <2>4, <2>5 DEF FromServer
<1>3. CASE JobEnds
  BY <1>1, <1>3, JobHappens, HappensStep
<1>4. CASE Local
  BY <1>1, <1>4, LocalHappens, HappensStep
<1> QED BY <1>1, <1>2, <1>3, <1>4

LEMMA Stutter == ASSUME IInv, UNCHANGED vars PROVE IInv'
<1>1. /\ w' = w /\ arrived' = arrived /\ payload' = payload /\ overtaken' = overtaken
      /\ granted' = granted /\ ran' = ran /\ owed' = owed
  BY DEF vars
<1>2. Sound(w)'
  BY <1>1 DEF IInv
<1>3. Env'
  BY <1>1 DEF IInv, Env
<1>4. Hist'
  BY <1>1 DEF IInv, Hist, Alive
<1> QED BY <1>2, <1>3, <1>4 DEF IInv

LEMMA IInvImplies == IInv => ReducerInvariant
<1> SUFFICES ASSUME IInv PROVE ReducerInvariant
  OBVIOUS
<1>1. Typed(w) /\ w.threw = FALSE /\ Env /\ Hist /\ Sound(w)
  BY DEF IInv, Sound
<1>2. ran = IF Begun(w) THEN 1 ELSE 0
  BY <1>1 DEF Hist
<1>3. TypeOK
  BY <1>1, <1>2 DEF TypeOK, Typed, Env
<1>4. ExecutesOnceAccepted
  <2>1. ran <= 1 /\ (ran = 1 => Begun(w))
    BY <1>2
  <2>2. Begun(w) => granted
    BY <1>1 DEF Hist, Begun, Admitted
  <2> QED BY <2>1, <2>2 DEF ExecutesOnceAccepted
<1>5. OutcomeIsRetained
  BY <1>1 DEF OutcomeIsRetained, Hist, Sound, Good, Alive
<1>6. CleanupComesLast
  BY <1>1 DEF CleanupComesLast, Sound, Good
<1>7. NeverThrows
  BY <1>1 DEF NeverThrows
<1> QED BY <1>3, <1>4, <1>5, <1>6, <1>7 DEF ReducerInvariant

\* For any inputs, session kinds and order of events the reducer's state is
\* well formed, beginSnapshot never throws, the turn is executed at most once
\* and only after its start was accepted, an unacknowledged outcome is held
\* with its retry armed, and cleanup has nothing left to wait for.
THEOREM ReducerIsSafe == Spec => []ReducerInvariant
<1>1. IInv /\ [Next]_vars => IInv'
  BY NextStep, Stutter
<1> QED BY InitHolds, IInvImplies, <1>1, PTL DEF Spec

-----------------------------------------------------------------------------
(* Inputs are reported in their order *)

LEMMA GreatestInput == ASSUME NEW T, T \subseteq Inputs, T # {} PROVE \E x \in T : \A y \in T : x >= y
<1> DEFINE U == {MaxInput - x : x \in T}
<1>1. (\A x \in T : x \in Nat /\ x <= MaxInput /\ MaxInput - x \in Nat) /\ MaxInput \in Nat
  BY MaxInputAssumption DEF Inputs
<1>2. U \subseteq Nat /\ U # {}
  BY <1>1
<1>3. PICK u \in U : \A y \in U : u <= y
  BY <1>2, LeastNat
<1>4. PICK x \in T : u = MaxInput - x
  BY <1>3
<1>5. ASSUME NEW y \in T PROVE x >= y
  <2>1. u <= MaxInput - y
    BY <1>3, <1>5
  <2>2. x \in Nat /\ y \in Nat /\ MaxInput \in Nat
    BY <1>1, <1>4, <1>5
  <2> HIDE DEF U
  <2> QED BY <1>4, <2>1, <2>2
<1> QED BY <1>5

\* The facts for a set of inputs name each of them, from the first to the last.
LEMMA ConsumedOrder ==
    ASSUME NEW S \in SUBSET Inputs
    PROVE  LET c == ConsumedFacts(S)
           IN  \A n \in 1..Len(c) : c[n].seq \in S /\ \A m \in 1..Len(c) : m < n => c[m].seq < c[n].seq
<1> DEFINE R(i) == {j \in S : j <= i}
           rank(i) == Cardinality(R(i))
           c == ConsumedFacts(S)
<1>1. S \subseteq Nat /\ \A i \in S : i \in Nat
  BY DEF Inputs
<1>2. IsFiniteSet(S)
  <2>1. IsFiniteSet(Inputs)
    BY FS_Interval, MaxInputAssumption DEF Inputs
  <2> QED BY <2>1, FS_Subset
<1>3. \A T \in SUBSET S : IsFiniteSet(T) /\ Cardinality(T) \in Nat
  BY <1>2, FS_Subset, FS_CardinalityType
<1>4. ASSUME NEW i \in S
      PROVE  /\ {j \in S : j < i} \in SUBSET S /\ R(i) \in SUBSET S
             /\ rank(i) = Cardinality({j \in S : j < i}) + 1
  <2> DEFINE U == {j \in S : j < i}
  <2>1. R(i) = U \cup {i} /\ i \notin U /\ U \in SUBSET S
    <3>1. \A j \in S : j <= i <=> j < i \/ j = i
      BY <1>1, <1>4
    <3>2. ~(i < i)
      BY <1>1, <1>4
    <3> QED BY <1>4, <3>1, <3>2
  <2>2. IsFiniteSet(U)
    BY <1>3, <2>1
  <2> HIDE DEF U
  <2>3. Cardinality(U \cup {i}) = Cardinality(U) + 1
    BY <2>1, <2>2, FS_AddElement
  <2>4. rank(i) = Cardinality(U) + 1
    BY <2>1, <2>3
  <2> QED BY <2>1, <2>4 DEF U
<1>5. ASSUME NEW i \in S, NEW j \in S, i < j PROVE rank(i) < rank(j)
  <2> DEFINE U == {k \in S : k < j}
  <2>1. R(i) \subseteq U /\ U \in SUBSET S /\ rank(j) = Cardinality(U) + 1
    <3>1. \A k \in S : k <= i => k < j
      BY <1>1, <1>5
    <3>2. R(i) \subseteq U
      BY <3>1
    <3>3. rank(j) = Cardinality(U) + 1
      BY <1>4
    <3> QED BY <3>2, <3>3
  <2>2. rank(i) <= Cardinality(U) /\ Cardinality(U) \in Nat /\ rank(i) \in Nat
    <3>1. R(i) \in SUBSET S
      OBVIOUS
    <3> HIDE DEF U, R
    <3> QED BY <1>3, <2>1, <3>1, FS_Subset
  <2> HIDE DEF U, rank
  <2> QED BY <2>1, <2>2
<1>6. ASSUME NEW n \in 1..Cardinality(S) PROVE \E i \in S : rank(i) = n
  <2> DEFINE T == {i \in S : rank(i) >= n}
  <2>1. Cardinality(S) \in Nat /\ S # {}
    BY <1>3, <1>6, FS_EmptySet
  <2>2. PICK g \in S : \A y \in S : g >= y
    BY <2>1, GreatestInput
  <2>3. R(g) = S
    BY <1>1, <2>2
  <2>4. g \in T
    BY <2>1, <2>3
  <2>5. PICK i \in T : \A y \in T : i <= y
    BY <1>1, <2>4, LeastNat
  <2> DEFINE U == {j \in S : j < i}
  <2>6. U \in SUBSET S /\ Cardinality(U) \in Nat /\ rank(i) = Cardinality(U) + 1 /\ rank(i) >= n
    BY <1>3, <1>4, <2>5
  <2>7. Cardinality(U) < n
    <3>1. CASE U = {}
      BY <1>6, <3>1, FS_EmptySet
    <3>2. CASE U # {}
      <4>1. PICK k \in U : \A y \in U : k >= y
        BY <3>2, GreatestInput
      <4>2. R(k) = U /\ k \in S /\ k < i
        <5>1. k \in S /\ k < i /\ i \in S
          BY <4>1, <2>5
        <5>2. \A j \in S : j <= k => j < i
          BY <1>1, <5>1
        <5>3. \A j \in S : j < i => j <= k
          BY <1>1, <4>1, <5>1
        <5>4. \A j : j \in R(k) <=> j \in U
          BY <5>2, <5>3
        <5>5. R(k) = U
          BY <5>4
        <5> QED BY <5>1, <5>5
      <4>3. k \notin T
        BY <1>1, <2>5, <4>2
      <4>4. ~(Cardinality(U) >= n)
        BY <4>2, <4>3
      <4> HIDE DEF U
      <4> QED BY <2>6, <4>4
    <3> QED BY <3>1, <3>2
  <2> HIDE DEF U, rank
  <2> QED BY <2>5, <2>6, <2>7
<1>7. /\ Len(c) = Cardinality(S) /\ DOMAIN c = 1..Cardinality(S)
      /\ \A n \in 1..Cardinality(S) : c[n].seq = CHOOSE i \in S : Cardinality({j \in S : j <= i}) = n
  <2>1. DOMAIN c = 1..Cardinality(S) /\ Cardinality(S) \in Nat
    BY <1>3 DEF ConsumedFacts
  <2>2. c \in Seq(Facts)
    BY ConsumedType
  <2>3. \A n \in 1..Cardinality(S) : c[n].seq = CHOOSE i \in S : Cardinality({j \in S : j <= i}) = n
    BY DEF ConsumedFacts
  <2> HIDE DEF c
  <2>4. Len(c) = Cardinality(S)
    BY <2>1, <2>2
  <2> QED BY <2>1, <2>3, <2>4
<1>8. \A n \in 1..Cardinality(S) : c[n].seq \in S /\ rank(c[n].seq) = n
  BY <1>6, <1>7
<1> HIDE DEF c, rank
<1>9. ASSUME NEW n \in 1..Len(c), NEW m \in 1..Len(c), m < n PROVE c[m].seq < c[n].seq
  <2>1. /\ c[m].seq \in S /\ c[n].seq \in S /\ rank(c[m].seq) = m /\ rank(c[n].seq) = n
    BY <1>7, <1>8
  <2>2. ~(c[n].seq < c[m].seq)
    <3>1. c[n].seq < c[m].seq => rank(c[n].seq) < rank(c[m].seq)
      BY <1>5, <2>1
    <3>2. ~(n < m)
      BY <1>9
    <3> QED BY <2>1, <3>1, <3>2
  <2>3. c[n].seq # c[m].seq
    BY <1>9, <2>1
  <2>4. c[m].seq \in Int /\ c[n].seq \in Int
    <3>1. \A i \in S : i \in Int
      BY <1>1
    <3>2. c[m].seq \in S /\ c[n].seq \in S
      BY <2>1, Zenon
    <3> QED BY <3>1, <3>2, Zenon
  <2> DEFINE x == c[m].seq
             y == c[n].seq
  <2>5. x \in Int /\ y \in Int /\ ~(y < x) /\ y # x
    BY <2>2, <2>3, <2>4
  <2> HIDE DEF x, y
  <2>6. x < y
    BY <2>5
  <2> QED BY <2>6 DEF x, y
<1>10. \A n \in 1..Len(c) : c[n].seq \in S
  BY <1>7, <1>8
<1>11. \A n \in 1..Len(c) : \A m \in 1..Len(c) : m < n => c[m].seq < c[n].seq
  BY <1>9
<1> QED BY <1>10, <1>11, Zenon DEF c

-----------------------------------------------------------------------------
(* Inputs flow, and the way out is open *)

\* A publication that waits for its snapshot.
Taking == {"ready_snapshot", "terminal_snapshot", "cleanup_snapshot", "fatal_snapshot"}

\* What the worker waits for is under way; o says whether a batch was overtaken.
Way(s, o) ==
    /\ s.pub \in Taking => "snapshot" \in s.jobs
    /\ s.pub = "fatal_snapshot" => s.after # "none"
    /\ s.pub = "fatal_pending_cleanup" => "cleanup" \in s.jobs /\ s.phase = "cleaning"
    /\ s.phase = "bootstrapping" \/ (s.phase = "draining" /\ s.op = "bootstrap") =>
         "bootstrap" \in s.jobs \/ s.pub = "fatal_snapshot"
    /\ "bootstrap" \in s.jobs => s.phase = "bootstrapping" \/ (s.phase = "draining" /\ s.op = "bootstrap")
    /\ s.phase = "cleaning" => "cleanup" \in s.jobs \/ s.pub \in {"cleanup_snapshot", "fatal_snapshot"}
    /\ ~o /\ s.delivery # {} => "deliver" \in s.jobs

\* S is the beginning of the queue Q.
Heads(S, Q) == S \subseteq Q /\ \A i \in Q, d \in S : i < d => i \in S

\* The inputs known to the worker, a from batches and the rest from its start, are
\* an initial segment of all.  The queue is what is not consumed of them, and a
\* delivery is the beginning of the queue.
Known(a, p) == a \cup 1..p
Queued(s, a, p) ==
    /\ s.queue \subseteq Known(a, p) /\ \A i \in s.queue : i > s.consumed
    /\ s.kind # "none" \/ "bootstrap" \in s.jobs =>
         \A i \in Known(a, p), j \in Inputs : j < i => j \in Known(a, p)
    /\ s.kind # "none" => \A i \in Known(a, p) : i > s.consumed => i \in s.queue
    /\ "bootstrap" \in s.jobs => s.kind = "none" /\ \A i \in a : i > p /\ i > s.consumed => i \in s.queue
    /\ s.kind = "none" => s.delivery = {} /\ s.pi = FALSE
    /\ Heads(s.delivery, s.queue) /\ s.delivery \cap Targeted = {}
    /\ s.phase \in {"init", "waiting_for_start"} => s.queue = {} /\ s.kind = "none"

\* The inputs reported in q come after c, in order, and not after h.
Tells(q, c, h) ==
    \A n \in Consumptions(q) :
      /\ q[n].seq \in Inputs /\ c < q[n].seq /\ q[n].seq <= h
      /\ \A m \in Consumptions(q) : m < n => q[m].seq < q[n].seq

Fit(s, o, a, p) == s.phase # "exited" => Way(s, o) /\ (~o => Queued(s, a, p))

\* A state that an event leaves to advance, in the terms of this part.
Ready(s, o, a, p) ==
    /\ Typed(s) /\ Fit(s, o, a, p)
    /\ ~o => Tells(s.out, w.consumed, s.consumed) /\ w.consumed <= s.consumed

Told ==
    /\ \A i \in told : i \in Inputs /\ i <= w.consumed
    /\ \A n \in Consumptions(w.out) :
         /\ w.out[n].seq \in Inputs /\ w.out[n].seq <= w.consumed
         /\ \A i \in told : i < w.out[n].seq
         /\ \A m \in Consumptions(w.out) : m < n => w.out[m].seq < w.out[n].seq

FInv ==
    /\ IInv
    /\ Fit(w, overtaken, arrived, payload)
    /\ Alive => ~NoActiveWork(w)
    /\ told \subseteq Inputs /\ \A n \in Consumptions(w.out) : w.out[n].seq \in Inputs
    /\ ~overtaken => Told

\* The step reports no input, and t reports no more than s.
Hush(s) == \A c, h : Tells(s.out, c, h)
Still(s, t) == \A c, h : Tells(s.out, c, h) => Tells(t.out, c, h)

LEMMA StillFacts ==
    /\ \A s, t : t.out = s.out => Still(s, t)
    /\ \A r, s, t : Still(r, s) /\ Still(s, t) => Still(r, t)
    /\ \A s, t : Hush(s) /\ Still(s, t) => Hush(t)
    /\ \A s : s.out = <<>> => Hush(s)
<1>1. \A s, t : t.out = s.out => Still(s, t)
  BY DEF Still
<1>2. \A r, s, t : Still(r, s) /\ Still(s, t) => Still(r, t)
  BY DEF Still
<1>3. \A s, t : Hush(s) /\ Still(s, t) => Hush(t)
  BY DEF Still, Hush
<1>4. \A s : s.out = <<>> => Hush(s)
  BY DEF Hush, Tells, Consumptions
<1> QED BY <1>1, <1>2, <1>3, <1>4

\* An appended fact that reports no input.
LEMMA EmitTells ==
    ASSUME NEW s, Typed(s), NEW f \in Facts, f.type # "input_consumed"
    PROVE  Still(s, Emit(s, f))
<1> DEFINE t == Emit(s, f)
<1>2. t.out = Append(s.out, f) /\ s.out \in Seq(Facts)
  BY DEF Emit, Typed, Fields
<1> HIDE DEF t
<1>3. /\ Len(s.out) \in Nat /\ Len(t.out) = Len(s.out) + 1 /\ t.out[Len(s.out) + 1] = f
      /\ \A n \in 1..Len(s.out) : t.out[n] = s.out[n]
  BY <1>2
<1>4. \A n \in 1..Len(t.out) : n \in 1..Len(s.out) \/ n = Len(s.out) + 1
  BY <1>3
<1>5. \A n \in Consumptions(t.out) : n \in Consumptions(s.out) /\ t.out[n] = s.out[n]
  BY <1>3, <1>4 DEF Consumptions
<1>6. \A c, h : Tells(s.out, c, h) => Tells(t.out, c, h)
  BY <1>5 DEF Tells
<1> QED BY <1>6 DEF t, Still

\* The beginning of a queue is reported and leaves it.
LEMMA ConsumeTells ==
    ASSUME NEW s, Typed(s), NEW S \in SUBSET Inputs, Heads(S, s.queue),
           \A i \in s.queue : i > s.consumed
    PROVE  LET t == Consume(s, S)
           IN  /\ Typed(t) /\ Keeps(s, t, {"queue", "consumed", "out"}) /\ t.queue = s.queue \ S
               /\ s.consumed <= t.consumed /\ \A i \in S : i <= t.consumed
               /\ \A i \in t.queue : i > t.consumed
               /\ \A c : c <= s.consumed /\ c \in Nat /\ Tells(s.out, c, s.consumed)
                           => Tells(t.out, c, t.consumed)
<1> DEFINE t == Consume(s, S)
           f == ConsumedFacts(S)
           T == S \cup {s.consumed}
           m == Max(T)
<1>1. Typed(t) /\ Keeps(s, t, {"queue", "consumed", "out"}) /\ t.queue = s.queue \ S
  BY ConsumeFacts
<1>2. s.consumed \in 0..MaxInput /\ s.out \in Seq(Facts) /\ s.queue \subseteq Inputs /\ "consumed" \in DOMAIN s /\ "out" \in DOMAIN s
  BY DEF Typed, Fields
<1>3. t.consumed = m /\ t.out = s.out \o f
  BY <1>2 DEF Consume, Typed, Fields
<1>4. f \in Seq(Facts) /\ \A n \in 1..Len(f) : f[n].type = "input_consumed"
  BY ConsumedType
<1>5. \A n \in 1..Len(f) : f[n].seq \in S /\ \A k \in 1..Len(f) : k < n => f[k].seq < f[n].seq
  BY ConsumedOrder
<1>6. m \in T /\ \A i \in T : i <= m
  <2>1. \E x \in T : \A y \in T : x >= y
    <3>1. CASE S = {}
      BY <1>2, <3>1
    <3>2. CASE S # {}
      <4>1. PICK x \in S : \A y \in S : x >= y
        BY <3>2, GreatestInput
      <4>2. x > s.consumed /\ x \in Nat /\ s.consumed \in Nat
        BY <1>2, <4>1 DEF Heads, Inputs
      <4>3. ASSUME NEW y \in T PROVE x >= y
        <5>1. CASE y \in S
          BY <4>1, <5>1
        <5>2. CASE y = s.consumed
          <6> DEFINE b == s.consumed
          <6>1. x > b /\ x \in Nat /\ b \in Nat
            BY <4>2
          <6> HIDE DEF b
          <6>2. x >= b
            BY <6>1
          <6> QED BY <5>2, <6>2 DEF b
        <5> QED BY <4>3, <5>1, <5>2
      <4> QED BY <4>1, <4>3
    <3> QED BY <3>1, <3>2
  <2>2. \A y \in T : y \in Int
    BY <1>2 DEF Inputs
  <2> HIDE DEF T
  <2>3. m \in T /\ \A y \in T : m >= y
    BY <2>1, Zenon DEF Max
  <2> QED BY <2>2, <2>3
<1> HIDE DEF m, t, f
<1>7. s.consumed <= t.consumed /\ \A i \in S : i <= t.consumed
  BY <1>3, <1>6
<1>8. ASSUME NEW i \in t.queue PROVE i > t.consumed
  <2>1. i \in s.queue /\ i \notin S /\ i > s.consumed /\ i \in Int
    BY <1>1, <1>2, <1>8 DEF Inputs
  <2>2. CASE m = s.consumed
    BY <1>3, <2>1, <2>2
  <2>3. CASE m \in S
    <3>1. ~(i < m) /\ i # m /\ m \in Int
      BY <2>1, <2>3 DEF Heads, Inputs
    <3> QED BY <1>3, <2>1, <3>1
  <2> QED BY <1>6, <2>2, <2>3
<1>9. ASSUME NEW c \in Nat, c <= s.consumed, Tells(s.out, c, s.consumed)
      PROVE  Tells(t.out, c, t.consumed)
  <2> DEFINE o == s.out
  <2>1. /\ Len(t.out) = Len(o) + Len(f) /\ Len(o) \in Nat /\ Len(f) \in Nat
        /\ \A n \in 1..Len(o) : t.out[n] = o[n]
        /\ \A n \in 1..Len(f) : t.out[Len(o) + n] = f[n]
    BY <1>2, <1>3, <1>4
  <2>2. \A n \in 1..Len(t.out) : n \in 1..Len(o) \/ (n - Len(o) \in 1..Len(f) /\ Len(o) + (n - Len(o)) = n)
    BY <2>1
  <2>3. ASSUME NEW n \in Consumptions(t.out)
        PROVE  \/ n \in Consumptions(o) /\ t.out[n] = o[n] /\ n <= Len(o)
               \/ n - Len(o) \in 1..Len(f) /\ t.out[n] = f[n - Len(o)] /\ n > Len(o) /\ n \in Int
    <3>1. n \in 1..Len(t.out) /\ t.out[n].type = "input_consumed" /\ n \in Int
      BY <2>1, <2>3 DEF Consumptions
    <3>2. CASE n \in 1..Len(o)
      BY <2>1, <3>1, <3>2 DEF Consumptions
    <3>3. CASE n \notin 1..Len(o)
      <4>1. n - Len(o) \in 1..Len(f) /\ Len(o) + (n - Len(o)) = n
        BY <2>2, <3>1, <3>3
      <4>2. t.out[Len(o) + (n - Len(o))] = f[n - Len(o)]
        BY <2>1, <4>1
      <4>3. n > Len(o)
        BY <2>1, <3>1, <3>3
      <4> QED BY <3>1, <4>1, <4>2, <4>3
    <3> QED BY <3>2, <3>3
  <2>4. \A n \in Consumptions(o) : o[n].seq \in Inputs /\ c < o[n].seq /\ o[n].seq <= s.consumed
    BY <1>9 DEF Tells
  <2>5. \A n \in 1..Len(f) : f[n].seq \in Inputs /\ s.consumed < f[n].seq /\ f[n].seq <= t.consumed
    BY <1>2, <1>5, <1>7 DEF Heads, Inputs
  <2>6. /\ s.consumed \in Int /\ t.consumed \in Int /\ s.consumed <= t.consumed
        /\ \A i \in Inputs : i \in Int
    BY <1>1, <1>2, <1>7 DEF Typed, Inputs
  <2> HIDE DEF o
  <2>7. ASSUME NEW n \in Consumptions(t.out)
        PROVE  t.out[n].seq \in Inputs /\ c < t.out[n].seq /\ t.out[n].seq <= t.consumed
    <3>1. CASE n \in Consumptions(o) /\ t.out[n] = o[n]
      BY <2>4, <2>6, <3>1
    <3>2. CASE n - Len(o) \in 1..Len(f) /\ t.out[n] = f[n - Len(o)]
      BY <1>9, <2>5, <2>6, <3>2
    <3> QED BY <2>3, <3>1, <3>2
  <2>8. ASSUME NEW n \in Consumptions(t.out), NEW k \in Consumptions(t.out), k < n
        PROVE  t.out[k].seq < t.out[n].seq
    <3>1. CASE n \in Consumptions(o) /\ t.out[n] = o[n] /\ n <= Len(o)
      <4>1. k \in Consumptions(o) /\ t.out[k] = o[k]
        BY <2>1, <2>3, <2>8, <3>1 DEF Consumptions
      <4> QED BY <1>9, <2>8, <3>1, <4>1 DEF Tells, o
    <3>2. CASE n - Len(o) \in 1..Len(f) /\ t.out[n] = f[n - Len(o)] /\ n \in Int
      <4>1. CASE k \in Consumptions(o) /\ t.out[k] = o[k]
        BY <2>4, <2>5, <2>6, <3>2, <4>1
      <4>2. CASE k - Len(o) \in 1..Len(f) /\ t.out[k] = f[k - Len(o)] /\ k \in Int
        <5>1. k - Len(o) < n - Len(o)
          BY <2>1, <2>8, <3>2, <4>2
        <5> QED BY <1>5, <3>2, <4>2, <5>1
      <4> QED BY <2>3, <2>8, <4>1, <4>2
    <3> QED BY <2>3, <3>1, <3>2
  <2> QED BY <2>7, <2>8 DEF Tells
<1> QED BY <1>1, <1>7, <1>8, <1>9 DEF t

\* An input that is reported is an input.
LEMMA ReportedInputs ==
    ASSUME NEW s, Typed(s), NEW n \in Consumptions(s.out)
    PROVE  s.out[n].seq \in Inputs
<1>1. s.out[n] \in Facts /\ s.out[n].type = "input_consumed"
  BY DEF Typed, Consumptions
<1>2. \A x : x \in [type : FactNames] => x.type # "input_consumed"
  BY DEF FactNames
<1>3. PICK S \in SUBSET Inputs : \E k \in 1..Cardinality(S) : s.out[n] = ConsumedFacts(S)[k]
  BY <1>1, <1>2 DEF Facts
<1>4. PICK k \in 1..Cardinality(S) : s.out[n] = ConsumedFacts(S)[k]
  BY <1>3
<1> DEFINE c == ConsumedFacts(S)
<1>5. c \in Seq(Facts) /\ DOMAIN c = 1..Cardinality(S)
  BY ConsumedType DEF ConsumedFacts
<1>6. \A i \in 1..Len(c) : c[i].seq \in S
  BY ConsumedOrder
<1>7. s.out[n] = c[k]
  BY <1>4
<1> HIDE DEF c
<1>8. DOMAIN c = 1..Len(c)
  BY <1>5
<1>9. k \in 1..Len(c)
  BY <1>5, <1>8
<1> QED BY <1>6, <1>7, <1>9

\* What the inputs have to do with is left alone.
LEMMA QueuedKept ==
    ASSUME NEW s, NEW t, NEW a, NEW p, Queued(s, a, p), t.kind = s.kind, t.pi = s.pi, t.queue = s.queue,
           t.consumed = s.consumed, t.delivery = s.delivery,
           "bootstrap" \in t.jobs => "bootstrap" \in s.jobs,
           t.phase \in {"init", "waiting_for_start"} => s.phase \in {"init", "waiting_for_start"}
    PROVE  Queued(t, a, p)
BY DEF Queued

LEMMA FitKept ==
    ASSUME NEW s, NEW t, NEW o, NEW a, NEW p, Fit(s, o, a, p),
           Keeps(s, t, {"stage", "turn", "accepted", "fact", "tainted", "cred", "base", "timers", "jobs", "out"}),
           {"snapshot", "cleanup", "deliver"} \cap s.jobs \subseteq t.jobs,
           "bootstrap" \in t.jobs <=> "bootstrap" \in s.jobs
    PROVE  Fit(t, o, a, p)
<1>1. /\ t.kind = s.kind /\ t.pi = s.pi /\ t.queue = s.queue /\ t.consumed = s.consumed
      /\ t.delivery = s.delivery /\ t.phase = s.phase /\ t.op = s.op /\ t.pub = s.pub /\ t.after = s.after
  BY DEF Keeps, Fields
<1>2. Way(s, o) => Way(t, o)
  BY <1>1 DEF Way, Taking
<1>3. Queued(s, a, p) => Queued(t, a, p)
  BY <1>1, QueuedKept
<1> QED BY <1>1, <1>2, <1>3 DEF Fit

LEMMA FinishReadyingReady ==
    ASSUME NEW s, NEW o, NEW a, NEW p, Ready(s, o, a, p)
    PROVE  Ready(FinishReadying(s), o, a, p)
<1> DEFINE t == FinishReadying(s)
           idle == s.phase # "readying" \/ s.cred = "sampling" \/ s.pub # "none"
<1>1. CASE idle
  BY <1>1 DEF FinishReadying
<1>2. CASE ~idle /\ s.accepted
  <2>1. /\ Typed(t) /\ Keeps(s, t, {"phase", "timers", "jobs"})
        /\ t.phase = "activating" /\ t.jobs = s.jobs \cup {"activate"}
    BY <1>2, ActivationFacts DEF FinishReadying, Ready
  <2>2. s.phase = "readying" /\ s.pub = "none"
    BY <1>2
  <2> HIDE DEF t, idle
  <2>3. /\ t.kind = s.kind /\ t.pi = s.pi /\ t.queue = s.queue /\ t.consumed = s.consumed
        /\ t.delivery = s.delivery /\ t.pub = s.pub /\ t.out = s.out
    BY <2>1 DEF Keeps, Fields
  <2>4. Way(t, o)
    BY <2>1, <2>2, <2>3 DEF Ready, Fit, Way, Taking
  <2>5. ~o => Queued(t, a, p)
    BY <2>1, <2>2, <2>3, QueuedKept DEF Ready, Fit
  <2> QED BY <2>1, <2>3, <2>4, <2>5 DEF Ready, Fit, t
<1>3. CASE ~idle /\ ~s.accepted
  <2> DEFINE r == [s EXCEPT !.phase = "waiting_for_acceptance"]
             q == Emit(r, Fact("turn_started"))
  <2>1. t = Arm(q, "acceptance_retry")
    BY <1>3 DEF FinishReadying
  <2>2. s.phase = "readying" /\ s.pub = "none"
    BY <1>3
  <2>3. Typed(r) /\ Keeps(s, r, {"phase"}) /\ r.phase = "waiting_for_acceptance"
    BY DEF Ready, Typed, Keeps, Fields, Phases
  <2> HIDE DEF r
  <2>4. Fact("turn_started") \in Facts /\ Fact("turn_started").type # "input_consumed"
    BY FactTypes DEF FactNames
  <2>5. Typed(q) /\ Keeps(r, q, {"out"})
    BY <2>3, <2>4, EmitFacts
  <2>6. Still(r, q)
    BY <2>3, <2>4, EmitTells
  <2> HIDE DEF q
  <2>7. Typed(t) /\ Keeps(q, t, {"timers"})
    BY <2>1, <2>5, ArmFacts DEF Timers
  <2> HIDE DEF t, idle
  <2>8. /\ t.kind = s.kind /\ t.pi = s.pi /\ t.queue = s.queue /\ t.consumed = s.consumed
        /\ t.delivery = s.delivery /\ t.pub = s.pub /\ t.out = q.out /\ r.out = s.out
        /\ t.phase = "waiting_for_acceptance" /\ t.jobs = s.jobs
    BY <2>3, <2>5, <2>7 DEF Keeps, Fields
  <2>9. Way(t, o)
    BY <2>2, <2>8 DEF Ready, Fit, Way, Taking
  <2>10. ~o => Queued(t, a, p)
    BY <2>2, <2>8, QueuedKept DEF Ready, Fit
  <2> QED BY <2>6, <2>7, <2>8, <2>9, <2>10 DEF Ready, Fit, Still, t
<1> QED BY <1>1, <1>2, <1>3

LEMMA BeginCleaningReady ==
    ASSUME NEW s, NEW o, NEW a, NEW p, Ready(s, o, a, p), NoActiveWork(s)
    PROVE  Ready(BeginCleaning(s), o, a, p) /\ BeginCleaning(s).phase = "cleaning"
<1> DEFINE t == BeginCleaning(s)
           up == Uploads(s, "before_cleanup_completed")
           r == [s EXCEPT !.phase = "cleaning"]
           b == [r EXCEPT !.stage = "publication"]
           q == [r EXCEPT !.stage = "resources"]
<1>1. /\ Keeps(s, b, {"phase", "stage"}) /\ b.phase = "cleaning" /\ b.stage = "publication"
      /\ Keeps(s, q, {"phase", "stage"}) /\ q.phase = "cleaning" /\ q.stage = "resources"
  BY DEF Ready, Typed, Keeps, Fields
<1>2. t = IF up THEN BeginSnapshot(b, "cleanup_snapshot") ELSE Launch(q, "cleanup")
  BY DEF BeginCleaning
<1>3. s.phase = "draining" /\ s.op = "none" /\ s.delivery = {} /\ s.pub = "none"
  BY DEF NoActiveWork
<1> HIDE DEF b, q, up
<1>4. Typed(b) /\ Typed(q) /\ b.pub = "none"
  BY <1>1, <1>3 DEF Ready, Typed, Keeps, Fields, Phases
<1>5. /\ Typed(t) /\ Keeps(s, t, {"phase", "stage", "pub", "jobs"}) /\ t.phase = "cleaning"
      /\ \/ t.pub = "cleanup_snapshot" /\ t.jobs = s.jobs \cup {"snapshot"}
         \/ t.pub = "none" /\ t.jobs = s.jobs \cup {"cleanup"}
  <2>1. CASE up
    <3>1. /\ Typed(t) /\ Keeps(b, t, {"pub", "jobs"})
          /\ t.pub = "cleanup_snapshot" /\ t.jobs = b.jobs \cup {"snapshot"}
      BY <1>2, <1>4, <2>1, SnapshotFacts DEF Publications
    <3> HIDE DEF t
    <3> QED BY <1>1, <3>1 DEF Keeps, Fields
  <2>2. CASE ~up
    <3>1. Typed(t) /\ Keeps(q, t, {"jobs"}) /\ t.jobs = q.jobs \cup {"cleanup"}
      BY <1>2, <1>4, <2>2, LaunchFacts DEF Jobs
    <3> HIDE DEF t
    <3> QED BY <1>1, <1>3, <3>1 DEF Keeps, Fields
  <2> QED BY <2>1, <2>2
<1> HIDE DEF t
<1>6. /\ t.kind = s.kind /\ t.pi = s.pi /\ t.queue = s.queue /\ t.consumed = s.consumed
      /\ t.delivery = s.delivery /\ t.out = s.out
  BY <1>5 DEF Keeps, Fields
<1>7. Way(t, o)
  BY <1>3, <1>5, <1>6 DEF Ready, Fit, Way, Taking
<1>8. ~o => Queued(t, a, p)
  BY <1>3, <1>5, <1>6, QueuedKept DEF Ready, Fit
<1> QED BY <1>5, <1>6, <1>7, <1>8 DEF Ready, Fit, t

\* The inputs without a target at the head of the queue are its beginning.
LEMMA OrdinaryHeads ==
    ASSUME NEW s, Typed(s)
    PROVE  Heads(Ordinary(s), s.queue) /\ Ordinary(s) \cap Targeted = {} /\ Ordinary(s) \subseteq Inputs
<1>1. \A i \in s.queue : i \in Int /\ i \in Inputs
  BY DEF Typed, Inputs
<1>2. ASSUME NEW i \in s.queue, NEW d \in Ordinary(s), i < d PROVE i \in Ordinary(s)
  <2>1. d \in s.queue /\ \A t \in s.queue \cap Targeted : d < t
    BY <1>2 DEF Ordinary
  <2>2. i \notin Targeted
    BY <1>1, <1>2, <2>1
  <2>3. \A t \in s.queue \cap Targeted : i < t
    BY <1>1, <1>2, <2>1
  <2> QED BY <1>2, <2>2, <2>3 DEF Ordinary
<1> QED BY <1>1, <1>2 DEF Heads, Ordinary

\* Consuming the beginning of the queue while nothing else of it is delivered.
LEMMA ConsumeReady ==
    ASSUME NEW s, NEW o, NEW a, NEW p, Ready(s, o, a, p), NEW S \in SUBSET Inputs, s.phase # "exited",
           a \subseteq Inputs, p \in 0..MaxInput, w.consumed \in Nat,
           ~o => Heads(S, s.queue) /\ (S = {} \/ s.delivery = {})
    PROVE  Ready(Consume(s, S), o, a, p) /\ Keeps(s, Consume(s, S), {"queue", "consumed", "out"})
<1> DEFINE t == Consume(s, S)
<1>1. Typed(s) /\ Typed(t) /\ Keeps(s, t, {"queue", "consumed", "out"}) /\ t.queue = s.queue \ S
  BY ConsumeFacts DEF Ready
<1>2. ASSUME ~o
      PROVE  /\ s.consumed <= t.consumed /\ \A i \in S : i <= t.consumed
             /\ \A i \in t.queue : i > t.consumed
             /\ Tells(t.out, w.consumed, t.consumed) /\ w.consumed <= t.consumed
    <2>1. Heads(S, s.queue) /\ (\A i \in s.queue : i > s.consumed) /\ Tells(s.out, w.consumed, s.consumed)
          /\ w.consumed <= s.consumed
      BY <1>2 DEF Ready, Fit, Queued
    <2>2. /\ s.consumed <= t.consumed /\ \A i \in S : i <= t.consumed
          /\ \A i \in t.queue : i > t.consumed
          /\ Tells(t.out, w.consumed, t.consumed)
      BY <1>1, <2>1, ConsumeTells
    <2>3. s.consumed \in Int /\ t.consumed \in Int
      BY <1>1 DEF Typed
    <2> HIDE DEF t
    <2>4. w.consumed <= t.consumed
      BY <2>1, <2>2, <2>3
    <2> QED BY <2>2, <2>4
<1> HIDE DEF t
<1>3. /\ t.kind = s.kind /\ t.pi = s.pi /\ t.delivery = s.delivery /\ t.jobs = s.jobs
      /\ t.phase = s.phase /\ t.op = s.op /\ t.pub = s.pub /\ t.after = s.after
  BY <1>1 DEF Keeps, Fields
<1>4. Way(t, o)
  BY <1>3 DEF Ready, Fit, Way, Taking
<1>5. ASSUME ~o PROVE Queued(t, a, p)
  <2>1. Queued(s, a, p)
    BY <1>5 DEF Ready, Fit
  <2>2. /\ s.consumed \in Int /\ t.consumed \in Int
        /\ \A i \in Known(a, p) : i \in Int
    BY <1>1, MaxInputAssumption DEF Typed, Known, Inputs
  <2>3. ASSUME s.kind # "none", NEW i \in Known(a, p), i > t.consumed PROVE i \in t.queue
    <3>1. i \in s.queue
      BY <1>2, <1>5, <2>1, <2>2, <2>3 DEF Queued
    <3>2. i \notin S
      BY <1>2, <1>5, <2>2, <2>3
    <3> QED BY <1>1, <3>1, <3>2
  <2>4. ASSUME "bootstrap" \in s.jobs, NEW i \in a, i > p, i > t.consumed PROVE i \in t.queue
    <3>1. i \in Int
      BY <2>4 DEF Inputs
    <3>2. i > s.consumed /\ i \notin S
      BY <1>2, <1>5, <2>2, <2>4, <3>1
    <3> QED BY <1>1, <2>1, <2>4, <3>2 DEF Queued
  <2>5. Heads(t.delivery, t.queue) /\ t.delivery \cap Targeted = {}
    <3>1. Heads(s.delivery, s.queue) /\ s.delivery \cap Targeted = {}
      BY <2>1 DEF Queued
    <3> QED BY <1>1, <1>3, <1>5, <3>1 DEF Heads
  <2>6. t.queue \subseteq s.queue /\ \A i \in t.queue : i > t.consumed
    BY <1>1, <1>2, <1>5
  <2>7. t.phase \in {"init", "waiting_for_start"} => t.queue = {} /\ t.kind = "none"
    BY <1>3, <2>1, <2>6 DEF Queued
  <2> QED BY <1>3, <2>1, <2>3, <2>4, <2>5, <2>6, <2>7 DEF Queued
<1> QED BY <1>1, <1>2, <1>4, <1>5 DEF Ready, Fit, t

LEMMA IgnoreInputsReady ==
    ASSUME NEW s, NEW o, NEW a \in SUBSET Inputs, NEW p \in 0..MaxInput, Ready(s, o, a, p), w.consumed \in Nat
    PROVE  /\ Ready(IgnoreInputs(s), o, a, p)
           /\ NoActiveWork(IgnoreInputs(s)) <=> NoActiveWork(s)
<1> DEFINE t == IgnoreInputs(s)
           S == Ordinary(s)
<1>1. CASE t = s
  BY <1>1
<1>2. CASE HandlesInputs(s) /\ t = Consume(s, S)
  <2>1. Typed(s) /\ s.phase \in {"active", "waiting_for_acceptance"} /\ s.delivery = {}
    BY <1>2 DEF HandlesInputs, Ready
  <2>2. Heads(S, s.queue) /\ S \in SUBSET Inputs
    BY <2>1, OrdinaryHeads
  <2> HIDE DEF S
  <2>3. Ready(t, o, a, p) /\ Keeps(s, t, {"queue", "consumed", "out"})
    BY <1>2, <2>1, <2>2, ConsumeReady
  <2> HIDE DEF t
  <2>4. NoActiveWork(t) <=> NoActiveWork(s)
    BY <2>3 DEF Keeps, Fields, NoActiveWork
  <2> QED BY <2>3, <2>4 DEF t
<1> QED BY <1>1, <1>2 DEF IgnoreInputs

LEMMA InputStepReady ==
    ASSUME NEW s, NEW o, NEW a \in SUBSET Inputs, NEW p \in 0..MaxInput, Ready(s, o, a, p)
    PROVE  /\ Ready(InputStep(s), o, a, p)
           /\ ~NoActiveWork(s) => ~NoActiveWork(InputStep(s))
<1> DEFINE t == InputStep(s)
           d == [s EXCEPT !.delivery = Ordinary(s)]
           e == [s EXCEPT !.turn = "executing"]
<1>1. CASE t = s
  BY <1>1
<1>2. CASE HandlesInputs(s) /\ Ordinary(s) # {} /\ s.pi /\ t = Launch(d, "deliver")
  <2>1. Typed(s) /\ s.phase \in {"active", "waiting_for_acceptance"} /\ s.pub = "none" /\ s.pi = TRUE
    BY <1>2 DEF HandlesInputs, Ready, Typed
  <2>2. Heads(Ordinary(s), s.queue) /\ Ordinary(s) \cap Targeted = {} /\ Ordinary(s) \subseteq Inputs
    BY <2>1, OrdinaryHeads
  <2>3. Keeps(s, d, {"delivery"}) /\ d.delivery = Ordinary(s)
    BY <2>1 DEF Typed, Keeps, Fields
  <2> HIDE DEF d
  <2>4. Typed(d)
    BY <2>1, <2>2, <2>3 DEF Typed, Keeps, Fields
  <2>5. Typed(t) /\ Keeps(d, t, {"jobs"}) /\ t.jobs = d.jobs \cup {"deliver"}
    BY <1>2, <2>4, LaunchFacts DEF Jobs
  <2> HIDE DEF t
  <2>6. /\ t.kind = s.kind /\ t.pi = s.pi /\ t.queue = s.queue /\ t.consumed = s.consumed /\ t.out = s.out
        /\ t.delivery = Ordinary(s) /\ t.jobs = s.jobs \cup {"deliver"}
        /\ t.phase = s.phase /\ t.op = s.op /\ t.pub = s.pub /\ t.after = s.after
    BY <2>3, <2>5 DEF Keeps, Fields
  <2>7. Way(t, o)
    BY <2>1, <2>6 DEF Ready, Fit, Way, Taking
  <2>8. ~o => Queued(t, a, p)
    BY <2>1, <2>2, <2>6 DEF Ready, Fit, Queued
  <2>9. ~NoActiveWork(t)
    BY <2>1, <2>6 DEF NoActiveWork
  <2> QED BY <2>5, <2>6, <2>7, <2>8, <2>9 DEF Ready, Fit, t
<1>3. CASE HandlesInputs(s) /\ t = Launch(e, "turn")
  <2>1. Typed(s)
    BY DEF Ready
  <2>2. Keeps(s, e, {"turn"}) /\ e.turn = "executing"
    BY <2>1 DEF Typed, Keeps, Fields
  <2> HIDE DEF e
  <2>3. Typed(e)
    BY <2>1, <2>2 DEF Typed, Keeps, Fields
  <2>4. Typed(t) /\ Keeps(e, t, {"jobs"}) /\ t.jobs = e.jobs \cup {"turn"}
    BY <1>3, <2>3, LaunchFacts DEF Jobs
  <2> HIDE DEF t
  <2>5. Keeps(s, t, {"stage", "turn", "accepted", "fact", "tainted", "cred", "base", "timers", "jobs", "out"})
        /\ t.jobs = s.jobs \cup {"turn"}
    BY <2>2, <2>4 DEF Keeps, Fields
  <2>6. Fit(t, o, a, p)
    BY <2>5, FitKept DEF Ready
  <2>7. /\ t.out = s.out /\ t.consumed = s.consumed
        /\ NoActiveWork(t) <=> NoActiveWork(s)
    BY <2>2, <2>4 DEF Keeps, Fields, NoActiveWork
  <2> QED BY <2>4, <2>6, <2>7 DEF Ready, t
<1> QED BY <1>1, <1>2, <1>3 DEF InputStep

LEMMA AdvanceReady ==
    ASSUME NEW s, NEW o, NEW a \in SUBSET Inputs, NEW p \in 0..MaxInput, Ready(s, o, a, p), w.consumed \in Nat
    PROVE  Ready(Advance(s), o, a, p) /\ ~NoActiveWork(Advance(s))
<1> DEFINE r == FinishReadying(s)
           i == IgnoreInputs(r)
           t == Advance(s)
<1>1. t = IF NoActiveWork(r) THEN BeginCleaning(r) ELSE InputStep(i)
  BY DEF Advance
<1>2. Ready(r, o, a, p)
  BY FinishReadyingReady
<1> HIDE DEF r, t
<1>3. NoActiveWork(r) => Ready(BeginCleaning(r), o, a, p) /\ BeginCleaning(r).phase = "cleaning"
  BY <1>2, BeginCleaningReady
<1>4. Ready(i, o, a, p) /\ (NoActiveWork(i) <=> NoActiveWork(r))
  BY <1>2, IgnoreInputsReady
<1> HIDE DEF i
<1>5. Ready(InputStep(i), o, a, p) /\ (~NoActiveWork(i) => ~NoActiveWork(InputStep(i)))
  BY <1>4, InputStepReady
<1>6. CASE NoActiveWork(r)
  <2>1. t = BeginCleaning(r)
    BY <1>1, <1>6
  <2> QED BY <1>3, <1>6, <2>1 DEF NoActiveWork, t
<1>7. CASE ~NoActiveWork(r)
  BY <1>1, <1>4, <1>5, <1>7 DEF t
<1> QED BY <1>6, <1>7

\* A ready state is advanced to one that keeps the inputs flowing.
LEMMA FlowStep ==
    ASSUME FInv, NEW s, Ready(s, overtaken', arrived', payload'), Reduce(s), IInv', Observe,
           overtaken => overtaken'
    PROVE  FInv'
<1> DEFINE t == Advance(s)
           f == [type |-> "state", to |-> Reported(t)]
<1>1. PICK v : v = w'
  OBVIOUS
<1>2. PICK o, a, p : o = overtaken' /\ a = arrived' /\ p = payload'
  OBVIOUS
<1>3. a \in SUBSET Inputs /\ p \in 0..MaxInput /\ o \in BOOLEAN
  BY <1>2 DEF IInv, Env
<1>4. w.consumed \in Nat /\ Typed(w)
  BY DEF FInv, IInv, Sound, Typed
<1>5. Ready(s, o, a, p)
  BY <1>2
<1>6. Ready(t, o, a, p) /\ ~NoActiveWork(t)
  BY <1>3, <1>4, <1>5, AdvanceReady
<1>7. v = t \/ v = Emit(t, f)
  BY <1>1 DEF Reduce
<1>8. f \in Facts /\ f.type # "input_consumed"
  BY FactTypes
<1> HIDE DEF t, f
<1>9. Ready(v, o, a, p) /\ ~NoActiveWork(v)
  <2>1. CASE v = Emit(t, f)
    <3>1. Typed(t)
      BY <1>6 DEF Ready
    <3>2. Typed(v) /\ Keeps(t, v, {"out"}) /\ Still(t, v)
      BY <1>8, <2>1, <3>1, EmitFacts, EmitTells
    <3>3. Keeps(t, v, {"stage", "turn", "accepted", "fact", "tainted", "cred", "base", "timers", "jobs", "out"})
          /\ v.jobs = t.jobs /\ v.consumed = t.consumed /\ (NoActiveWork(v) <=> NoActiveWork(t))
      BY <3>2 DEF Keeps, Fields, NoActiveWork
    <3>4. Fit(v, o, a, p)
      BY <1>6, <3>3, FitKept DEF Ready
    <3> QED BY <1>6, <3>2, <3>3, <3>4 DEF Ready, Still
  <2> QED BY <1>6, <1>7, <2>1
<1>10. Typed(v) /\ Fit(v, o, a, p)
  BY <1>9 DEF Ready
<1>11. \A n \in Consumptions(v.out) : v.out[n].seq \in Inputs
  BY <1>10, ReportedInputs
<1> DEFINE R == {w.out[n].seq : n \in Consumptions(w.out)}
<1>12. told' = told \cup R
  BY DEF Observe
<1>13. told' \subseteq Inputs
  BY <1>12 DEF FInv
<1>14. ASSUME ~o
       PROVE  /\ \A i \in told' : i \in Inputs /\ i <= v.consumed
              /\ \A n \in Consumptions(v.out) :
                   /\ v.out[n].seq \in Inputs /\ v.out[n].seq <= v.consumed
                   /\ \A i \in told' : i < v.out[n].seq
                   /\ \A m \in Consumptions(v.out) : m < n => v.out[m].seq < v.out[n].seq
  <2>1. Tells(v.out, w.consumed, v.consumed) /\ w.consumed <= v.consumed
    BY <1>9, <1>14 DEF Ready
  <2>2. Told
    BY <1>2, <1>14 DEF FInv
  <2>3. \A i \in told' : i \in Inputs /\ i <= w.consumed
    BY <1>12, <2>2 DEF Told
  <2>4. /\ v.consumed \in Int /\ w.consumed \in Int /\ \A i \in Inputs : i \in Int
    BY <1>4, <1>10 DEF Typed, Inputs
  <2>5. ASSUME NEW i \in told' PROVE i \in Inputs /\ i <= v.consumed
    BY <2>1, <2>3, <2>4, <2>5
  <2>6. ASSUME NEW n \in Consumptions(v.out), NEW i \in told' PROVE i < v.out[n].seq
    <3>1. w.consumed < v.out[n].seq /\ v.out[n].seq \in Int
      BY <1>11, <2>1, <2>4 DEF Tells
    <3>2. i <= w.consumed /\ i \in Int
      BY <2>3, <2>4
    <3> QED BY <2>4, <3>1, <3>2
  <2> QED BY <2>1, <2>5, <2>6 DEF Tells
<1>15. Told' <=>
         /\ \A i \in told' : i \in Inputs /\ i <= v.consumed
         /\ \A n \in Consumptions(v.out) :
              /\ v.out[n].seq \in Inputs /\ v.out[n].seq <= v.consumed
              /\ \A i \in told' : i < v.out[n].seq
              /\ \A m \in Consumptions(v.out) : m < n => v.out[m].seq < v.out[n].seq
  BY <1>1 DEF Told, Consumptions
<1>16. Fit(w, overtaken, arrived, payload)'
  BY <1>1, <1>2, <1>10 DEF Fit, Way, Queued, Known, Heads
<1>17. ~NoActiveWork(w)'
  BY <1>1, <1>9 DEF NoActiveWork
<1>18. (\A n \in Consumptions(w.out) : w.out[n].seq \in Inputs)'
  BY <1>1, <1>11 DEF Consumptions
<1> QED BY <1>2, <1>13, <1>14, <1>15, <1>16, <1>17, <1>18 DEF FInv

-----------------------------------------------------------------------------
(* What the helpers report *)

LEMMA PublishStill == ASSUME NEW s, Typed(s) PROVE Still(s, PublishTerminal(s)) /\ Typed(PublishTerminal(s))
                              /\ Keeps(s, PublishTerminal(s), {"out", "pub", "timers"})
                              /\ PublishTerminal(s).pub = "terminal_pending_ack"
<1> DEFINE sent == Emit(s, Fact(s.fact))
           both == Emit(sent, Fact("parked"))
           parked == IF s.fact = "turn_failed" THEN both ELSE sent
           held == [parked EXCEPT !.pub = "terminal_pending_ack"]
           t == Arm(held, "terminal_ack")
<1>1. /\ Fact(s.fact) \in Facts /\ Fact(s.fact).type # "input_consumed"
      /\ Fact("parked") \in Facts /\ Fact("parked").type # "input_consumed"
  BY FactTypes DEF Typed, FactNames
<1>2. Typed(sent) /\ Keeps(s, sent, {"out"}) /\ Still(s, sent)
  BY <1>1, EmitFacts, EmitTells
<1> HIDE DEF sent
<1>3. Typed(both) /\ Keeps(sent, both, {"out"}) /\ Still(sent, both)
  BY <1>1, <1>2, EmitFacts, EmitTells
<1> HIDE DEF both
<1>4. Typed(parked) /\ Keeps(s, parked, {"out"}) /\ Still(s, parked)
  BY <1>2, <1>3, StillFacts DEF Keeps, Fields
<1> HIDE DEF parked
<1>5. Keeps(parked, held, {"pub"}) /\ held.pub = "terminal_pending_ack"
  BY <1>4 DEF Keeps, Typed, Fields
<1> HIDE DEF held
<1>6. Typed(held)
  BY <1>4, <1>5 DEF Keeps, Typed, Fields, Publications
<1>7. Typed(t) /\ Keeps(held, t, {"timers"})
  BY <1>6, ArmFacts DEF Timers
<1>8. t = PublishTerminal(s)
  BY DEF PublishTerminal, held, parked, both, sent
<1> HIDE DEF t
<1>9. Keeps(s, t, {"out", "pub", "timers"}) /\ t.out = parked.out /\ t.pub = "terminal_pending_ack"
  BY <1>4, <1>5, <1>7 DEF Keeps, Fields
<1> QED BY <1>4, <1>7, <1>8, <1>9, StillFacts

LEMMA FatalStill == ASSUME NEW s, Typed(s) PROVE Still(s, FinishFatal(s))
<1> DEFINE r == Emit(s, Fact("worker_failed"))
           t == [r EXCEPT !.pub = "none", !.phase = "exited", !.timers = {}]
<1>1. Fact("worker_failed") \in Facts /\ Fact("worker_failed").type # "input_consumed"
  BY FactTypes DEF FactNames
<1>2. Typed(r) /\ Still(s, r)
  BY <1>1, EmitFacts, EmitTells
<1>3. t = FinishFatal(s)
  BY DEF FinishFatal
<1> HIDE DEF r
<1>4. t.out = r.out
  BY <1>2 DEF Typed, Fields
<1> QED BY <1>2, <1>3, <1>4, StillFacts

LEMMA FailedStill ==
    ASSUME NEW s, Typed(s), NEW b \in BOOLEAN
    PROVE  LET t == WorkerFailed(s, b)
           IN  Still(s, t) /\ (t.phase = "exited" \/ t.after # "none")
<1> DEFINE t == WorkerFailed(s, b)
<1>1. CASE b /\ s.pub = "none"
  <2> DEFINE r == BeginSnapshot(s, "fatal_snapshot")
             a == IF s.phase = "cleaning" /\ s.stage = "publication" THEN "cleanup" ELSE "exit"
  <2>1. Typed(r) /\ Keeps(s, r, {"pub", "jobs"})
    BY <1>1, SnapshotFacts DEF Publications
  <2> HIDE DEF r
  <2>2. t = [r EXCEPT !.after = a]
    BY <1>1 DEF WorkerFailed, r
  <2>3. a # "none"
    OBVIOUS
  <2> HIDE DEF a, t
  <2>4. t.after = a /\ t.out = r.out /\ r.out = s.out
    BY <2>1, <2>2 DEF Keeps, Typed, Fields
  <2>5. Still(s, t)
    BY <2>4, StillFacts
  <2> QED BY <2>3, <2>4, <2>5 DEF t
<1>2. CASE ~(b /\ s.pub = "none")
  <2>1. t = FinishFatal(s)
    BY <1>2 DEF WorkerFailed
  <2> QED BY <2>1, FatalFacts, FatalStill
<1> QED BY <1>1, <1>2

LEMMA ParkedStill ==
    ASSUME NEW s, Typed(s)
    PROVE  LET t == Emit(s, Fact("parked"))
               u == SnapshotFailed(s)
               d == DispatchFailed(s)
           IN  /\ Typed(t) /\ Keeps(s, t, {"out"}) /\ Still(s, t)
               /\ Typed(u) /\ Keeps(s, u, {"out"}) /\ Still(s, u)
               /\ Still(s, d) /\ (Keeps(s, d, {"out"}) \/ d.phase = "exited")
<1> DEFINE t == Emit(s, Fact("parked"))
           f == Emit(s, Fact("turn_failed"))
           u == Emit(f, Fact("parked"))
           d == DispatchFailed(s)
<1>1. /\ Fact("turn_failed") \in Facts /\ Fact("turn_failed").type # "input_consumed"
      /\ Fact("parked") \in Facts /\ Fact("parked").type # "input_consumed"
  BY FactTypes DEF FactNames
<1>2. Typed(t) /\ Keeps(s, t, {"out"}) /\ Still(s, t)
  BY <1>1, EmitFacts, EmitTells
<1>3. Typed(f) /\ Keeps(s, f, {"out"}) /\ Still(s, f)
  BY <1>1, EmitFacts, EmitTells
<1> HIDE DEF f
<1>4. Typed(u) /\ Keeps(f, u, {"out"}) /\ Still(f, u)
  BY <1>1, <1>3, EmitFacts, EmitTells
<1>5. u = SnapshotFailed(s)
  BY DEF SnapshotFailed, f
<1> HIDE DEF u
<1>6. Keeps(s, u, {"out"}) /\ Still(s, u)
  BY <1>3, <1>4, StillFacts DEF Keeps, Fields
<1>7. Still(s, d) /\ (Keeps(s, d, {"out"}) \/ d.phase = "exited")
  <2>1. CASE s.kind # "none"
    <3>1. d = t
      BY <2>1 DEF DispatchFailed
    <3> QED BY <1>2, <3>1
  <2>2. CASE s.kind = "none"
    <3>1. d = FinishFatal(s)
      BY <2>2 DEF DispatchFailed, WorkerFailed
    <3> QED BY <3>1, FatalFacts, FatalStill
  <2> QED BY <2>1, <2>2
<1> QED BY <1>2, <1>4, <1>5, <1>6, <1>7

-----------------------------------------------------------------------------
(* What an event starts from, and three ways to be ready *)

LEMMA FlowQuiet ==
    ASSUME FInv, Alive
    PROVE  /\ Typed(Quiet) /\ Keeps(w, Quiet, {"out"}) /\ Hush(Quiet)
           /\ \A job : /\ Typed(Done(job)) /\ Keeps(w, Done(job), {"out", "jobs"}) /\ Hush(Done(job))
                       /\ Done(job).jobs = w.jobs \ {job}
           /\ IInv /\ Typed(w) /\ Good(w) /\ w.phase # "exited"
           /\ Way(w, overtaken) /\ (~overtaken => Queued(w, arrived, payload))
<1>1. IInv /\ Way(w, overtaken) /\ (~overtaken => Queued(w, arrived, payload))
  BY DEF FInv, Fit, Alive
<1>2. Typed(Quiet) /\ Keeps(w, Quiet, {"out"}) /\ Sound(w) /\ Good(w) /\ w.phase # "exited"
  BY <1>1, QuietFacts
<1>3. Quiet.out = <<>> /\ Typed(w)
  BY <1>2 DEF Quiet, Sound, Typed, Fields
<1>4. ASSUME NEW job
      PROVE  /\ Typed(Done(job)) /\ Keeps(w, Done(job), {"out", "jobs"}) /\ Hush(Done(job))
             /\ Done(job).jobs = w.jobs \ {job}
  <2>1. /\ Typed(Done(job)) /\ Keeps(w, Done(job), {"out", "jobs"}) /\ Done(job).jobs = w.jobs \ {job}
    BY <1>1, DoneFacts
  <2>2. Done(job).out = Quiet.out
    BY <1>2 DEF Done, Typed, Fields
  <2> QED BY <1>3, <2>1, <2>2, StillFacts
<1> QED BY <1>1, <1>2, <1>3, <1>4, StillFacts

LEMMA ExitReady ==
    ASSUME FInv, NEW s, NEW o, NEW a, NEW p, Typed(s), Hush(s), s.phase = "exited", s.consumed = w.consumed
    PROVE  Ready(s, o, a, p)
<1>1. w.consumed <= w.consumed
  BY DEF FInv, IInv, Sound, Typed
<1> QED BY <1>1 DEF Ready, Fit, Hush

LEMMA MoveReady ==
    ASSUME FInv, NEW s, NEW o, NEW a, NEW p, Typed(s), Hush(s), s.consumed = w.consumed,
           Way(s, o), ~o => Queued(s, a, p)
    PROVE  Ready(s, o, a, p)
<1>1. w.consumed <= w.consumed
  BY DEF FInv, IInv, Sound, Typed
<1> QED BY <1>1 DEF Ready, Fit, Hush

LEMMA SameReady ==
    ASSUME FInv, NEW s, Typed(s), Hush(s),
           Keeps(w, s, {"stage", "turn", "accepted", "fact", "tainted", "cred", "base", "timers", "jobs", "out"}),
           {"snapshot", "cleanup", "deliver"} \cap w.jobs \subseteq s.jobs,
           "bootstrap" \in s.jobs <=> "bootstrap" \in w.jobs
    PROVE  Ready(s, overtaken, arrived, payload)
<1>1. Fit(w, overtaken, arrived, payload)
  BY DEF FInv
<1>2. Fit(s, overtaken, arrived, payload)
  BY <1>1, FitKept
<1>3. s.consumed = w.consumed
  BY DEF Keeps, Fields
<1>4. w.consumed <= w.consumed
  BY DEF FInv, IInv, Sound, Typed
<1> QED BY <1>2, <1>3, <1>4 DEF Ready, Hush

-----------------------------------------------------------------------------
(* Events that leave the inputs and the way out alone *)

LEMMA StartedReady ==
    ASSUME FInv, RuntimeStarted
    PROVE  \E s : Ready(s, overtaken, arrived, payload) /\ Reduce(s)
<1> DEFINE r == [Quiet EXCEPT !.phase = "waiting_for_start"]
           s == Emit(r, Fact("hello"))
<1>1. Alive /\ Reduce(s) /\ w.phase = "init"
  BY DEF RuntimeStarted, Alive
<1>2. /\ Typed(Quiet) /\ Keeps(w, Quiet, {"out"}) /\ Hush(Quiet) /\ Good(w)
      /\ Way(w, overtaken) /\ (~overtaken => Queued(w, arrived, payload))
  BY <1>1, FlowQuiet
<1>3. Keeps(Quiet, r, {"phase"}) /\ r.phase = "waiting_for_start"
  BY <1>2 DEF Keeps, Typed, Fields
<1> HIDE DEF r
<1>4. Typed(r)
  BY <1>2, <1>3 DEF Keeps, Typed, Fields, Phases
<1>5. Fact("hello") \in Facts /\ Fact("hello").type # "input_consumed"
  BY FactTypes DEF FactNames
<1>6. Typed(s) /\ Keeps(r, s, {"out"}) /\ Still(r, s)
  BY <1>4, <1>5, EmitFacts, EmitTells
<1> HIDE DEF s
<1>7. /\ s.kind = w.kind /\ s.pi = w.pi /\ s.queue = w.queue /\ s.consumed = w.consumed /\ r.out = Quiet.out
      /\ s.delivery = w.delivery /\ s.pub = w.pub /\ s.jobs = w.jobs /\ s.after = w.after
      /\ s.phase = "waiting_for_start"
  BY <1>2, <1>3, <1>6 DEF Keeps, Fields
<1>8. Hush(s)
  BY <1>2, <1>6, <1>7, StillFacts
<1>9. Way(s, overtaken)
  BY <1>1, <1>2, <1>7 DEF Way, Taking
<1>10. ~overtaken => Queued(s, arrived, payload)
  BY <1>1, <1>2, <1>7, QueuedKept
<1> QED BY <1>1, <1>6, <1>7, <1>8, <1>9, <1>10, MoveReady

LEMMA ConnectedReady ==
    ASSUME FInv, TransportConnected
    PROVE  \E s : Ready(s, overtaken, arrived, payload) /\ Reduce(s)
<1> DEFINE g == Emit(Quiet, Fact("hello"))
           h == Emit(g, Heartbeat(w))
           b == IF w.kind # "none" THEN h ELSE g
           s == IF w.pub = "terminal_pending_ack" THEN PublishTerminal(b) ELSE b
<1>1. Alive /\ Reduce(s)
  BY DEF TransportConnected, Alive
<1>2. Typed(Quiet) /\ Keeps(w, Quiet, {"out"}) /\ Hush(Quiet)
  BY <1>1, FlowQuiet
<1>3. /\ Fact("hello") \in Facts /\ Fact("hello").type # "input_consumed"
      /\ Heartbeat(w) \in Facts /\ Heartbeat(w).type # "input_consumed"
  BY FactTypes DEF FactNames
<1>4. Typed(g) /\ Keeps(Quiet, g, {"out"}) /\ Still(Quiet, g)
  BY <1>2, <1>3, EmitFacts, EmitTells
<1> HIDE DEF g
<1>5. Typed(h) /\ Keeps(g, h, {"out"}) /\ Still(g, h)
  BY <1>3, <1>4, EmitFacts, EmitTells
<1> HIDE DEF h
<1>6. Typed(b) /\ Keeps(w, b, {"out"}) /\ Hush(b)
  BY <1>2, <1>4, <1>5, StillFacts DEF Keeps, Fields
<1> HIDE DEF b
<1>7. /\ Still(b, PublishTerminal(b)) /\ Typed(PublishTerminal(b))
      /\ Keeps(b, PublishTerminal(b), {"out", "pub", "timers"})
      /\ PublishTerminal(b).pub = "terminal_pending_ack"
  BY <1>6, PublishStill
<1>8. Typed(s) /\ Hush(s)
  BY <1>6, <1>7, StillFacts
<1>9. Keeps(w, s, {"out", "timers"}) /\ s.jobs = w.jobs
  <2>1. CASE w.pub = "terminal_pending_ack"
    <3> DEFINE t == PublishTerminal(b)
    <3>1. s = t
      BY <2>1
    <3>2. Keeps(b, t, {"out", "pub", "timers"}) /\ t.pub = "terminal_pending_ack"
      BY <1>7
    <3> HIDE DEF t, s
    <3> QED BY <1>6, <2>1, <3>1, <3>2 DEF Keeps, Fields
  <2>2. CASE w.pub # "terminal_pending_ack"
    <3>1. s = b
      BY <2>2
    <3> HIDE DEF s
    <3> QED BY <1>6, <3>1 DEF Keeps, Fields
  <2> QED BY <2>1, <2>2
<1> HIDE DEF s
<1>10. Ready(s, overtaken, arrived, payload)
  BY <1>8, <1>9, SameReady DEF Keeps
<1> QED BY <1>1, <1>10

LEMMA TransportFailedReady ==
    ASSUME FInv, TransportFailed
    PROVE  \E s : Ready(s, overtaken, arrived, payload) /\ Reduce(s)
<1> DEFINE s == [Quiet EXCEPT !.pub = "none", !.phase = "exited", !.timers = {}]
<1>1. Alive /\ Reduce(s)
  BY DEF TransportFailed, Alive
<1>2. Typed(Quiet) /\ Keeps(w, Quiet, {"out"}) /\ Hush(Quiet)
  BY <1>1, FlowQuiet
<1>3. Keeps(Quiet, s, {"pub", "phase", "timers"}) /\ s.pub = "none" /\ s.phase = "exited" /\ s.timers = {}
  BY <1>2 DEF Keeps, Typed, Fields
<1> HIDE DEF s
<1>4. Typed(s)
  BY <1>2, <1>3 DEF Keeps, Typed, Fields, Phases, Publications
<1>5. s.out = Quiet.out /\ s.consumed = w.consumed
  BY <1>2, <1>3 DEF Keeps, Fields
<1>6. Hush(s)
  BY <1>2, <1>5, StillFacts
<1> QED BY <1>1, <1>3, <1>4, <1>5, <1>6, ExitReady

\* A stop waits for what it finds under way.
LEMMA StopReady ==
    ASSUME FInv, StopRequested
    PROVE  \E s : Ready(s, overtaken, arrived, payload) /\ Reduce(s)
<1> DEFINE o == CASE w.phase = "bootstrapping" -> "bootstrap"
                  [] w.phase = "activating" -> "activation"
                  [] w.phase = "active" /\ w.turn = "executing" -> "turn"
                  [] OTHER -> "none"
           s == [Quiet EXCEPT !.phase = "draining", !.timers = {}, !.cred = "none", !.op = o]
<1>1. Alive /\ Reduce(s) /\ w.phase \notin {"init", "draining", "cleaning"}
  BY DEF StopRequested
<1>2. /\ Typed(Quiet) /\ Keeps(w, Quiet, {"out"}) /\ Hush(Quiet) /\ Good(w)
      /\ Way(w, overtaken) /\ (~overtaken => Queued(w, arrived, payload))
  BY <1>1, FlowQuiet
<1>3. o \in {"none", "bootstrap", "activation", "turn"} /\ (o = "bootstrap" <=> w.phase = "bootstrapping")
  OBVIOUS
<1> HIDE DEF o
<1>4. /\ Keeps(Quiet, s, {"phase", "timers", "cred", "op"})
      /\ s.phase = "draining" /\ s.timers = {} /\ s.cred = "none" /\ s.op = o
  BY <1>2 DEF Keeps, Typed, Fields
<1> HIDE DEF s
<1>5. Typed(s)
  BY <1>2, <1>3, <1>4 DEF Keeps, Typed, Fields, Phases, Credentials
<1>6. /\ s.kind = w.kind /\ s.pi = w.pi /\ s.queue = w.queue /\ s.consumed = w.consumed /\ s.out = Quiet.out
      /\ s.delivery = w.delivery /\ s.pub = w.pub /\ s.jobs = w.jobs /\ s.after = w.after
  BY <1>2, <1>4 DEF Keeps, Fields
<1>7. Hush(s)
  BY <1>2, <1>6, StillFacts
<1>8. Way(s, overtaken)
  BY <1>1, <1>2, <1>3, <1>4, <1>6 DEF Way, Taking
<1>9. ~overtaken => Queued(s, arrived, payload)
  BY <1>2, <1>4, <1>6, QueuedKept
<1> QED BY <1>1, <1>5, <1>6, <1>7, <1>8, <1>9, MoveReady

LEMMA TaintedReady ==
    ASSUME FInv, SessionTainted
    PROVE  \E s : Ready(s, overtaken, arrived, payload) /\ Reduce(s)
<1> DEFINE s == [Quiet EXCEPT !.tainted = TRUE]
<1>1. Alive /\ Reduce(s)
  BY DEF SessionTainted
<1>2. Typed(Quiet) /\ Keeps(w, Quiet, {"out"}) /\ Hush(Quiet)
  BY <1>1, FlowQuiet
<1>3. Keeps(Quiet, s, {"tainted"}) /\ s.tainted = TRUE
  BY <1>2 DEF Keeps, Typed, Fields
<1> HIDE DEF s
<1>4. Typed(s)
  BY <1>2, <1>3, ZenonT(60) DEF Keeps, Typed, Fields
<1>5. Keeps(w, s, {"tainted", "out"}) /\ s.out = Quiet.out /\ s.jobs = w.jobs
  BY <1>2, <1>3 DEF Keeps, Fields
<1>6. Hush(s)
  BY <1>2, <1>5, StillFacts
<1>7. Ready(s, overtaken, arrived, payload)
  BY <1>4, <1>5, <1>6, SameReady DEF Keeps
<1> QED BY <1>1, <1>7

LEMMA CredentialReady ==
    ASSUME FInv, NEW ok \in BOOLEAN, ReceiveCredential(ok)
    PROVE  \E s : Ready(s, overtaken, arrived, payload) /\ Reduce(s)
<1> DEFINE a == [Quiet EXCEPT !.cred = "sampling"]
           b == [Quiet EXCEPT !.cred = "off"]
           s == Launch(a, "sample")
<1>1. Alive /\ (Reduce(s) \/ Reduce(b))
  BY DEF ReceiveCredential
<1>2. Typed(Quiet) /\ Keeps(w, Quiet, {"out"}) /\ Hush(Quiet)
  BY <1>1, FlowQuiet
<1>3. /\ Keeps(Quiet, a, {"cred"}) /\ a.cred = "sampling"
      /\ Keeps(Quiet, b, {"cred"}) /\ b.cred = "off"
  BY <1>2 DEF Keeps, Typed, Fields
<1> HIDE DEF a, b
<1>4. Typed(a) /\ Typed(b)
  BY <1>2, <1>3 DEF Keeps, Typed, Fields, Credentials
<1>5. Typed(s) /\ Keeps(a, s, {"jobs"}) /\ s.jobs = a.jobs \cup {"sample"}
  BY <1>4, LaunchFacts DEF Jobs
<1> HIDE DEF s
<1>6. /\ Keeps(w, s, {"cred", "jobs", "out"}) /\ s.jobs = w.jobs \cup {"sample"} /\ s.out = Quiet.out
      /\ Keeps(w, b, {"cred", "out"}) /\ b.jobs = w.jobs /\ b.out = Quiet.out
  BY <1>2, <1>3, <1>5 DEF Keeps, Fields
<1>7. Hush(s) /\ Hush(b)
  BY <1>2, <1>6, StillFacts
<1>8. Ready(s, overtaken, arrived, payload)
  BY <1>5, <1>6, <1>7, SameReady DEF Keeps
<1>9. Ready(b, overtaken, arrived, payload)
  BY <1>4, <1>6, <1>7, SameReady DEF Keeps
<1> QED BY <1>1, <1>8, <1>9

LEMMA SampledReady ==
    ASSUME FInv, (\E changed \in BOOLEAN : CredentialSampled(changed)) \/ CredentialSampleFailed
    PROVE  \E s : Ready(s, overtaken, arrived, payload) /\ Reduce(s)
<1> DEFINE d == Done("sample")
           p == [d EXCEPT !.cred = "pending"]
           u == Emit(p, Fact("credential_update"))
           b == [d EXCEPT !.cred = "idle", !.base = TRUE]
           i == [d EXCEPT !.cred = "idle"]
           x == Arm(b, "credential_poll")
           y == Arm(i, "credential_poll")
<1>1. Alive /\ (Reduce(d) \/ Reduce(u) \/ Reduce(x) \/ Reduce(y))
  <2>1. CASE \E changed \in BOOLEAN : CredentialSampled(changed)
    BY <2>1 DEF CredentialSampled
  <2>2. CASE CredentialSampleFailed
    BY <2>2 DEF CredentialSampleFailed
  <2> QED BY <2>1, <2>2
<1>2. Typed(d) /\ Keeps(w, d, {"out", "jobs"}) /\ Hush(d) /\ d.jobs = w.jobs \ {"sample"}
  BY <1>1, FlowQuiet
<1> HIDE DEF d
<1>3. /\ Keeps(d, p, {"cred"}) /\ p.cred = "pending"
      /\ Keeps(d, b, {"cred", "base"}) /\ b.cred = "idle" /\ b.base = TRUE
      /\ Keeps(d, i, {"cred"}) /\ i.cred = "idle"
  BY <1>2 DEF Keeps, Typed, Fields
<1> HIDE DEF p, b, i
<1>4. Typed(p) /\ Typed(b) /\ Typed(i)
  <2>1. Typed(p)
    BY <1>2, <1>3 DEF Keeps, Typed, Fields, Credentials
  <2>2. Typed(b)
    <3>1. Typed(d) /\ Keeps(d, b, {"cred", "base"}) /\ b.cred = "idle" /\ b.base = TRUE
      BY <1>2, <1>3
    <3>2. b.cred \in Credentials /\ b.base \in BOOLEAN
      BY <3>1 DEF Credentials
    <3> QED BY <3>1, <3>2 DEF Keeps, Typed, Fields
  <2>3. Typed(i)
    BY <1>2, <1>3 DEF Keeps, Typed, Fields, Credentials
  <2> QED BY <2>1, <2>2, <2>3
<1>5. Fact("credential_update") \in Facts /\ Fact("credential_update").type # "input_consumed"
  BY FactTypes DEF FactNames
<1>6. Typed(u) /\ Keeps(p, u, {"out"}) /\ Still(p, u)
  BY <1>4, <1>5, EmitFacts, EmitTells
<1>7. Typed(x) /\ Keeps(b, x, {"timers"}) /\ Typed(y) /\ Keeps(i, y, {"timers"})
  BY <1>4, ArmFacts DEF Timers
<1> HIDE DEF u, x, y
<1> DEFINE F == {"stage", "turn", "accepted", "fact", "tainted", "cred", "base", "timers", "jobs", "out"}
<1>8. /\ Keeps(w, d, F) /\ Keeps(w, u, F) /\ Keeps(w, x, F) /\ Keeps(w, y, F)
      /\ u.jobs = d.jobs /\ x.jobs = d.jobs /\ y.jobs = d.jobs
      /\ p.out = d.out /\ x.out = d.out /\ y.out = d.out
  BY <1>2, <1>3, <1>6, <1>7 DEF Keeps, Fields
<1>9. Hush(u) /\ Hush(x) /\ Hush(y)
  BY <1>2, <1>6, <1>8, StillFacts
<1>10. ASSUME NEW s \in {d, u, x, y} PROVE Ready(s, overtaken, arrived, payload)
  <2>1. Typed(s) /\ Hush(s) /\ Keeps(w, s, F) /\ s.jobs = w.jobs \ {"sample"}
    BY <1>2, <1>6, <1>7, <1>8, <1>9, <1>10
  <2> QED BY <2>1, SameReady
<1> QED BY <1>1, <1>10

LEMMA TimerReady ==
    ASSUME FInv, NEW t \in Timers, TimerFired(t)
    PROVE  \E s : Ready(s, overtaken, arrived, payload) /\ Reduce(s)
<1> DEFINE s == [Quiet EXCEPT !.timers = @ \ {t}]
           h == Emit(s, Heartbeat(w))
           k == Emit(s, Fact("turn_started"))
           c == [s EXCEPT !.cred = "sampling"]
           x == Arm(h, t)
           y == Arm(k, t)
           z == Launch(c, "sample")
           p == PublishTerminal(s)
<1>1. Alive /\ (Reduce(x) \/ Reduce(y) \/ (w.pub = "terminal_pending_ack" /\ Reduce(p)) \/ Reduce(z) \/ Reduce(s))
  <2> DEFINE a1 == t = "heartbeat" /\ w.kind # "none"
             a2 == t = "acceptance_retry" /\ w.phase = "waiting_for_acceptance"
             a3 == t = "terminal_ack" /\ w.pub = "terminal_pending_ack"
             a4 == t = "credential_poll" /\ w.cred = "idle"
             v == CASE a1 -> x [] a2 -> y [] a3 -> p [] a4 -> z [] OTHER -> s
  <2>1. Alive /\ Reduce(v)
    BY DEF TimerFired
  <2>2. v = x \/ v = y \/ (a3 /\ v = p) \/ v = z \/ v = s
    <3> HIDE DEF a1, a2, a3, a4, x, y, z, p, s
    <3> QED OBVIOUS
  <2>3. a3 => w.pub = "terminal_pending_ack"
    OBVIOUS
  <2> HIDE DEF v, a3
  <2> QED BY <2>1, <2>2, <2>3
<1>2. Typed(Quiet) /\ Keeps(w, Quiet, {"out"}) /\ Hush(Quiet)
  BY <1>1, FlowQuiet
<1>3. Keeps(Quiet, s, {"timers"}) /\ s.timers = Quiet.timers \ {t}
  BY <1>2 DEF Keeps, Typed, Fields
<1> HIDE DEF s
<1>4. Typed(s)
  BY <1>2, <1>3 DEF Keeps, Typed, Fields
<1>5. Keeps(w, s, {"timers", "out"}) /\ s.out = Quiet.out
  BY <1>2, <1>3 DEF Keeps, Fields
<1>6. Hush(s)
  BY <1>2, <1>5, StillFacts
<1>7. /\ Heartbeat(w) \in Facts /\ Heartbeat(w).type # "input_consumed"
      /\ Fact("turn_started") \in Facts /\ Fact("turn_started").type # "input_consumed"
  BY FactTypes DEF FactNames
<1>8. /\ Typed(h) /\ Keeps(s, h, {"out"}) /\ Still(s, h)
      /\ Typed(k) /\ Keeps(s, k, {"out"}) /\ Still(s, k)
  BY <1>4, <1>7, EmitFacts, EmitTells
<1>9. Keeps(s, c, {"cred"}) /\ c.cred = "sampling"
  BY <1>4 DEF Keeps, Typed, Fields
<1> HIDE DEF h, k, c
<1>10. Typed(c)
  BY <1>4, <1>9 DEF Keeps, Typed, Fields, Credentials
<1>11. Typed(x) /\ Keeps(h, x, {"timers"}) /\ Typed(y) /\ Keeps(k, y, {"timers"})
  BY <1>8, ArmFacts
<1>12. Typed(z) /\ Keeps(c, z, {"jobs"}) /\ z.jobs = c.jobs \cup {"sample"}
  BY <1>10, LaunchFacts DEF Jobs
<1>13. /\ Typed(p) /\ Keeps(s, p, {"out", "pub", "timers"}) /\ p.pub = "terminal_pending_ack" /\ Still(s, p)
  BY <1>4, PublishStill
<1> HIDE DEF x, y, z, p
<1> DEFINE F == {"stage", "turn", "accepted", "fact", "tainted", "cred", "base", "timers", "jobs", "out"}
<1>14. /\ Keeps(w, s, F) /\ s.jobs = w.jobs
       /\ Keeps(w, x, F) /\ x.jobs = w.jobs /\ x.out = h.out
       /\ Keeps(w, y, F) /\ y.jobs = w.jobs /\ y.out = k.out
       /\ Keeps(w, z, F) /\ z.jobs = w.jobs \cup {"sample"} /\ z.out = s.out
  BY <1>5, <1>8, <1>9, <1>11, <1>12 DEF Keeps, Fields
<1>15. Hush(x) /\ Hush(y) /\ Hush(z) /\ Hush(p)
  BY <1>6, <1>8, <1>13, <1>14, StillFacts
<1>16. ASSUME NEW v \in {s, x, y, z} PROVE Ready(v, overtaken, arrived, payload)
  <2>1. Typed(v) /\ Hush(v) /\ Keeps(w, v, F) /\ (v.jobs = w.jobs \/ v.jobs = w.jobs \cup {"sample"})
    BY <1>4, <1>6, <1>11, <1>12, <1>14, <1>15, <1>16
  <2> QED BY <2>1, SameReady
<1>17. w.pub = "terminal_pending_ack" => Ready(p, overtaken, arrived, payload)
  <2> SUFFICES ASSUME w.pub = "terminal_pending_ack" PROVE Ready(p, overtaken, arrived, payload)
    OBVIOUS
  <2>1. Keeps(w, p, F) /\ p.jobs = w.jobs
    BY <1>5, <1>13 DEF Keeps, Fields
  <2> QED BY <1>13, <1>15, <2>1, SameReady
<1> QED BY <1>1, <1>16, <1>17

LEMMA AcceptedReady ==
    ASSUME FInv, ReceiveAccepted
    PROVE  \E s : Ready(s, overtaken, arrived, payload) /\ Reduce(s)
<1> DEFINE a == [Quiet EXCEPT !.accepted = TRUE]
           b == BeginActivation(Quiet)
<1>1. Alive
  BY DEF ReceiveAccepted, Alive
<1>2. Reduce(a) \/ (w.phase = "waiting_for_acceptance" /\ Reduce(b)) \/ Reduce(Quiet)
  <2> DEFINE x == CASE w.phase = "readying" -> a
                    [] w.phase = "waiting_for_acceptance" -> b [] OTHER -> Quiet
  <2>1. Reduce(x)
    BY DEF ReceiveAccepted
  <2>2. x = a \/ (w.phase = "waiting_for_acceptance" /\ x = b) \/ x = Quiet
    <3> HIDE DEF a, b
    <3> QED OBVIOUS
  <2> HIDE DEF x
  <2> QED BY <2>1, <2>2
<1>3. /\ Typed(Quiet) /\ Keeps(w, Quiet, {"out"}) /\ Hush(Quiet) /\ Good(w)
      /\ Way(w, overtaken) /\ (~overtaken => Queued(w, arrived, payload))
  BY <1>1, FlowQuiet
<1>4. Keeps(Quiet, a, {"accepted"}) /\ a.accepted = TRUE
  BY <1>3 DEF Keeps, Typed, Fields
<1>5. /\ Typed(b) /\ Keeps(Quiet, b, {"phase", "timers", "jobs"})
      /\ b.phase = "activating" /\ b.jobs = Quiet.jobs \cup {"activate"}
  BY <1>3, ActivationFacts
<1> HIDE DEF a, b
<1> DEFINE F == {"stage", "turn", "accepted", "fact", "tainted", "cred", "base", "timers", "jobs", "out"}
<1>6. Ready(a, overtaken, arrived, payload)
  <2>1. Typed(a)
    BY <1>3, <1>4, ZenonT(60) DEF Keeps, Typed, Fields
  <2>2. Keeps(w, a, F) /\ a.out = Quiet.out /\ a.jobs = w.jobs
    BY <1>3, <1>4 DEF Keeps, Fields
  <2>3. Hush(a)
    BY <1>3, <2>2, StillFacts
  <2> QED BY <2>1, <2>2, <2>3, SameReady
<1>7. ASSUME w.phase = "waiting_for_acceptance" PROVE Ready(b, overtaken, arrived, payload)
  <2>1. /\ b.kind = w.kind /\ b.pi = w.pi /\ b.queue = w.queue /\ b.consumed = w.consumed /\ b.out = Quiet.out
        /\ b.delivery = w.delivery /\ b.pub = w.pub /\ b.after = w.after /\ b.jobs = w.jobs \cup {"activate"}
    BY <1>3, <1>5 DEF Keeps, Fields
  <2>2. Hush(b)
    BY <1>3, <2>1, StillFacts
  <2>3. Way(b, overtaken)
    BY <1>3, <1>5, <1>7, <2>1 DEF Way, Taking
  <2>4. ~overtaken => Queued(b, arrived, payload)
    BY <1>3, <1>5, <2>1, QueuedKept
  <2> QED BY <1>5, <2>1, <2>2, <2>3, <2>4, MoveReady
<1>8. Ready(Quiet, overtaken, arrived, payload)
  <2>1. Keeps(w, Quiet, F) /\ Quiet.jobs = w.jobs
    BY <1>3 DEF Keeps, Fields
  <2> QED BY <1>3, <2>1, SameReady
<1> QED BY <1>2, <1>6, <1>7, <1>8

LEMMA RecordedReady ==
    ASSUME FInv, ReceiveRecorded
    PROVE  \E s : Ready(s, overtaken, arrived, payload) /\ Reduce(s)
<1> DEFINE s == [Quiet EXCEPT !.pub = "none", !.timers = @ \ {"terminal_ack"}]
<1>1. Alive /\ Reduce(s) /\ w.pub = "terminal_pending_ack"
  BY DEF ReceiveRecorded, Alive, FInv, IInv, Sound
<1>2. /\ Typed(Quiet) /\ Keeps(w, Quiet, {"out"}) /\ Hush(Quiet)
      /\ Way(w, overtaken) /\ (~overtaken => Queued(w, arrived, payload))
  BY <1>1, FlowQuiet
<1>3. Keeps(Quiet, s, {"pub", "timers"}) /\ s.pub = "none" /\ s.timers = Quiet.timers \ {"terminal_ack"}
  BY <1>2 DEF Keeps, Typed, Fields
<1> HIDE DEF s
<1>4. Typed(s)
  BY <1>2, <1>3 DEF Keeps, Typed, Fields, Publications
<1>5. /\ s.kind = w.kind /\ s.pi = w.pi /\ s.queue = w.queue /\ s.consumed = w.consumed /\ s.out = Quiet.out
      /\ s.delivery = w.delivery /\ s.phase = w.phase /\ s.op = w.op /\ s.after = w.after /\ s.jobs = w.jobs
  BY <1>2, <1>3 DEF Keeps, Fields
<1>6. Hush(s)
  BY <1>2, <1>5, StillFacts
<1>7. Way(s, overtaken)
  BY <1>1, <1>2, <1>3, <1>5 DEF Way, Taking
<1>8. ~overtaken => Queued(s, arrived, payload)
  BY <1>2, <1>5, QueuedKept
<1> QED BY <1>1, <1>4, <1>5, <1>6, <1>7, <1>8, MoveReady

-----------------------------------------------------------------------------
(* Inputs come in *)

\* The start brings every input there is so far.
LEMMA StartReady ==
    ASSUME FInv, ReceiveStart, payload' \in 0..MaxInput
    PROVE  \E s : Ready(s, overtaken, arrived, payload') /\ Reduce(s)
<1> DEFINE r == [Quiet EXCEPT !.phase = "bootstrapping", !.tainted = FALSE]
           s == Launch(r, "bootstrap")
<1>1. Alive /\ Reduce(s) /\ w.phase = "waiting_for_start" /\ \A i \in arrived : i <= payload'
  BY DEF ReceiveStart, Alive
<1>2. /\ Typed(Quiet) /\ Keeps(w, Quiet, {"out"}) /\ Hush(Quiet) /\ Good(w) /\ IInv
      /\ Way(w, overtaken) /\ (~overtaken => Queued(w, arrived, payload))
  BY <1>1, FlowQuiet
<1>3. Keeps(Quiet, r, {"phase", "tainted"}) /\ r.phase = "bootstrapping" /\ r.tainted = FALSE
  BY <1>2 DEF Keeps, Typed, Fields
<1> HIDE DEF r
<1>4. Typed(r)
  BY <1>2, <1>3, ZenonT(60) DEF Keeps, Typed, Fields, Phases
<1>5. Typed(s) /\ Keeps(r, s, {"jobs"}) /\ s.jobs = r.jobs \cup {"bootstrap"}
  BY <1>4, LaunchFacts DEF Jobs
<1> HIDE DEF s
<1>6. /\ s.kind = w.kind /\ s.pi = w.pi /\ s.queue = w.queue /\ s.consumed = w.consumed /\ s.out = Quiet.out
      /\ s.delivery = w.delivery /\ s.pub = w.pub /\ s.op = w.op /\ s.after = w.after
      /\ s.phase = "bootstrapping" /\ s.jobs = w.jobs \cup {"bootstrap"}
  BY <1>2, <1>3, <1>5 DEF Keeps, Fields
<1>7. Hush(s)
  BY <1>2, <1>6, StillFacts
<1>8. Way(s, overtaken)
  BY <1>1, <1>2, <1>6 DEF Way, Taking
<1>9. PICK p : p = payload'
  OBVIOUS
<1>10. ASSUME ~overtaken PROVE Queued(s, arrived, p)
  <2>1. Queued(w, arrived, payload) /\ w.queue = {} /\ w.kind = "none"
    BY <1>1, <1>2, <1>10 DEF Queued
  <2>2. /\ p \in Nat /\ MaxInput \in Nat /\ \A i \in arrived : i \in Inputs /\ i \in Int /\ i <= p
    BY <1>1, <1>2, <1>9, MaxInputAssumption DEF IInv, Env, Inputs
  <2>3. ASSUME NEW i \in Known(arrived, p), NEW j \in Inputs, j < i PROVE j \in Known(arrived, p)
    <3>1. i <= p /\ i \in Int /\ j \in Int /\ 1 <= j
      BY <2>2, <2>3 DEF Known, Inputs
    <3>2. j \in 1..p
      BY <2>2, <2>3, <3>1
    <3> QED BY <3>2 DEF Known
  <2>4. \A i \in arrived : ~(i > p)
    BY <2>2
  <2> QED BY <1>6, <2>1, <2>3, <2>4 DEF Queued
<1>11. Ready(s, overtaken, arrived, p)
  BY <1>5, <1>6, <1>7, <1>8, <1>10, MoveReady
<1> QED BY <1>1, <1>9, <1>11

\* A batch that overtakes none extends what is known, and never the part under delivery.
LEMMA InputsReady ==
    ASSUME FInv, NEW S \in SUBSET Inputs, ReceiveInputs(S)
    PROVE  \E s : Ready(s, overtaken', arrived', payload) /\ Reduce(s)
<1> DEFINE N == {i \in S : i > w.consumed}
           s == [Quiet EXCEPT !.queue = @ \cup N]
           early == w.phase \in {"init", "waiting_for_start"}
<1>1. /\ Alive /\ S \cap arrived = {} /\ arrived' = arrived \cup S
      /\ overtaken' = (overtaken \/ Overtakes(S))
      /\ (early /\ Reduce(Quiet)) \/ (~early /\ Reduce(s))
  BY DEF ReceiveInputs
<1>2. /\ Typed(Quiet) /\ Keeps(w, Quiet, {"out"}) /\ Hush(Quiet) /\ Good(w) /\ IInv /\ Typed(w)
      /\ Way(w, overtaken) /\ (~overtaken => Queued(w, arrived, payload))
  BY <1>1, FlowQuiet
<1>3. PICK o, a : o = overtaken' /\ a = arrived'
  OBVIOUS
<1>4. a = arrived \cup S /\ (~o => ~overtaken /\ ~Overtakes(S))
  BY <1>1, <1>3
<1>5. \A v : Way(v, overtaken) => Way(v, o)
  BY <1>1, <1>3 DEF Way
<1>6. /\ payload \in Int /\ w.consumed \in Int /\ arrived \subseteq Inputs
      /\ \A i \in Inputs : i \in Int /\ 1 <= i
  BY <1>2 DEF IInv, Env, Typed, Inputs
<1>7. CASE early /\ Reduce(Quiet)
  <2> DEFINE q == Quiet
  <2>1. /\ q.kind = w.kind /\ q.pi = w.pi /\ q.queue = w.queue /\ q.consumed = w.consumed
        /\ q.delivery = w.delivery /\ q.phase = w.phase /\ q.op = w.op /\ q.after = w.after /\ q.jobs = w.jobs
        /\ q.pub = w.pub /\ Typed(q) /\ Hush(q) /\ Reduce(q)
    BY <1>2, <1>7 DEF Keeps, Fields
  <2> HIDE DEF q
  <2>2. Way(q, o)
    BY <1>2, <1>5, <2>1 DEF Way, Taking
  <2>3. "bootstrap" \notin w.jobs
    BY <1>2, <1>7 DEF Good
  <2>4. ~o => Queued(q, a, payload)
    BY <1>2, <1>4, <1>7, <2>1, <2>3 DEF Queued, Heads
  <2>5. Ready(q, o, a, payload)
    BY <2>1, <2>2, <2>4, MoveReady
  <2> QED BY <1>3, <2>1, <2>5
<1>8. CASE ~early /\ Reduce(s)
  <2>1. N \subseteq S /\ N \subseteq Inputs /\ (\A i \in N : i > w.consumed) /\ (\A i \in S : i > w.consumed => i \in N)
    OBVIOUS
  <2> HIDE DEF N
  <2>2. Keeps(Quiet, s, {"queue"}) /\ s.queue = Quiet.queue \cup N
    BY <1>2 DEF Keeps, Typed, Fields
  <2> HIDE DEF s
  <2>3. Typed(s)
    <3>1. N \subseteq Inputs /\ Typed(Quiet)
      BY <1>2, <2>1
    <3> QED BY <2>2, <3>1 DEF Keeps, Typed, Fields
  <2>4. /\ s.kind = w.kind /\ s.pi = w.pi /\ s.queue = w.queue \cup N /\ s.consumed = w.consumed /\ s.out = Quiet.out
        /\ s.delivery = w.delivery /\ s.phase = w.phase /\ s.op = w.op /\ s.after = w.after /\ s.jobs = w.jobs
        /\ s.pub = w.pub
    BY <1>2, <2>2 DEF Keeps, Fields
  <2>5. Hush(s)
    BY <1>2, <2>4, StillFacts
  <2>6. Way(s, o)
    BY <1>2, <1>5, <2>4 DEF Way, Taking
  <2>7. ASSUME ~o PROVE Queued(s, a, payload)
    <3>1. Queued(w, arrived, payload)
      BY <1>2, <1>4, <2>7
    <3>2. ASSUME NEW i, i \in Known(a, payload) PROVE i \in Known(arrived, payload) \/ i \in S
      BY <1>4, <3>2 DEF Known
    <3>3. Known(arrived, payload) \subseteq Known(a, payload) /\ S \subseteq Known(a, payload)
      BY <1>4 DEF Known
    <3>4. ASSUME w.kind # "none" \/ "bootstrap" \in w.jobs, NEW i \in Known(a, payload), NEW j \in Inputs, j < i
          PROVE  j \in Known(a, payload)
      <4>1. CASE i \in Known(arrived, payload)
        BY <3>1, <3>3, <3>4, <4>1 DEF Queued
      <4>2. CASE i \in S
        <5>1. j \in arrived \cup S \/ ~(j > payload)
          BY <1>4, <1>8, <2>7, <3>4, <4>2 DEF Overtakes
        <5>2. ~(j > payload) => j \in 1..payload
          BY <1>6, <3>4
        <5> QED BY <1>4, <5>1, <5>2 DEF Known
      <4> QED BY <3>2, <3>4, <4>1, <4>2
    <3>5. ASSUME w.kind # "none", NEW i \in Known(a, payload), i > w.consumed PROVE i \in s.queue
      BY <2>1, <2>4, <3>1, <3>2, <3>5 DEF Queued
    <3>6. ASSUME "bootstrap" \in w.jobs, NEW i \in a, i > payload, i > w.consumed PROVE i \in s.queue
      BY <1>4, <2>1, <2>4, <3>1, <3>6 DEF Queued
    <3>7. Heads(s.delivery, s.queue)
      <4>1. Heads(w.delivery, w.queue)
        BY <3>1 DEF Queued
      <4>2. ASSUME NEW i \in N, NEW d \in w.delivery, i < d PROVE i \in w.delivery
        <5>1. w.kind # "none" /\ d \in Known(arrived, payload)
          BY <3>1, <4>1, <4>2 DEF Queued, Heads
        <5>2. i \in Known(arrived, payload)
          BY <2>1, <3>1, <4>2, <5>1 DEF Queued
        <5>3. i \in w.queue
          BY <2>1, <3>1, <4>2, <5>1, <5>2 DEF Queued
        <5> QED BY <4>1, <4>2, <5>3 DEF Heads
      <4> QED BY <2>4, <4>1, <4>2 DEF Heads
    <3>8. s.queue \subseteq Known(a, payload) /\ \A i \in s.queue : i > s.consumed
      BY <2>1, <2>4, <3>1, <3>3 DEF Queued
    <3>9. /\ s.kind = "none" => s.delivery = {} /\ s.pi = FALSE
          /\ "bootstrap" \in s.jobs => s.kind = "none"
          /\ s.delivery \cap Targeted = {}
      BY <2>4, <3>1 DEF Queued
    <3> QED BY <1>8, <2>4, <3>4, <3>5, <3>6, <3>7, <3>8, <3>9 DEF Queued
  <2>8. Ready(s, o, a, payload)
    BY <2>3, <2>4, <2>5, <2>6, <2>7, MoveReady
  <2> QED BY <1>3, <1>8, <2>8
<1> QED BY <1>1, <1>7, <1>8

-----------------------------------------------------------------------------
(* Completions and the flow of inputs *)

\* A ready state stays ready when only facts and fields that do not matter here change.
LEMMA StillReady ==
    ASSUME NEW s, NEW t, NEW o, NEW a, NEW p, Ready(s, o, a, p), Typed(t), Still(s, t),
           Keeps(s, t, {"stage", "turn", "accepted", "fact", "tainted", "cred", "base", "timers", "out"})
    PROVE  Ready(t, o, a, p)
<1>1. t.jobs = s.jobs /\ t.consumed = s.consumed
      /\ Keeps(s, t, {"stage", "turn", "accepted", "fact", "tainted", "cred", "base", "timers", "jobs", "out"})
  BY DEF Keeps, Fields
<1>2. Fit(t, o, a, p)
  BY <1>1, FitKept DEF Ready
<1> QED BY <1>1, <1>2 DEF Ready, Still

LEMMA DispatchReady ==
    ASSUME NEW s, NEW o, NEW a, NEW p, Ready(s, o, a, p)
    PROVE  Ready(DispatchFailed(s), o, a, p)
<1> DEFINE t == DispatchFailed(s)
<1>1. Typed(s)
  BY DEF Ready
<1>2. /\ Typed(t) /\ Keeps(s, t, {"out", "pub", "phase", "timers", "jobs", "after"}) /\ Still(s, t)
      /\ Keeps(s, t, {"out"}) \/ t.phase = "exited"
  BY <1>1, DispatchFacts, ParkedStill
<1> HIDE DEF t
<1>3. CASE Keeps(s, t, {"out"})
  <2>1. Keeps(s, t, {"stage", "turn", "accepted", "fact", "tainted", "cred", "base", "timers", "out"})
    BY <1>3 DEF Keeps, Fields
  <2> QED BY <1>2, <2>1, StillReady DEF t
<1>4. CASE t.phase = "exited"
  <2>1. t.consumed = s.consumed
    BY <1>2 DEF Keeps, Fields
  <2> QED BY <1>2, <1>4, <2>1 DEF Ready, Fit, Still, t
<1> QED BY <1>2, <1>3, <1>4

\* The session's queue is the start's inputs and the batches that came since.
LEMMA BootstrapQueued ==
    ASSUME NEW s, Queued(w, arrived, payload), "bootstrap" \in w.jobs, IInv, Typed(w),
           s.queue = w.queue \cup {i \in 1..payload : i > w.consumed}, s.consumed = w.consumed,
           s.kind # "none", s.delivery = w.delivery, "bootstrap" \notin s.jobs,
           s.phase \notin {"init", "waiting_for_start"}
    PROVE  Queued(s, arrived, payload)
<1>1. w.kind = "none" /\ w.delivery = {} /\ w.queue \subseteq Known(arrived, payload) /\ \A i \in w.queue : i > w.consumed
  BY DEF Queued
<1>2. \A i \in Known(arrived, payload), j \in Inputs : j < i => j \in Known(arrived, payload)
  BY DEF Queued
<1>3. \A i \in arrived : i > payload /\ i > w.consumed => i \in w.queue
  BY DEF Queued
<1>4. payload \in Int /\ w.consumed \in Int /\ \A i \in arrived : i \in Int /\ 1 <= i
  BY DEF IInv, Env, Typed, Inputs
<1>5. ASSUME NEW i \in Known(arrived, payload), i > w.consumed PROVE i \in s.queue
  <2>1. CASE i \in 1..payload
    BY <1>5, <2>1
  <2>2. CASE i \in arrived /\ i \notin 1..payload
    <3>1. i > payload
      BY <1>4, <2>2
    <3> QED BY <1>3, <1>5, <2>2, <3>1
  <2> QED BY <1>5, <2>1, <2>2 DEF Known
<1>6. s.queue \subseteq Known(arrived, payload)
  BY <1>1 DEF Known
<1>7. \A i \in s.queue : i > s.consumed
  BY <1>1
<1>8. Heads(s.delivery, s.queue) /\ s.delivery \cap Targeted = {}
  BY <1>1 DEF Heads
<1> QED BY <1>2, <1>5, <1>6, <1>7, <1>8 DEF Queued

LEMMA BootstrappedReady ==
    ASSUME FInv, NEW kind \in Kinds, NEW resumed \in BOOLEAN, NEW refresh \in BOOLEAN,
           BootstrapSucceeded(kind, resumed, refresh)
    PROVE  \E s : Ready(s, overtaken, arrived, payload) /\ Reduce(s)
<1> DEFINE d == Done("bootstrap")
           N == {i \in 1..payload : i > w.consumed}
           prepared == [d EXCEPT !.kind = kind, !.queue = @ \cup N]
           ready == Emit(prepared, Fact("ready"))
           drained == [ready EXCEPT !.op = "none"]
           readying == [ready EXCEPT !.phase = "readying", !.accepted = resumed]
           snapped == IF Uploads(readying, "after_worker_ready")
                      THEN BeginSnapshot(readying, "ready_snapshot") ELSE readying
           beating == Arm(snapped, "heartbeat")
           c == [beating EXCEPT !.cred = "sampling"]
           sampling == Launch(c, "sample")
<1>1. /\ Alive /\ "bootstrap" \in w.jobs
      /\ \/ w.phase = "draining" /\ Reduce(drained)
         \/ w.phase # "draining" /\ (Reduce(beating) \/ Reduce(sampling))
  BY DEF BootstrapSucceeded
<1>2. /\ Good(w) /\ IInv /\ Typed(w) /\ Way(w, overtaken) /\ (~overtaken => Queued(w, arrived, payload))
      /\ Typed(d) /\ Keeps(w, d, {"out", "jobs"}) /\ Hush(d) /\ d.jobs = w.jobs \ {"bootstrap"}
  BY <1>1, FlowQuiet
<1>3. N \subseteq Inputs
  <2>1. payload \in 0..MaxInput /\ MaxInput \in Nat
    BY <1>2, MaxInputAssumption DEF IInv, Env
  <2> QED BY <2>1 DEF Inputs
<1> HIDE DEF d, N
<1>4. Keeps(d, prepared, {"kind", "queue"}) /\ prepared.kind = kind /\ prepared.queue = d.queue \cup N
  BY <1>2 DEF Keeps, Typed, Fields
<1> HIDE DEF prepared
<1>5. kind \in {"llm", "automatic"}
  BY KindsAssumption
<1>6. Typed(prepared)
  <2>1. kind \in {"none", "llm", "automatic"} /\ Typed(d)
    BY <1>2, <1>5
  <2> QED BY <1>3, <1>4, <2>1 DEF Keeps, Typed, Fields
<1>7. Fact("ready") \in Facts /\ Fact("ready").type # "input_consumed"
  BY FactTypes DEF FactNames
<1>8. Typed(ready) /\ Keeps(prepared, ready, {"out"}) /\ Still(prepared, ready)
  BY <1>6, <1>7, EmitFacts, EmitTells
<1> HIDE DEF ready
<1>9. /\ Keeps(w, ready, {"out", "jobs", "kind", "queue"}) /\ ready.jobs = w.jobs \ {"bootstrap"}
      /\ ready.kind = kind /\ ready.queue = w.queue \cup N /\ prepared.out = d.out
  BY <1>2, <1>4, <1>8 DEF Keeps, Fields
<1>10. Hush(ready)
  BY <1>2, <1>8, <1>9, StillFacts
<1>11. w.pub = "none" /\ (w.phase = "bootstrapping" \/ (w.phase = "draining" /\ w.op = "bootstrap"))
  BY <1>1, <1>2 DEF Good
<1>12. ASSUME NEW s, Typed(s), s.out = ready.out, s.kind = kind, s.queue = w.queue \cup N, s.consumed = w.consumed,
              s.delivery = w.delivery, s.after = w.after,
              \/ s.phase = "draining" /\ s.op = "none" /\ s.pub = "none"
              \/ s.phase = "readying" /\ s.pub = "none"
              \/ s.phase = "readying" /\ s.pub = "ready_snapshot" /\ "snapshot" \in s.jobs,
              w.jobs \ {"bootstrap"} \subseteq s.jobs, "bootstrap" \notin s.jobs
       PROVE  Ready(s, overtaken, arrived, payload)
  <2>1. Hush(s)
    BY <1>10, <1>12, StillFacts
  <2>2. Way(s, overtaken)
    BY <1>2, <1>12 DEF Way, Taking
  <2>3. s.phase \notin {"init", "waiting_for_start"} /\ s.kind # "none"
    BY <1>5, <1>12
  <2>4. ~overtaken => Queued(s, arrived, payload)
    BY <1>1, <1>2, <1>12, <2>3, BootstrapQueued DEF N
  <2> QED BY <1>12, <2>1, <2>2, <2>4, MoveReady
<1>13. CASE w.phase = "draining" /\ Reduce(drained)
  <2>1. Keeps(ready, drained, {"op"}) /\ drained.op = "none"
    BY <1>8 DEF Keeps, Typed, Fields
  <2> HIDE DEF drained
  <2>2. Typed(drained)
    BY <1>8, <2>1 DEF Keeps, Typed, Fields
  <2>3. /\ drained.out = ready.out /\ drained.kind = kind /\ drained.queue = w.queue \cup N
        /\ drained.consumed = w.consumed /\ drained.delivery = w.delivery /\ drained.after = w.after
        /\ drained.phase = "draining" /\ drained.pub = "none" /\ drained.jobs = w.jobs \ {"bootstrap"}
    BY <1>9, <1>11, <1>13, <2>1 DEF Keeps, Fields
  <2>4. Ready(drained, overtaken, arrived, payload)
    BY <1>12, <2>1, <2>2, <2>3
  <2> QED BY <1>13, <2>4
<1>14. CASE w.phase # "draining" /\ (Reduce(beating) \/ Reduce(sampling))
  <2>1. Keeps(ready, readying, {"phase", "accepted"}) /\ readying.phase = "readying" /\ readying.accepted = resumed
    BY <1>8 DEF Keeps, Typed, Fields
  <2> HIDE DEF readying
  <2>2. Typed(readying) /\ readying.pub = "none"
    BY <1>8, <1>9, <1>11, <2>1 DEF Keeps, Typed, Fields, Phases
  <2>3. /\ Typed(snapped) /\ Keeps(readying, snapped, {"pub", "jobs"})
        /\ \/ snapped.pub = "none" /\ snapped.jobs = readying.jobs
           \/ snapped.pub = "ready_snapshot" /\ snapped.jobs = readying.jobs \cup {"snapshot"}
    <3> DEFINE b == BeginSnapshot(readying, "ready_snapshot")
    <3>1. Typed(b) /\ Keeps(readying, b, {"pub", "jobs"}) /\ b.pub = "ready_snapshot"
          /\ b.jobs = readying.jobs \cup {"snapshot"}
      BY <2>2, SnapshotFacts DEF Publications
    <3>2. Keeps(readying, readying, {"pub", "jobs"})
      BY <2>2 DEF Keeps, Typed
    <3> HIDE DEF b
    <3>3. snapped = b \/ snapped = readying
      BY DEF b
    <3> HIDE DEF snapped
    <3> QED BY <2>2, <3>1, <3>2, <3>3
  <2> HIDE DEF snapped
  <2>4. Typed(beating) /\ Keeps(snapped, beating, {"timers"})
    BY <2>3, ArmFacts DEF Timers
  <2> HIDE DEF beating
  <2>5. Keeps(beating, c, {"cred"}) /\ c.cred = "sampling"
    BY <2>4 DEF Keeps, Typed, Fields
  <2> HIDE DEF c
  <2>6. Typed(c)
    BY <2>4, <2>5 DEF Keeps, Typed, Fields, Credentials
  <2>7. Typed(sampling) /\ Keeps(c, sampling, {"jobs"}) /\ sampling.jobs = c.jobs \cup {"sample"}
    BY <2>6, LaunchFacts DEF Jobs
  <2> HIDE DEF sampling
  <2>8. /\ beating.out = ready.out /\ beating.kind = kind /\ beating.queue = w.queue \cup N
        /\ beating.consumed = w.consumed /\ beating.delivery = w.delivery /\ beating.after = w.after
        /\ beating.phase = "readying" /\ beating.pub = snapped.pub /\ beating.jobs = snapped.jobs
        /\ readying.jobs = w.jobs \ {"bootstrap"}
    BY <1>9, <2>1, <2>3, <2>4 DEF Keeps, Fields
  <2>9. /\ sampling.out = ready.out /\ sampling.kind = kind /\ sampling.queue = w.queue \cup N
        /\ sampling.consumed = w.consumed /\ sampling.delivery = w.delivery /\ sampling.after = w.after
        /\ sampling.phase = "readying" /\ sampling.pub = snapped.pub /\ sampling.jobs = snapped.jobs \cup {"sample"}
    BY <2>5, <2>7, <2>8 DEF Keeps, Fields
  <2>10. Ready(beating, overtaken, arrived, payload)
    BY <1>12, <2>3, <2>4, <2>8
  <2>11. Ready(sampling, overtaken, arrived, payload)
    BY <1>12, <2>3, <2>7, <2>8, <2>9
  <2> QED BY <1>14, <2>10, <2>11
<1> QED BY <1>1, <1>13, <1>14

LEMMA BootstrapFailedReady ==
    ASSUME FInv, BootstrapFailed
    PROVE  \E s : Ready(s, overtaken, arrived, payload) /\ Reduce(s)
<1> DEFINE d == Done("bootstrap")
           drained == [d EXCEPT !.op = "none"]
           s == WorkerFailed(d, TRUE)
<1>1. /\ Alive /\ "bootstrap" \in w.jobs
      /\ \/ w.phase = "draining" /\ Reduce(drained)
         \/ w.phase # "draining" /\ Reduce(s)
  BY DEF BootstrapFailed
<1>2. /\ Good(w) /\ Way(w, overtaken) /\ (~overtaken => Queued(w, arrived, payload))
      /\ Typed(d) /\ Keeps(w, d, {"out", "jobs"}) /\ Hush(d) /\ d.jobs = w.jobs \ {"bootstrap"}
  BY <1>1, FlowQuiet
<1> HIDE DEF d
<1>3. w.pub = "none" /\ (w.phase = "bootstrapping" \/ (w.phase = "draining" /\ w.op = "bootstrap"))
  BY <1>1, <1>2 DEF Good
<1>4. CASE w.phase = "draining" /\ Reduce(drained)
  <2>1. Keeps(d, drained, {"op"}) /\ drained.op = "none"
    BY <1>2 DEF Keeps, Typed, Fields
  <2> HIDE DEF drained
  <2>2. Typed(drained)
    BY <1>2, <2>1 DEF Keeps, Typed, Fields
  <2>3. /\ drained.kind = w.kind /\ drained.pi = w.pi /\ drained.queue = w.queue /\ drained.consumed = w.consumed
        /\ drained.out = d.out /\ drained.delivery = w.delivery /\ drained.pub = "none" /\ drained.after = w.after
        /\ drained.phase = "draining" /\ drained.jobs = w.jobs \ {"bootstrap"}
    BY <1>2, <1>3, <1>4, <2>1 DEF Keeps, Fields
  <2>4. Hush(drained)
    BY <1>2, <2>3, StillFacts
  <2>5. Way(drained, overtaken)
    BY <1>2, <2>1, <2>3 DEF Way, Taking
  <2>6. ~overtaken => Queued(drained, arrived, payload)
    BY <1>2, <2>3, QueuedKept
  <2>7. Ready(drained, overtaken, arrived, payload)
    BY <2>2, <2>3, <2>4, <2>5, <2>6, MoveReady
  <2> QED BY <1>4, <2>7
<1>5. CASE w.phase # "draining" /\ Reduce(s)
  <2>1. /\ Typed(s) /\ Keeps(d, s, {"out", "pub", "phase", "timers", "jobs", "after"})
        /\ \/ s.phase = "exited"
           \/ s.pub = "fatal_snapshot" /\ s.jobs = d.jobs \cup {"snapshot"} /\ s.phase = d.phase
    BY <1>2, FailedFacts
  <2>2. Still(d, s) /\ (s.phase = "exited" \/ s.after # "none")
    BY <1>2, FailedStill
  <2> HIDE DEF s
  <2>3. /\ s.kind = w.kind /\ s.pi = w.pi /\ s.queue = w.queue /\ s.consumed = w.consumed
        /\ s.delivery = w.delivery /\ d.phase = w.phase
    BY <1>2, <2>1 DEF Keeps, Fields
  <2>4. Hush(s)
    BY <1>2, <2>2, StillFacts
  <2>5. CASE s.phase = "exited"
    BY <1>5, <2>1, <2>3, <2>4, <2>5, ExitReady
  <2>6. CASE s.phase # "exited"
    <3>1. /\ s.pub = "fatal_snapshot" /\ s.jobs = (w.jobs \ {"bootstrap"}) \cup {"snapshot"}
          /\ s.phase = "bootstrapping" /\ s.after # "none"
      BY <1>2, <1>3, <1>5, <2>1, <2>2, <2>3, <2>6
    <3>2. Way(s, overtaken)
      BY <1>2, <2>3, <3>1 DEF Way, Taking
    <3>3. ~overtaken => Queued(s, arrived, payload)
      BY <1>2, <2>3, <3>1, QueuedKept
    <3> QED BY <1>5, <2>1, <2>3, <2>4, <3>2, <3>3, MoveReady
  <2> QED BY <2>5, <2>6
<1> QED BY <1>1, <1>4, <1>5

LEMMA ActivatedReady ==
    ASSUME FInv, ActivationSucceeded
    PROVE  \E s : Ready(s, overtaken, arrived, payload) /\ Reduce(s)
<1> DEFINE d == Done("activate")
           k == (w.kind = "llm")
           live == [d EXCEPT !.pi = k]
           drained == [live EXCEPT !.op = "none"]
           s == [live EXCEPT !.phase = "active", !.turn = "pending"]
<1>1. /\ Alive /\ "activate" \in w.jobs
      /\ \/ w.phase = "draining" /\ Reduce(drained)
         \/ w.phase # "draining" /\ Reduce(s)
  BY DEF ActivationSucceeded
<1>2. /\ Good(w) /\ Way(w, overtaken) /\ (~overtaken => Queued(w, arrived, payload))
      /\ Typed(d) /\ Keeps(w, d, {"out", "jobs"}) /\ Hush(d) /\ d.jobs = w.jobs \ {"activate"}
  BY <1>1, FlowQuiet
<1>3. k \in BOOLEAN /\ (w.kind = "none" => k = FALSE)
  OBVIOUS
<1> HIDE DEF d, k
<1>4. Keeps(d, live, {"pi"}) /\ live.pi = k
  BY <1>2 DEF Keeps, Typed, Fields
<1> HIDE DEF live
<1>5. Typed(live)
  BY <1>2, <1>3, <1>4 DEF Keeps, Typed, Fields
<1>6. Keeps(w, live, {"out", "jobs", "pi"}) /\ live.jobs = w.jobs \ {"activate"} /\ live.out = d.out
  BY <1>2, <1>4 DEF Keeps, Fields
<1>7. w.pub = "none" /\ "bootstrap" \notin w.jobs /\ (w.phase = "activating" \/ (w.phase = "draining" /\ w.op = "activation"))
  BY <1>1, <1>2 DEF Good
<1>8. ASSUME NEW t, Typed(t), t.out = d.out, t.kind = w.kind, t.pi = k, t.queue = w.queue, t.consumed = w.consumed,
             t.delivery = w.delivery, t.pub = w.pub, t.jobs = w.jobs \ {"activate"},
             t.phase = "active" \/ (t.phase = "draining" /\ t.op = "none")
      PROVE  Ready(t, overtaken, arrived, payload)
  <2>1. Hush(t)
    BY <1>2, <1>8, StillFacts
  <2>2. Way(t, overtaken)
    BY <1>2, <1>7, <1>8 DEF Way, Taking
  <2>3. ~overtaken => Queued(t, arrived, payload)
    BY <1>2, <1>3, <1>7, <1>8 DEF Queued
  <2> QED BY <1>8, <2>1, <2>2, <2>3, MoveReady
<1>9. CASE w.phase = "draining" /\ Reduce(drained)
  <2>1. Keeps(live, drained, {"op"}) /\ drained.op = "none"
    BY <1>5 DEF Keeps, Typed, Fields
  <2> HIDE DEF drained
  <2>2. Typed(drained)
    BY <1>5, <2>1 DEF Keeps, Typed, Fields
  <2>3. /\ drained.out = d.out /\ drained.kind = w.kind /\ drained.pi = k /\ drained.queue = w.queue
        /\ drained.consumed = w.consumed /\ drained.delivery = w.delivery /\ drained.pub = w.pub
        /\ drained.jobs = w.jobs \ {"activate"} /\ drained.phase = "draining"
    BY <1>4, <1>6, <1>9, <2>1 DEF Keeps, Fields
  <2>4. Ready(drained, overtaken, arrived, payload)
    BY <1>8, <2>1, <2>2, <2>3
  <2> QED BY <1>9, <2>4
<1>10. CASE w.phase # "draining" /\ Reduce(s)
  <2>1. Keeps(live, s, {"phase", "turn"}) /\ s.phase = "active" /\ s.turn = "pending"
    BY <1>5 DEF Keeps, Typed, Fields
  <2> HIDE DEF s
  <2>2. Typed(s)
    BY <1>5, <2>1 DEF Keeps, Typed, Fields, Phases
  <2>3. /\ s.out = d.out /\ s.kind = w.kind /\ s.pi = k /\ s.queue = w.queue
        /\ s.consumed = w.consumed /\ s.delivery = w.delivery /\ s.pub = w.pub
        /\ s.jobs = w.jobs \ {"activate"}
    BY <1>4, <1>6, <2>1 DEF Keeps, Fields
  <2>4. Ready(s, overtaken, arrived, payload)
    BY <1>8, <2>1, <2>2, <2>3
  <2> QED BY <1>10, <2>4
<1> QED BY <1>1, <1>9, <1>10

\* A completion that only takes its job away.
LEMMA DoneReady ==
    ASSUME FInv, Alive, NEW job \in {"activate", "turn", "sample"}
    PROVE  Ready(Done(job), overtaken, arrived, payload)
<1> DEFINE d == Done(job)
<1>1. Typed(d) /\ Keeps(w, d, {"out", "jobs"}) /\ Hush(d) /\ d.jobs = w.jobs \ {job}
  BY FlowQuiet
<1> HIDE DEF d
<1>2. Ready(d, overtaken, arrived, payload)
  BY <1>1, SameReady DEF Keeps
<1> QED BY <1>2 DEF d

\* The operation of a draining worker is over.
LEMMA DrainedReady ==
    ASSUME NEW s, NEW o, NEW a, NEW p, Ready(s, o, a, p), s.phase = "draining", "bootstrap" \notin s.jobs
    PROVE  LET t == [s EXCEPT !.op = "none"]
           IN  Ready(t, o, a, p) /\ Keeps(s, t, {"op"})
<1> DEFINE t == [s EXCEPT !.op = "none"]
<1>1. Keeps(s, t, {"op"}) /\ t.op = "none"
  BY DEF Ready, Keeps, Typed, Fields
<1> HIDE DEF t
<1>2. Typed(t)
  BY <1>1 DEF Ready, Keeps, Typed, Fields
<1>3. /\ t.kind = s.kind /\ t.pi = s.pi /\ t.queue = s.queue /\ t.consumed = s.consumed /\ t.out = s.out
      /\ t.delivery = s.delivery /\ t.phase = s.phase /\ t.pub = s.pub /\ t.after = s.after /\ t.jobs = s.jobs
  BY <1>1 DEF Keeps, Fields
<1>4. Way(t, o)
  BY <1>1, <1>3 DEF Ready, Fit, Way, Taking
<1>5. ~o => Queued(t, a, p)
  BY <1>3, QueuedKept DEF Ready, Fit
<1> QED BY <1>1, <1>2, <1>3, <1>4, <1>5 DEF Ready, Fit, t

LEMMA OperationFailedReady ==
    ASSUME FInv, NEW job \in {"activate", "turn"}, OperationFailed(job)
    PROVE  \E s : Ready(s, overtaken, arrived, payload) /\ Reduce(s)
<1> DEFINE d == Done(job)
           drained == [d EXCEPT !.op = "none"]
<1>1. /\ Alive /\ job \in w.jobs
      /\ \/ w.phase = "draining" /\ Reduce(drained)
         \/ Reduce(DispatchFailed(d))
  BY DEF OperationFailed
<1>2. Good(w) /\ Keeps(w, d, {"out", "jobs"}) /\ d.jobs = w.jobs \ {job}
  BY <1>1, FlowQuiet
<1>3. Ready(d, overtaken, arrived, payload)
  BY <1>1, DoneReady
<1> HIDE DEF d
<1>4. Ready(DispatchFailed(d), overtaken, arrived, payload)
  BY <1>3, DispatchReady
<1>5. CASE w.phase = "draining"
  <2>1. d.phase = "draining" /\ "bootstrap" \notin d.jobs
    BY <1>1, <1>2, <1>5 DEF Keeps, Fields, Good
  <2>2. Ready(drained, overtaken, arrived, payload)
    BY <1>3, <2>1, DrainedReady
  <2> QED BY <1>1, <1>4, <2>2
<1> QED BY <1>1, <1>4, <1>5

\* The beginning of a queue begins with its least input.
LEMMA HeadsMin ==
    ASSUME NEW D, NEW Q, D \subseteq Q, Q \subseteq Inputs, D # {}, Heads(D, Q)
    PROVE  Min(Q) = Min(D)
<1>1. Q \subseteq Nat /\ \A i \in Q : i \in Int
  BY DEF Inputs
<1>2. PICK x \in D : \A y \in D : x <= y
  BY <1>1, LeastNat
<1>3. ASSUME NEW y \in Q PROVE x <= y
  <2>1. CASE y < x
    BY <1>2, <1>3, <2>1 DEF Heads
  <2> QED BY <1>1, <1>2, <1>3, <2>1
<1>4. Min(D) = x
  <2>1. Min(D) \in D /\ \A y \in D : Min(D) <= y
    BY <1>2 DEF Min
  <2>2. Min(D) <= x /\ x <= Min(D) /\ Min(D) \in Int /\ x \in Int
    BY <1>1, <1>2, <2>1
  <2> QED BY <2>2
<1>5. Min(Q) = x
  <2>1. Min(Q) \in Q /\ \A y \in Q : Min(Q) <= y
    BY <1>2, <1>3 DEF Min
  <2>2. Min(Q) <= x /\ x <= Min(Q) /\ Min(Q) \in Int /\ x \in Int
    BY <1>1, <1>2, <1>3, <2>1
  <2> QED BY <2>2
<1> QED BY <1>4, <1>5

LEMMA DeliveredReady ==
    ASSUME FInv, InputsDelivered \/ InputDeliveryFailed
    PROVE  \E s : Ready(s, overtaken, arrived, payload) /\ Reduce(s)
<1> DEFINE d == Done("deliver")
           c == [d EXCEPT !.delivery = {}]
<1>1. /\ Alive /\ "deliver" \in w.jobs
      /\ \/ Reduce(Consume(c, w.delivery))
         \/ Min(w.queue) # Min(w.delivery) /\ Reduce(d)
         \/ Reduce(c)
         \/ Reduce(DispatchFailed(c))
  <2>1. CASE InputsDelivered
    BY <2>1 DEF InputsDelivered
  <2>2. CASE InputDeliveryFailed
    BY <2>2 DEF InputDeliveryFailed
  <2> QED BY <2>1, <2>2
<1>2. /\ Good(w) /\ Way(w, overtaken) /\ (~overtaken => Queued(w, arrived, payload)) /\ Typed(w) /\ IInv
      /\ Typed(d) /\ Keeps(w, d, {"out", "jobs"}) /\ Hush(d) /\ d.jobs = w.jobs \ {"deliver"} /\ w.phase # "exited"
  BY <1>1, FlowQuiet
<1> HIDE DEF d
<1>3. Keeps(d, c, {"delivery"}) /\ c.delivery = {}
  BY <1>2 DEF Keeps, Typed, Fields
<1> HIDE DEF c
<1>4. Typed(c)
  BY <1>2, <1>3 DEF Keeps, Typed, Fields
<1>5. /\ c.kind = w.kind /\ c.pi = w.pi /\ c.queue = w.queue /\ c.consumed = w.consumed /\ c.out = d.out
      /\ c.pub = w.pub /\ c.phase = w.phase /\ c.op = w.op /\ c.after = w.after /\ c.jobs = w.jobs \ {"deliver"}
  BY <1>2, <1>3 DEF Keeps, Fields
<1>6. Ready(c, overtaken, arrived, payload)
  <2>1. Hush(c)
    BY <1>2, <1>5, StillFacts
  <2>2. Way(c, overtaken)
    BY <1>2, <1>3, <1>5 DEF Way, Taking
  <2>3. ~overtaken => Queued(c, arrived, payload)
    BY <1>2, <1>3, <1>5 DEF Queued, Heads
  <2> QED BY <1>4, <1>5, <2>1, <2>2, <2>3, MoveReady
<1>7. Ready(DispatchFailed(c), overtaken, arrived, payload)
  BY <1>6, DispatchReady
<1>8. ~overtaken => Heads(w.delivery, w.queue)
  BY <1>2 DEF Queued
<1>9. Ready(Consume(c, w.delivery), overtaken, arrived, payload)
  <2>1. arrived \subseteq Inputs /\ payload \in 0..MaxInput /\ w.consumed \in Nat /\ w.delivery \in SUBSET Inputs
    BY <1>2 DEF IInv, Env, Typed
  <2> QED BY <1>2, <1>3, <1>5, <1>6, <1>8, <2>1, ConsumeReady
<1>10. ASSUME Min(w.queue) # Min(w.delivery) PROVE Ready(d, overtaken, arrived, payload)
  <2>1. w.delivery # {} /\ w.queue \subseteq Inputs
    BY <1>1, <1>2 DEF Good, Typed
  <2>2. overtaken
    <3> SUFFICES ASSUME ~overtaken PROVE FALSE
      OBVIOUS
    <3>1. Heads(w.delivery, w.queue) /\ w.delivery \subseteq w.queue
      BY <1>8 DEF Heads
    <3> QED BY <1>10, <2>1, <3>1, HeadsMin
  <2>3. /\ d.pub = w.pub /\ d.phase = w.phase /\ d.op = w.op /\ d.after = w.after /\ d.consumed = w.consumed
    BY <1>2 DEF Keeps, Fields
  <2>4. Way(d, overtaken)
    BY <1>2, <2>2, <2>3 DEF Way, Taking
  <2> QED BY <1>2, <2>2, <2>3, <2>4, MoveReady
<1> QED BY <1>1, <1>6, <1>7, <1>9, <1>10

\* The applied inputs that leave are the beginning of the queue, and none leaves
\* while others are delivered.
LEMMA AppliedHeads ==
    ASSUME NEW Q \in SUBSET Inputs, NEW S, S \subseteq Q \cap Targeted, NEW D, Heads(D, Q), D \cap Targeted = {}
    PROVE  LET R == {t \in S : \A i \in Q : i <= t => i \in S}
           IN  Heads(R, Q) /\ (R = {} \/ D = {})
<1> DEFINE R == {t \in S : \A i \in Q : i <= t => i \in S}
<1>1. \A i \in Q : i \in Int
  BY DEF Inputs
<1>2. ASSUME NEW i \in Q, NEW d \in R, i < d PROVE i \in R
  <2>1. d \in Q /\ i <= d
    BY <1>1, <1>2
  <2>2. i \in S
    BY <1>2, <2>1
  <2>3. ASSUME NEW k \in Q, k <= i PROVE k \in S
    <3>1. k <= d
      BY <1>1, <1>2, <2>1, <2>3
    <3> QED BY <1>2, <2>3, <3>1
  <2> QED BY <2>2, <2>3
<1>3. ASSUME NEW t \in R, NEW d \in D PROVE FALSE
  <2>1. t \in Q /\ t \in Targeted /\ t \in S /\ d \in Q /\ d \notin Targeted
    BY <1>3 DEF Heads
  <2>2. CASE t < d
    BY <2>1, <2>2 DEF Heads
  <2>3. CASE d <= t
    BY <1>3, <2>1, <2>3
  <2> QED BY <1>1, <2>1, <2>2, <2>3
<1>4. Heads(R, Q)
  BY <1>2 DEF Heads
<1> QED BY <1>3, <1>4

LEMMA TurnCompletedReady ==
    ASSUME FInv, NEW result \in {"turn_outcome", "turn_failed", "parked"}, NEW S \in SUBSET Targeted,
           TurnCompleted(result, S)
    PROVE  \E s : Ready(s, overtaken, arrived, payload) /\ Reduce(s)
<1> DEFINE d == Done("turn")
           ended == IF w.phase = "draining" THEN [d EXCEPT !.op = "none"]
                    ELSE [d EXCEPT !.turn = "completed"]
           R == {t \in S : \A i \in ended.queue : i <= t => i \in S}
           applied == Consume(ended, R)
           pending == [applied EXCEPT !.fact = result]
           held == BeginSnapshot(pending, "terminal_snapshot")
<1>1. /\ Alive /\ "turn" \in w.jobs /\ S \subseteq w.queue \cap Targeted
      /\ \/ Reduce(Emit(applied, Fact("parked")))
         \/ result # "parked" /\ Reduce(PublishTerminal(pending))
         \/ result # "parked" /\ Reduce(held)
  <2> DEFINE a == result = "parked"
             b == result # "parked" /\ w.kind = "automatic"
             e == Emit(applied, Fact("parked"))
             p == PublishTerminal(pending)
             x == CASE a -> e [] b -> p [] OTHER -> held
  <2>1. Alive /\ "turn" \in w.jobs /\ S \subseteq w.queue \cap Targeted /\ Reduce(x)
    BY DEF TurnCompleted, Applied
  <2>2. (b => ~a) /\ (~a <=> result # "parked")
    OBVIOUS
  <2>3. x = e \/ (~a /\ x = p) \/ (~a /\ x = held)
    <3> HIDE DEF a, b, e, p, held
    <3> QED BY <2>2
  <2> HIDE DEF x, a
  <2> QED BY <2>1, <2>2, <2>3
<1>2. /\ Good(w) /\ Typed(w) /\ IInv /\ w.phase # "exited" /\ (~overtaken => Queued(w, arrived, payload))
      /\ Typed(d) /\ Keeps(w, d, {"out", "jobs"}) /\ d.jobs = w.jobs \ {"turn"}
  BY <1>1, FlowQuiet
<1>3. Ready(d, overtaken, arrived, payload)
  BY <1>1, DoneReady
<1>4. w.pub = "none" /\ "bootstrap" \notin w.jobs /\ (w.phase = "active" \/ (w.phase = "draining" /\ w.op = "turn"))
  BY <1>1, <1>2 DEF Good
<1> HIDE DEF d
<1>5. /\ Ready(ended, overtaken, arrived, payload)
      /\ Keeps(d, ended, {"op", "turn"}) /\ Typed(ended)
  <2>1. CASE w.phase = "draining"
    <3> DEFINE t == [d EXCEPT !.op = "none"]
    <3>1. d.phase = "draining" /\ "bootstrap" \notin d.jobs
      BY <1>2, <1>4, <2>1 DEF Keeps, Fields
    <3>2. Ready(t, overtaken, arrived, payload) /\ Keeps(d, t, {"op"})
      BY <1>3, <3>1, DrainedReady
    <3>3. ended = t
      BY <2>1
    <3> HIDE DEF t, ended
    <3> QED BY <3>2, <3>3 DEF Ready, Keeps, Fields
  <2>2. CASE w.phase # "draining"
    <3> DEFINE t == [d EXCEPT !.turn = "completed"]
    <3>1. Keeps(d, t, {"turn"}) /\ t.turn = "completed"
      BY <1>2 DEF Keeps, Typed, Fields
    <3>2. ended = t
      BY <2>2
    <3> HIDE DEF t, ended
    <3>3. Typed(t)
      BY <1>2, <3>1 DEF Keeps, Typed, Fields
    <3>4. Keeps(d, t, {"stage", "turn", "accepted", "fact", "tainted", "cred", "base", "timers", "out"})
          /\ Keeps(d, t, {"op", "turn"}) /\ t.out = d.out
      BY <3>1 DEF Keeps, Fields
    <3>5. Still(d, t)
      BY <3>4, StillFacts
    <3>6. Ready(t, overtaken, arrived, payload)
      BY <1>3, <3>3, <3>4, <3>5, StillReady
    <3> QED BY <3>2, <3>3, <3>4, <3>6
  <2> QED BY <2>1, <2>2
<1> HIDE DEF ended
<1>6. /\ ended.queue = w.queue /\ ended.delivery = w.delivery /\ ended.phase = w.phase /\ ended.pub = "none"
      /\ ended.consumed = w.consumed /\ ended.jobs = w.jobs \ {"turn"}
  BY <1>2, <1>4, <1>5 DEF Keeps, Fields
<1>7. R \in SUBSET Inputs
  BY TargetedAssumption DEF Inputs
<1>8. ~overtaken => Heads(R, ended.queue) /\ (R = {} \/ ended.delivery = {})
  <2> SUFFICES ASSUME ~overtaken PROVE Heads(R, ended.queue) /\ (R = {} \/ ended.delivery = {})
    OBVIOUS
  <2>1. Heads(ended.delivery, ended.queue) /\ ended.delivery \cap Targeted = {}
    BY <1>2, <1>6 DEF Queued
  <2>2. ended.queue \in SUBSET Inputs /\ S \subseteq ended.queue \cap Targeted
    BY <1>1, <1>5, <1>6 DEF Typed
  <2> QED BY <2>1, <2>2, AppliedHeads
<1> HIDE DEF R
<1>9. Ready(applied, overtaken, arrived, payload) /\ Keeps(ended, applied, {"queue", "consumed", "out"})
  <2>1. arrived \subseteq Inputs /\ payload \in 0..MaxInput /\ w.consumed \in Nat
    BY <1>2 DEF IInv, Env, Typed
  <2> QED BY <1>2, <1>5, <1>6, <1>7, <1>8, <2>1, ConsumeReady
<1> HIDE DEF applied
<1>10. Typed(applied)
  BY <1>9 DEF Ready
<1>11. Ready(Emit(applied, Fact("parked")), overtaken, arrived, payload)
  <2> DEFINE t == Emit(applied, Fact("parked"))
  <2>1. Typed(t) /\ Keeps(applied, t, {"out"}) /\ Still(applied, t)
    BY <1>10, ParkedStill
  <2> HIDE DEF t
  <2>2. Keeps(applied, t, {"stage", "turn", "accepted", "fact", "tainted", "cred", "base", "timers", "out"})
    BY <2>1 DEF Keeps
  <2>3. Ready(t, overtaken, arrived, payload)
    BY <1>9, <2>1, <2>2, StillReady
  <2> QED BY <2>3 DEF t
<1>12. CASE result # "parked"
  <2>1. Keeps(applied, pending, {"fact"}) /\ pending.fact = result
    BY <1>10 DEF Keeps, Typed, Fields
  <2> HIDE DEF pending
  <2>2. Typed(pending)
    BY <1>10, <1>12, <2>1 DEF Keeps, Typed, Fields
  <2>3. /\ Keeps(applied, pending, {"stage", "turn", "accepted", "fact", "tainted", "cred", "base", "timers", "out"})
        /\ pending.out = applied.out /\ pending.pub = "none" /\ pending.phase = w.phase
    BY <1>6, <1>9, <2>1 DEF Keeps, Fields
  <2>4. Still(applied, pending)
    BY <2>3, StillFacts
  <2>5. Ready(pending, overtaken, arrived, payload)
    BY <1>9, <2>2, <2>3, <2>4, StillReady
  <2>6. ASSUME NEW t, Typed(t), Keeps(pending, t, {"pub", "jobs", "out", "timers"}), Still(pending, t),
               pending.jobs \subseteq t.jobs, "bootstrap" \notin t.jobs,
               t.pub = "terminal_pending_ack" \/ (t.pub = "terminal_snapshot" /\ "snapshot" \in t.jobs)
        PROVE  Ready(t, overtaken, arrived, payload)
    <3>1. /\ t.kind = pending.kind /\ t.pi = pending.pi /\ t.queue = pending.queue /\ t.consumed = pending.consumed
          /\ t.delivery = pending.delivery /\ t.phase = pending.phase /\ t.op = pending.op /\ t.after = pending.after
      BY <2>6 DEF Keeps, Fields
    <3>2. Way(pending, overtaken) /\ (~overtaken => Queued(pending, arrived, payload)) /\ t.phase # "exited"
      BY <1>2, <2>3, <2>5, <3>1 DEF Ready, Fit
    <3>3. Way(t, overtaken)
      BY <2>3, <2>6, <3>1, <3>2 DEF Way, Taking
    <3>4. ~overtaken => Queued(t, arrived, payload)
      BY <2>6, <3>1, <3>2, QueuedKept
    <3> QED BY <2>5, <2>6, <3>1, <3>3, <3>4 DEF Ready, Fit, Still
  <2>7. "bootstrap" \notin pending.jobs
    BY <1>4, <1>6, <1>9, <2>1 DEF Keeps, Fields
  <2>8. Ready(PublishTerminal(pending), overtaken, arrived, payload)
    <3> DEFINE t == PublishTerminal(pending)
    <3>1. Typed(t) /\ Keeps(pending, t, {"out", "pub", "timers"}) /\ t.pub = "terminal_pending_ack" /\ Still(pending, t)
      BY <2>2, PublishStill
    <3> HIDE DEF t
    <3>2. t.jobs = pending.jobs /\ Keeps(pending, t, {"pub", "jobs", "out", "timers"})
      BY <3>1 DEF Keeps, Fields
    <3>3. Ready(t, overtaken, arrived, payload)
      BY <2>6, <2>7, <3>1, <3>2
    <3> QED BY <3>3 DEF t
  <2>9. Ready(held, overtaken, arrived, payload)
    <3>1. /\ Typed(held) /\ Keeps(pending, held, {"pub", "jobs"})
          /\ held.pub = "terminal_snapshot" /\ held.jobs = pending.jobs \cup {"snapshot"}
      BY <2>2, <2>3, SnapshotFacts DEF Publications
    <3> HIDE DEF held
    <3>2. held.out = pending.out /\ Keeps(pending, held, {"pub", "jobs", "out", "timers"})
      BY <3>1 DEF Keeps, Fields
    <3>3. Still(pending, held)
      BY <3>2, StillFacts
    <3> QED BY <2>6, <2>7, <3>1, <3>2, <3>3
  <2> QED BY <1>1, <1>11, <2>8, <2>9
<1> QED BY <1>1, <1>11, <1>12

LEMMA SnapshotReady ==
    ASSUME FInv, NEW ok \in BOOLEAN, SnapshotCompleted(ok)
    PROVE  \E s : Ready(s, overtaken, arrived, payload) /\ Reduce(s)
<1> DEFINE s == Done("snapshot")
           c == [s EXCEPT !.pub = "none"]
           r == [c EXCEPT !.stage = "resources"]
           q == [s EXCEPT !.stage = "resources", !.pub = "fatal_pending_cleanup"]
           p == PublishTerminal(s)
           f == SnapshotFailed(c)
           l == Launch(r, "cleanup")
           e == WorkerFailed(c, TRUE)
           h == FinishFatal(s)
           m == Launch(q, "cleanup")
<1>1. Alive
  BY DEF SnapshotCompleted
<1>2. /\ Good(w) /\ Typed(w) /\ w.phase # "exited" /\ Way(w, overtaken) /\ (~overtaken => Queued(w, arrived, payload))
      /\ Typed(s) /\ Keeps(w, s, {"out", "jobs"}) /\ Hush(s) /\ s.jobs = w.jobs \ {"snapshot"}
  BY <1>1, FlowQuiet
<1>3. \/ w.pub = "ready_snapshot" /\ Reduce(c)
      \/ w.pub = "terminal_snapshot" /\ (Reduce(p) \/ Reduce(f))
      \/ w.pub = "cleanup_snapshot" /\ (Reduce(l) \/ Reduce(e))
      \/ Reduce(h)
      \/ w.pub = "fatal_snapshot" /\ w.after = "cleanup" /\ Reduce(m)
      \/ w.pub \notin Taking /\ Reduce(s)
  <2> DEFINE a1 == w.pub = "ready_snapshot"
             a2 == w.pub = "terminal_snapshot"
             a3 == w.pub = "cleanup_snapshot"
             a4 == w.pub = "fatal_snapshot" /\ w.after = "exit"
             a5 == w.pub = "fatal_snapshot" /\ w.after = "cleanup"
             x == CASE a1 -> c [] a2 -> (IF ok THEN p ELSE f) [] a3 -> (IF ok THEN l ELSE e)
                    [] a4 -> h [] a5 -> m [] OTHER -> s
  <2>1. Reduce(x)
    BY DEF SnapshotCompleted
  <2>2. ~a1 /\ ~a2 /\ ~a3 /\ ~a4 /\ ~a5 => w.pub \notin Taking
    BY <1>2 DEF Typed, Way, Taking
  <2>3. \/ a1 /\ x = c
        \/ a2 /\ (x = p \/ x = f)
        \/ a3 /\ (x = l \/ x = e)
        \/ x = h
        \/ a5 /\ x = m
        \/ ~a1 /\ ~a2 /\ ~a3 /\ ~a4 /\ ~a5 /\ x = s
    <3> HIDE DEF a1, a2, a3, a4, a5, c, p, f, l, e, h, m, s
    <3> QED OBVIOUS
  <2> HIDE DEF x, c, p, f, l, e, h, m, s
  <2>4. (a1 <=> w.pub = "ready_snapshot") /\ (a2 <=> w.pub = "terminal_snapshot") /\ (a3 <=> w.pub = "cleanup_snapshot")
        /\ (a5 <=> w.pub = "fatal_snapshot" /\ w.after = "cleanup")
    OBVIOUS
  <2> HIDE DEF a1, a2, a3, a4, a5
  <2> QED BY <2>1, <2>2, <2>3, <2>4
<1> HIDE DEF s
<1>4. Keeps(s, c, {"pub"}) /\ c.pub = "none"
  BY <1>2 DEF Keeps, Typed, Fields
<1> HIDE DEF c
<1>5. Typed(c)
  BY <1>2, <1>4 DEF Keeps, Typed, Fields, Publications
\* A state that differs from w in the publication and its jobs.
<1>6. ASSUME NEW t, Typed(t), Hush(t), Keeps(w, t, {"pub", "jobs", "out", "timers", "stage", "after"}),
             w.jobs \ {"snapshot"} \subseteq t.jobs, "bootstrap" \in t.jobs => "bootstrap" \in w.jobs,
             t.pub \in Taking => "snapshot" \in t.jobs,
             t.pub = "fatal_snapshot" => t.after # "none",
             t.pub = "fatal_pending_cleanup" => "cleanup" \in t.jobs /\ w.phase = "cleaning",
             w.phase = "cleaning" => "cleanup" \in t.jobs \/ t.pub \in {"cleanup_snapshot", "fatal_snapshot"},
             w.pub = "fatal_snapshot" => w.phase = "cleaning" \/ t.pub = "fatal_snapshot"
      PROVE  Ready(t, overtaken, arrived, payload)
  <2>1. /\ t.kind = w.kind /\ t.pi = w.pi /\ t.queue = w.queue /\ t.consumed = w.consumed
        /\ t.delivery = w.delivery /\ t.phase = w.phase /\ t.op = w.op
    BY <1>6 DEF Keeps, Fields
  <2>2. Way(t, overtaken)
    BY <1>2, <1>6, <2>1 DEF Way
  <2>3. ~overtaken => Queued(t, arrived, payload)
    BY <1>2, <1>6, <2>1, QueuedKept
  <2> QED BY <1>6, <2>1, <2>2, <2>3, MoveReady
<1> DEFINE F == {"pub", "jobs", "out", "timers", "stage", "after"}
<1>7. w.phase = "cleaning" => "cleanup" \in w.jobs \/ w.pub \in {"cleanup_snapshot", "fatal_snapshot"}
  BY <1>2 DEF Way
<1>8. /\ Keeps(w, c, F) /\ c.jobs = w.jobs \ {"snapshot"} /\ c.out = s.out /\ c.phase = w.phase
      /\ Keeps(w, s, F) /\ s.pub = w.pub /\ s.after = w.after /\ s.phase = w.phase
  BY <1>2, <1>4 DEF Keeps, Fields
<1>9. Hush(c)
  BY <1>2, <1>8, StillFacts
<1>10. CASE w.pub = "ready_snapshot" /\ Reduce(c)
  <2>1. Ready(c, overtaken, arrived, payload)
    BY <1>4, <1>5, <1>6, <1>7, <1>8, <1>9, <1>10 DEF Taking
  <2> QED BY <1>10, <2>1
<1>11. CASE w.pub = "terminal_snapshot" /\ Reduce(p)
  <2>1. Typed(p) /\ Keeps(s, p, {"out", "pub", "timers"}) /\ p.pub = "terminal_pending_ack" /\ Still(s, p)
    BY <1>2, PublishStill
  <2> HIDE DEF p
  <2>2. Keeps(w, p, F) /\ p.jobs = w.jobs \ {"snapshot"}
    BY <1>2, <2>1 DEF Keeps, Fields
  <2>3. Hush(p)
    BY <1>2, <2>1, StillFacts
  <2>4. Ready(p, overtaken, arrived, payload)
    BY <1>6, <1>7, <1>11, <2>1, <2>2, <2>3 DEF Taking
  <2> QED BY <1>11, <2>4
<1>12. CASE w.pub = "terminal_snapshot" /\ Reduce(f)
  <2>1. Typed(f) /\ Keeps(c, f, {"out"}) /\ Still(c, f)
    BY <1>5, ParkedStill
  <2> HIDE DEF f
  <2>2. Keeps(w, f, F) /\ f.jobs = w.jobs \ {"snapshot"} /\ f.pub = "none"
    BY <1>4, <1>8, <2>1 DEF Keeps, Fields
  <2>3. Hush(f)
    BY <1>9, <2>1, StillFacts
  <2>4. Ready(f, overtaken, arrived, payload)
    BY <1>6, <1>7, <1>12, <2>1, <2>2, <2>3 DEF Taking
  <2> QED BY <1>12, <2>4
<1>13. CASE w.pub = "cleanup_snapshot" /\ Reduce(l)
  <2>1. Keeps(c, r, {"stage"}) /\ r.stage = "resources"
    BY <1>5 DEF Keeps, Typed, Fields
  <2> HIDE DEF r
  <2>2. Typed(r)
    BY <1>5, <2>1 DEF Keeps, Typed, Fields
  <2>3. Typed(l) /\ Keeps(r, l, {"jobs"}) /\ l.jobs = r.jobs \cup {"cleanup"}
    BY <2>2, LaunchFacts DEF Jobs
  <2> HIDE DEF l
  <2>4. Keeps(w, l, F) /\ l.jobs = (w.jobs \ {"snapshot"}) \cup {"cleanup"} /\ l.out = c.out /\ l.pub = "none"
    BY <1>4, <1>8, <2>1, <2>3 DEF Keeps, Fields
  <2>5. Hush(l)
    BY <1>9, <2>4, StillFacts
  <2>6. Ready(l, overtaken, arrived, payload)
    BY <1>6, <1>13, <2>3, <2>4, <2>5 DEF Taking
  <2> QED BY <1>13, <2>6
<1>14. CASE w.pub = "cleanup_snapshot" /\ Reduce(e)
  <2>1. /\ Typed(e) /\ Keeps(c, e, {"out", "pub", "phase", "timers", "jobs", "after"})
        /\ \/ e.phase = "exited"
           \/ e.pub = "fatal_snapshot" /\ e.jobs = c.jobs \cup {"snapshot"} /\ e.phase = c.phase
    BY <1>5, FailedFacts
  <2>2. Still(c, e) /\ (e.phase = "exited" \/ e.after # "none")
    BY <1>5, FailedStill
  <2> HIDE DEF e
  <2>3. Hush(e) /\ e.consumed = w.consumed
    <3>1. Hush(e)
      BY <1>9, <2>2, StillFacts
    <3> QED BY <1>8, <2>1, <3>1 DEF Keeps, Fields
  <2>4. CASE e.phase = "exited"
    BY <1>14, <2>1, <2>3, <2>4, ExitReady
  <2>5. CASE e.phase # "exited"
    <3>1. e.pub = "fatal_snapshot" /\ e.jobs = c.jobs \cup {"snapshot"} /\ e.phase = w.phase /\ e.after # "none"
      BY <1>8, <2>1, <2>2, <2>5
    <3>2. Keeps(w, e, F) /\ e.jobs = (w.jobs \ {"snapshot"}) \cup {"snapshot"}
      BY <1>8, <2>1, <3>1 DEF Keeps, Fields
    <3>3. Ready(e, overtaken, arrived, payload)
      BY <1>6, <2>1, <2>3, <3>1, <3>2
    <3> QED BY <1>14, <3>3
  <2> QED BY <2>4, <2>5
<1>15. CASE Reduce(h)
  <2>1. Typed(h) /\ Keeps(s, h, {"out", "pub", "phase", "timers"}) /\ h.phase = "exited" /\ Still(s, h)
    BY <1>2, FatalFacts, FatalStill
  <2> HIDE DEF h
  <2>2. h.consumed = w.consumed
    BY <1>2, <2>1 DEF Keeps, Fields
  <2>3. Hush(h)
    BY <1>2, <2>1, StillFacts
  <2> QED BY <1>15, <2>1, <2>2, <2>3, ExitReady
<1>16. CASE w.pub = "fatal_snapshot" /\ w.after = "cleanup" /\ Reduce(m)
  <2>1. Keeps(s, q, {"stage", "pub"}) /\ q.stage = "resources" /\ q.pub = "fatal_pending_cleanup"
    BY <1>2 DEF Keeps, Typed, Fields
  <2> HIDE DEF q
  <2>2. Typed(q)
    BY <1>2, <2>1, SMTT(60) DEF Keeps, Typed, Fields, Publications
  <2>3. Typed(m) /\ Keeps(q, m, {"jobs"}) /\ m.jobs = q.jobs \cup {"cleanup"}
    BY <2>2, LaunchFacts DEF Jobs
  <2> HIDE DEF m
  <2>4. /\ Keeps(w, m, F) /\ m.jobs = (w.jobs \ {"snapshot"}) \cup {"cleanup"} /\ m.out = s.out
        /\ m.pub = "fatal_pending_cleanup"
    BY <1>2, <2>1, <2>3 DEF Keeps, Fields
  <2>5. Hush(m)
    BY <1>2, <2>4, StillFacts
  <2>6. w.phase = "cleaning"
    BY <1>2, <1>16 DEF Good
  <2>7. Ready(m, overtaken, arrived, payload)
    BY <1>6, <1>16, <2>3, <2>4, <2>5, <2>6 DEF Taking
  <2> QED BY <1>16, <2>7
<1>17. CASE w.pub \notin Taking /\ Reduce(s)
  <2>1. w.pub = "fatal_pending_cleanup" => "cleanup" \in w.jobs /\ w.phase = "cleaning"
    BY <1>2 DEF Way
  <2>2. Ready(s, overtaken, arrived, payload)
    BY <1>2, <1>6, <1>7, <1>8, <1>17, <2>1 DEF Taking
  <2> QED BY <1>17, <2>2
<1> QED BY <1>3, <1>10, <1>11, <1>12, <1>13, <1>14, <1>15, <1>16, <1>17

LEMMA CleanupReady ==
    ASSUME FInv, NEW ok \in BOOLEAN, CleanupCompleted(ok)
    PROVE  \E s : Ready(s, overtaken, arrived, payload) /\ Reduce(s)
<1> DEFINE d == Done("cleanup")
           e == Emit(d, Fact("cleanup_completed"))
           x == [e EXCEPT !.phase = "exited", !.timers = {}, !.kind = "none", !.queue = {}]
           b == (w.kind # "none")
           t == WorkerFailed(d, b)
           h == FinishFatal(d)
<1>1. /\ Alive /\ "cleanup" \in w.jobs
      /\ Reduce(t) \/ Reduce(h) \/ Reduce(x)
  BY DEF CleanupCompleted
<1>2. /\ Good(w) /\ Way(w, overtaken) /\ (~overtaken => Queued(w, arrived, payload))
      /\ Typed(d) /\ Keeps(w, d, {"out", "jobs"}) /\ Hush(d) /\ d.jobs = w.jobs \ {"cleanup"}
  BY <1>1, FlowQuiet
<1>3. w.phase = "cleaning" /\ b \in BOOLEAN /\ "bootstrap" \notin w.jobs
  BY <1>1, <1>2 DEF Good
<1> HIDE DEF d, b
<1>4. Ready(t, overtaken, arrived, payload)
  <2>1. /\ Typed(t) /\ Keeps(d, t, {"out", "pub", "phase", "timers", "jobs", "after"})
        /\ \/ t.phase = "exited"
           \/ t.pub = "fatal_snapshot" /\ t.jobs = d.jobs \cup {"snapshot"} /\ t.phase = d.phase
    BY <1>2, <1>3, FailedFacts
  <2>2. Still(d, t) /\ (t.phase = "exited" \/ t.after # "none")
    BY <1>2, <1>3, FailedStill
  <2> HIDE DEF t
  <2>3. /\ t.kind = w.kind /\ t.pi = w.pi /\ t.queue = w.queue /\ t.consumed = w.consumed
        /\ t.delivery = w.delivery /\ d.phase = w.phase
    BY <1>2, <2>1 DEF Keeps, Fields
  <2>4. Hush(t)
    BY <1>2, <2>2, StillFacts
  <2>5. CASE t.phase = "exited"
    BY <2>1, <2>3, <2>4, <2>5, ExitReady
  <2>6. CASE t.phase # "exited"
    <3>1. /\ t.pub = "fatal_snapshot" /\ t.jobs = (w.jobs \ {"cleanup"}) \cup {"snapshot"}
          /\ t.phase = "cleaning" /\ t.after # "none"
      BY <1>2, <1>3, <2>1, <2>2, <2>3, <2>6
    <3>2. Way(t, overtaken)
      BY <1>2, <1>3, <2>3, <3>1 DEF Way, Taking
    <3>3. ~overtaken => Queued(t, arrived, payload)
      BY <1>2, <2>3, <3>1, QueuedKept
    <3> QED BY <2>1, <2>3, <2>4, <3>2, <3>3, MoveReady
  <2> QED BY <2>5, <2>6
<1>5. Ready(h, overtaken, arrived, payload)
  <2>1. Typed(h) /\ Keeps(d, h, {"out", "pub", "phase", "timers"}) /\ h.phase = "exited" /\ Still(d, h)
    BY <1>2, FatalFacts, FatalStill
  <2> HIDE DEF h
  <2>2. h.consumed = w.consumed
    BY <1>2, <2>1 DEF Keeps, Fields
  <2>3. Hush(h)
    BY <1>2, <2>1, StillFacts
  <2> QED BY <2>1, <2>2, <2>3, ExitReady
<1>6. Ready(x, overtaken, arrived, payload)
  <2>1. Fact("cleanup_completed") \in Facts /\ Fact("cleanup_completed").type # "input_consumed"
    BY FactTypes DEF FactNames
  <2>2. Typed(e) /\ Keeps(d, e, {"out"}) /\ Still(d, e)
    BY <1>2, <2>1, EmitFacts, EmitTells
  <2> HIDE DEF e
  <2>3. /\ Keeps(e, x, {"phase", "timers", "kind", "queue"})
        /\ x.phase = "exited" /\ x.timers = {} /\ x.kind = "none" /\ x.queue = {}
    BY <2>2 DEF Keeps, Typed, Fields
  <2> HIDE DEF x
  <2>4. Typed(x)
    BY <2>2, <2>3 DEF Keeps, Typed, Fields, Phases
  <2>5. x.consumed = w.consumed /\ x.out = e.out
    BY <1>2, <2>2, <2>3 DEF Keeps, Fields
  <2>6. Hush(x)
    BY <1>2, <2>2, <2>5, StillFacts
  <2> QED BY <2>3, <2>4, <2>5, <2>6, ExitReady
<1> QED BY <1>1, <1>4, <1>5, <1>6

-----------------------------------------------------------------------------
(* The flow of inputs is an invariant *)

LEMMA FlowInit == Init => FInv
<1> SUFFICES ASSUME Init PROVE FInv
  OBVIOUS
<1>1. IInv
  BY InitHolds
<1>2. /\ w.phase = "init" /\ w.op = "none" /\ w.pub = "none" /\ w.after = "none" /\ w.kind = "none" /\ w.pi = FALSE
      /\ w.queue = {} /\ w.consumed = 0 /\ w.delivery = {} /\ w.jobs = {} /\ w.out = <<>>
  BY DEF Init, InitialState
<1>3. Way(w, overtaken)
  BY <1>2 DEF Way, Taking
<1>4. Queued(w, arrived, payload)
  BY <1>2 DEF Queued, Heads
<1>5. Consumptions(w.out) = {}
  BY <1>2 DEF Consumptions
<1>6. told = {}
  BY DEF Init
<1>7. Told
  BY <1>5, <1>6 DEF Told
<1> QED BY <1>1, <1>2, <1>3, <1>4, <1>5, <1>6, <1>7 DEF FInv, Fit, NoActiveWork

LEMMA FlowNext == ASSUME FInv, Next PROVE FInv'
<1>1. IInv /\ Observe /\ (FromServer \/ JobEnds \/ Local)
  BY DEF FInv, Next
<1>2. IInv'
  BY <1>1, NextStep
<1> DEFINE P == \E s : Ready(s, overtaken, arrived, payload) /\ Reduce(s)
\* An event that leaves the server's inputs alone.
<1>3. ASSUME P, arrived' = arrived, payload' = payload, overtaken' = overtaken PROVE FInv'
  <2>1. PICK s : Ready(s, overtaken, arrived, payload) /\ Reduce(s)
    BY <1>3
  <2>2. Ready(s, overtaken', arrived', payload')
    BY <1>3, <2>1
  <2> QED BY <1>1, <1>2, <1>3, <2>1, <2>2, FlowStep
<1>4. CASE FromServer
  <2>1. CASE ReceiveStart
    <3>1. arrived' = arrived /\ overtaken' = overtaken
      BY <2>1 DEF ReceiveStart
    <3>2. payload' \in 0..MaxInput
      BY <1>2 DEF IInv, Env
    <3>3. PICK s : Ready(s, overtaken, arrived, payload') /\ Reduce(s)
      BY <2>1, <3>2, StartReady
    <3>4. Ready(s, overtaken', arrived', payload')
      BY <3>1, <3>3
    <3> QED BY <1>1, <1>2, <3>1, <3>3, <3>4, FlowStep
  <2>2. ASSUME NEW S \in SUBSET Inputs, ReceiveInputs(S) PROVE FInv'
    <3>1. payload' = payload /\ (overtaken => overtaken')
      BY <2>2 DEF ReceiveInputs
    <3>2. PICK s : Ready(s, overtaken', arrived', payload) /\ Reduce(s)
      BY <2>2, InputsReady
    <3>3. Ready(s, overtaken', arrived', payload')
      BY <3>1, <3>2
    <3> QED BY <1>1, <1>2, <3>1, <3>2, <3>3, FlowStep
  <2>3. CASE ReceiveAccepted
    <3>1. arrived' = arrived /\ payload' = payload /\ overtaken' = overtaken
      BY <2>3 DEF ReceiveAccepted
    <3> QED BY <1>3, <2>3, <3>1, AcceptedReady
  <2>4. CASE ReceiveRecorded /\ UNCHANGED env
    BY <1>3, <2>4, RecordedReady DEF env
  <2>5. ASSUME NEW ok \in BOOLEAN, ReceiveCredential(ok), UNCHANGED env PROVE FInv'
    BY <1>3, <2>5, CredentialReady DEF env
  <2> QED BY <1>4, <2>1, <2>2, <2>3, <2>4, <2>5 DEF FromServer
<1>5. CASE JobEnds
  <2>1. ASSUME NEW kind \in Kinds, NEW resumed \in BOOLEAN, NEW refresh \in BOOLEAN,
               BootstrapSucceeded(kind, resumed, refresh)
        PROVE  P /\ arrived' = arrived /\ payload' = payload /\ overtaken' = overtaken
    <3>1. P
      BY <2>1, BootstrappedReady
    <3>2. arrived' = arrived /\ payload' = payload /\ overtaken' = overtaken
      BY <2>1 DEF BootstrapSucceeded
    <3> QED BY <3>1, <3>2
  <2>2. BootstrapFailed => P
    BY BootstrapFailedReady
  <2>3. ActivationSucceeded => P
    BY ActivatedReady
  <2>4. ASSUME NEW job \in {"activate", "turn"}, OperationFailed(job) PROVE P
    BY <2>4, OperationFailedReady
  <2>5. InputsDelivered \/ InputDeliveryFailed => P
    BY DeliveredReady
  <2>6. ASSUME NEW result \in {"turn_outcome", "turn_failed", "parked"}, NEW S \in SUBSET Targeted,
               TurnCompleted(result, S)
        PROVE  P
    BY <2>6, TurnCompletedReady
  <2>7. ASSUME NEW ok \in BOOLEAN, SnapshotCompleted(ok) PROVE P
    BY <2>7, SnapshotReady
  <2>8. (\E changed \in BOOLEAN : CredentialSampled(changed)) \/ CredentialSampleFailed => P
    BY SampledReady
  <2>9. ASSUME NEW ok \in BOOLEAN, CleanupCompleted(ok) PROVE P
    BY <2>9, CleanupReady
  <2> HIDE DEF P
  <2>10. UNCHANGED env => arrived' = arrived /\ payload' = payload /\ overtaken' = overtaken
    BY DEF env
  <2>11. P /\ arrived' = arrived /\ payload' = payload /\ overtaken' = overtaken
    BY <1>5, <2>1, <2>2, <2>3, <2>4, <2>5, <2>6, <2>7, <2>8, <2>9, <2>10 DEF JobEnds
  <2> QED BY <1>3, <2>11
<1>6. CASE Local
  <2>1. RuntimeStarted => P
    BY StartedReady
  <2>2. TransportConnected => P
    BY ConnectedReady
  <2>3. TransportFailed => P
    BY TransportFailedReady
  <2>4. StopRequested => P
    BY StopReady
  <2>5. SessionTainted => P
    BY TaintedReady
  <2>6. ASSUME NEW t \in Timers, TimerFired(t) PROVE P
    BY <2>6, TimerReady
  <2> HIDE DEF P
  <2>7. P
    BY <1>6, <2>1, <2>2, <2>3, <2>4, <2>5, <2>6 DEF Local
  <2>8. arrived' = arrived /\ payload' = payload /\ overtaken' = overtaken
    BY <1>6 DEF Local, env
  <2> QED BY <1>3, <2>7, <2>8
<1> QED BY <1>1, <1>4, <1>5, <1>6

LEMMA FlowStutter == ASSUME FInv, UNCHANGED vars PROVE FInv'
<1>1. IInv'
  BY Stutter DEF FInv
<1>2. w' = w /\ arrived' = arrived /\ payload' = payload /\ overtaken' = overtaken /\ told' = told
  BY DEF vars
<1>3. Fit(w, overtaken, arrived, payload)'
  BY <1>2 DEF FInv
<1>4. Told' <=> Told
  BY <1>2 DEF Told
<1> QED BY <1>1, <1>2, <1>3, <1>4 DEF FInv, Alive

LEMMA FInvImplies == FInv => InputsFlow /\ ExitIsUnderWay
<1> SUFFICES ASSUME FInv PROVE InputsFlow /\ ExitIsUnderWay
  OBVIOUS
<1>1. Typed(w) /\ (Alive => Way(w, overtaken))
  BY DEF FInv, IInv, Sound, Fit, Alive
<1>2. InputsFlow
  <2>1. told \subseteq Inputs
    BY DEF FInv
  <2>2. InputsConsumedInOrder
    BY DEF FInv, Told, InputsConsumedInOrder
  <2>3. DeliveryUnderWay
    BY <1>1 DEF DeliveryUnderWay, Way
  <2> QED BY <2>1, <2>2, <2>3 DEF InputsFlow
<1>3. ExitIsUnderWay
  <2> SUFFICES ASSUME w.phase \in {"draining", "cleaning"}, ~StopNotesBroken, ~overtaken
               PROVE  w.jobs \ {"sample"} # {} \/ w.pub = "terminal_pending_ack"
    BY DEF ExitIsUnderWay
  <2>1. Way(w, overtaken) /\ ~NoActiveWork(w)
    BY <1>1 DEF FInv, Alive
  <2>2. w.pub \in Taking => "snapshot" \in w.jobs
    BY <2>1 DEF Way
  <2>3. w.pub = "fatal_pending_cleanup" => "cleanup" \in w.jobs
    BY <2>1 DEF Way
  <2>4. CASE w.phase = "cleaning"
    BY <2>1, <2>2, <2>4 DEF Way, Taking
  <2>5. CASE w.phase = "draining" /\ w.pub # "none"
    BY <1>1, <2>2, <2>3, <2>5 DEF Typed, Publications, Taking
  <2>6. CASE w.phase = "draining" /\ w.delivery # {}
    BY <2>1, <2>6 DEF Way
  <2>7. CASE w.phase = "draining" /\ w.op # "none"
    BY <1>1, <2>1, <2>2, <2>7 DEF Typed, Way, Taking, StopNotesBroken
  <2> QED BY <2>1, <2>4, <2>5, <2>6, <2>7 DEF NoActiveWork
<1> QED BY <1>2, <1>3

\* For any inputs and any order of events the worker reports inputs consumed in
\* their order, none twice, and what it is delivering has a delivery under way,
\* unless a later batch was dispatched first.
THEOREM InputsAreConsumedInOrder == Spec => []InputsFlow
<1>1. FInv /\ [Next]_vars => FInv'
  BY FlowNext, FlowStutter
<1> QED BY FlowInit, FInvImplies, <1>1, PTL DEF Spec

\* For any inputs and any order of events a worker that drains or cleans up has
\* a completion or an acknowledgement to come, unless its operation had already
\* broken when it was stopped or a batch was overtaken.
THEOREM ExitsAreUnderWay == Spec => []ExitIsUnderWay
<1>1. FInv /\ [Next]_vars => FInv'
  BY FlowNext, FlowStutter
<1> QED BY FlowInit, FInvImplies, <1>1, PTL DEF Spec
=============================================================================
