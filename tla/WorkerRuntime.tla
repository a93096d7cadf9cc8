--------------------------- MODULE WorkerRuntime ---------------------------
(***************************************************************************)
(* The lifecycle reducer of one worker (packages/worker/src/runtime).      *)
(*                                                                         *)
(* The runtime is one pure function from a state and an event to a state   *)
(* and outputs, driven by a queue that is never re-entered (index.ts), so  *)
(* an event is one step.  w is the reducer's state together with w.jobs,   *)
(* the asynchronous commands it launched and that have not completed, and  *)
(* w.out, the protocol facts of the last step.  A worker serves one start  *)
(* and one turn, so record identities do not appear; a queued input is     *)
(* its sequence number, and the sorted, deduplicated queue is a set.       *)
(***************************************************************************)
EXTENDS Integers, Sequences, FiniteSetsExt

CONSTANTS
  MaxInput,    \* inputs are queued with the sequence numbers 1..MaxInput
  Targeted,    \* the inputs that carry a target, applied by the turn itself
  Kinds,       \* the session kinds a start may have
  Refresh      \* whether a start may carry a refreshable credential

ASSUME MaxInputAssumption == MaxInput \in Nat
ASSUME TargetedAssumption == Targeted \subseteq 1..MaxInput
ASSUME KindsAssumption == Kinds \subseteq {"llm", "automatic"}
ASSUME RefreshAssumption == Refresh \in BOOLEAN

Inputs == 1..MaxInput

VARIABLES
  w,        \* the reducer's state
  arrived,  \* server: the inputs dispatched to this worker
  payload,  \* server: worker.start carries the unconsumed inputs up to this one
  overtaken,\* history: a batch was dispatched before one with earlier inputs
  granted,  \* history: the server accepted the start
  ran,      \* history: how often execute_turn was launched
  told,     \* history: the inputs reported consumed before the last step
  owed      \* history: the terminal fact sent and not acknowledged, or "none"

vars == <<w, arrived, payload, overtaken, granted, ran, told, owed>>

Phases == {"init", "waiting_for_start", "bootstrapping", "readying",
           "waiting_for_acceptance", "activating", "active", "draining",
           "cleaning", "exited"}
Publications == {"none", "ready_snapshot", "terminal_snapshot",
                 "terminal_pending_ack", "cleanup_snapshot",
                 "fatal_snapshot", "fatal_pending_cleanup"}
Timers == {"heartbeat", "acceptance_retry", "credential_poll", "terminal_ack"}
Jobs == {"bootstrap", "activate", "turn", "deliver", "snapshot", "sample",
         "cleanup"}
Credentials == {"none", "idle", "sampling", "pending", "off"}

(* createInitialWorkerRuntimeState *)
InitialState ==
  [phase |-> "init", op |-> "none", stage |-> "none", turn |-> "none",
   accepted |-> FALSE, pub |-> "none", fact |-> "none", after |-> "none",
   kind |-> "none", pi |-> FALSE, queue |-> {}, consumed |-> 0,
   delivery |-> {}, tainted |-> FALSE, cred |-> "none", base |-> FALSE,
   timers |-> {}, jobs |-> {}, out |-> <<>>, threw |-> FALSE]

Fact(t) == [type |-> t]
Emit(s, f) == [s EXCEPT !.out = Append(@, f)]
Launch(s, j) == [s EXCEPT !.jobs = @ \cup {j}]
Arm(s, t) == [s EXCEPT !.timers = @ \cup {t}]

(* deriveReportedWorkerState *)
Reported(s) ==
  IF s.phase \in {"draining", "cleaning"} THEN "draining"
  ELSE IF \/ /\ s.phase = "active"
             /\ \/ s.turn = "executing"
                \/ s.pub \in {"terminal_snapshot", "terminal_pending_ack"}
          \/ s.delivery # {}
  THEN "busy" ELSE "idle"

Heartbeat(s) == [type |-> "heartbeat", state |-> Reported(s)]

(* beginSnapshot: a second publication is a defect of the reducer *)
BeginSnapshot(s, publication) ==
  IF s.pub # "none" THEN [s EXCEPT !.threw = TRUE]
  ELSE Launch([s EXCEPT !.pub = publication], "snapshot")

(* resolveWorkerSnapshotPolicy for the points that a policy may skip *)
Uploads(s, point) ==
  /\ s.kind = "llm"
  /\ point = "before_cleanup_completed" => s.pi

\* Mutant: the retry timer is not armed.
PublishTerminalUntimed(s) ==
  [(IF s.fact = "turn_failed" THEN Emit(Emit(s, Fact(s.fact)), Fact("parked"))
    ELSE Emit(s, Fact(s.fact))) EXCEPT !.pub = "terminal_pending_ack"]

(* publishTerminalAndAwaitAcknowledgement; a failure parks as well *)
PublishTerminal(s) ==
  LET sent == Emit(s, Fact(s.fact))
      parked == IF s.fact = "turn_failed" THEN Emit(sent, Fact("parked")) ELSE sent
  IN Arm([parked EXCEPT !.pub = "terminal_pending_ack"], "terminal_ack")

(* finishFatal; close_transport clears every timer of the driver *)
FinishFatal(s) ==
  [Emit(s, Fact("worker_failed")) EXCEPT !.pub = "none", !.phase = "exited",
                                         !.timers = {}]

(* failureOutputs of a failure that ends the worker *)
WorkerFailed(s, snapshot) ==
  IF snapshot /\ s.pub = "none"
  THEN [BeginSnapshot(s, "fatal_snapshot") EXCEPT
          !.after = IF s.phase = "cleaning" /\ s.stage = "publication"
                    THEN "cleanup" ELSE "exit"]
  ELSE FinishFatal(s)

(* normalizeWorkerFailure of a dispatch failure: a worker with a session   *)
(* parks its process and goes on, one without fails                        *)
DispatchFailed(s) ==
  IF s.kind # "none" THEN Emit(s, Fact("parked")) ELSE WorkerFailed(s, FALSE)

(* failureOutputs of a mandatory snapshot: a failed turn, sent once *)
SnapshotFailed(s) == Emit(Emit(s, Fact("turn_failed")), Fact("parked"))

BeginActivation(s) ==
  Launch([s EXCEPT !.phase = "activating", !.timers = @ \ {"acceptance_retry"}],
         "activate")

\* Mutant: the turn is activated without waiting for the acceptance.
FinishReadyingEager(s) ==
  IF s.phase # "readying" \/ s.cred = "sampling" \/ s.pub # "none" THEN s
  ELSE BeginActivation(s)

FinishReadying(s) ==
  IF s.phase # "readying" \/ s.cred = "sampling" \/ s.pub # "none" THEN s
  ELSE IF s.accepted THEN BeginActivation(s)
  ELSE Arm(Emit([s EXCEPT !.phase = "waiting_for_acceptance"], Fact("turn_started")),
           "acceptance_retry")

NoActiveWork(s) ==
  s.phase = "draining" /\ s.op = "none" /\ s.delivery = {} /\ s.pub = "none"

\* worker.cleanup_started, which the server only logs, is left out.
BeginCleaning(s) ==
  LET started == [s EXCEPT !.phase = "cleaning"]
  IN IF Uploads(s, "before_cleanup_completed")
     THEN BeginSnapshot([started EXCEPT !.stage = "publication"], "cleanup_snapshot")
     ELSE Launch([started EXCEPT !.stage = "resources"], "cleanup")

(* The prefix of the queue up to the first input of the other class. *)
Ordinary(s) == {i \in s.queue \ Targeted : \A t \in s.queue \cap Targeted : i < t}
ReadyTargets(s) == {t \in s.queue \cap Targeted : \A i \in s.queue \ Targeted : t < i}

\* inputConsumedFact for each of the inputs, in order.
ConsumedFacts(S) ==
  [n \in 1..Cardinality(S) |->
     [type |-> "input_consumed", seq |-> CHOOSE i \in S : Cardinality({j \in S : j <= i}) = n]]

Consume(s, S) ==
  [s EXCEPT !.queue = @ \ S, !.consumed = Max(S \cup {@}), !.out = @ \o ConsumedFacts(S)]

(* decideWorkerInputEffect and the branches of advance that act on it *)
MayStartTurn(s) == s.phase = "active" /\ s.turn = "pending"
HandlesInputs(s) ==
  /\ s.phase \in {"active", "waiting_for_acceptance"}
  /\ s.delivery = {} /\ s.pub = "none"
  /\ ~(s.phase = "waiting_for_acceptance" /\ s.kind = "llm")
  /\ ~s.tainted

InputStep(s) ==
  IF ~HandlesInputs(s) THEN s
  ELSE IF Ordinary(s) # {} /\ s.pi
  THEN Launch([s EXCEPT !.delivery = Ordinary(s)], "deliver")
  ELSE IF (s.queue = {} \/ ReadyTargets(s) # {}) /\ MayStartTurn(s)
  THEN Launch([s EXCEPT !.turn = "executing"], "turn")
  ELSE s

IgnoreInputs(s) ==
  IF HandlesInputs(s) /\ Ordinary(s) # {} /\ ~s.pi THEN Consume(s, Ordinary(s)) ELSE s

(* advance: runs after every event *)
Advance(s) ==
  LET readied == FinishReadying(s)
  IN IF NoActiveWork(readied) THEN BeginCleaning(readied)
     ELSE InputStep(IgnoreInputs(readied))

(* reduceWorkerRuntime: advance, then the change of the reported state *)
Reduce(s) ==
  LET next == Advance(s)
  IN w' = IF Reported(w) # Reported(next) /\ next.phase # "exited"
          THEN Emit(next, [type |-> "state", to |-> Reported(next)]) ELSE next

Quiet == [w EXCEPT !.out = <<>>]
Done(job) == [Quiet EXCEPT !.jobs = @ \ {job}]
Alive == w.phase # "exited"

-----------------------------------------------------------------------------

RuntimeStarted ==
  /\ w.phase = "init"
  /\ Reduce(Emit([Quiet EXCEPT !.phase = "waiting_for_start"], Fact("hello")))

TransportConnected ==
  /\ w.phase \notin {"init", "exited"}
  /\ LET greeted == Emit(Quiet, Fact("hello"))
         beaten == IF w.kind # "none" THEN Emit(greeted, Heartbeat(w)) ELSE greeted
     IN Reduce(IF w.pub = "terminal_pending_ack" THEN PublishTerminal(beaten) ELSE beaten)

TransportFailed ==
  /\ w.phase \notin {"init", "exited"}
  /\ Reduce([Quiet EXCEPT !.pub = "none", !.phase = "exited", !.timers = {}])

(* worker.stop and a stop of the worker itself *)
StopRequested ==
  /\ Alive /\ w.phase \notin {"init", "draining", "cleaning"}
  /\ Reduce([Quiet EXCEPT
       !.phase = "draining", !.timers = {}, !.cred = "none",
       !.op = CASE w.phase = "bootstrapping" -> "bootstrap"
                [] w.phase = "activating" -> "activation"
                [] w.phase = "active" /\ w.turn = "executing" -> "turn"
                [] OTHER -> "none"])

SessionTainted ==
  /\ "turn" \in w.jobs /\ ~w.tainted /\ Alive
  /\ Reduce([Quiet EXCEPT !.tainted = TRUE])

(* The start message carries what the database held unconsumed at hello. *)
ReceiveStart ==
  /\ w.phase = "waiting_for_start"
  /\ payload' \in {k \in 0..MaxInput : \A i \in arrived : i <= k}
  /\ Reduce(Launch([Quiet EXCEPT !.phase = "bootstrapping", !.tainted = FALSE], "bootstrap"))
  /\ UNCHANGED <<arrived, overtaken, granted>>

\* Reactions run after the lock is released: an earlier batch may come later.
Overtakes(S) ==
  /\ w.phase \notin {"init", "waiting_for_start"}
  /\ \E i \in S, j \in Inputs \ (arrived \cup S) : j < i /\ j > payload

\* Mutant: inputs already consumed are queued again.
ReceiveInputsAgain(S) ==
  /\ Alive /\ S # {} /\ S \cap arrived = {}
  /\ arrived' = arrived \cup S
  /\ overtaken' = (overtaken \/ Overtakes(S))
  /\ IF w.phase \in {"init", "waiting_for_start"} THEN Reduce(Quiet)
     ELSE Reduce([Quiet EXCEPT !.queue = @ \cup S])
  /\ UNCHANGED <<payload, granted>>

(* input.batch; dispatchProcessInputs sends what one operation persisted *)
ReceiveInputs(S) ==
  /\ Alive /\ S # {} /\ S \cap arrived = {}
  /\ arrived' = arrived \cup S
  /\ overtaken' = (overtaken \/ Overtakes(S))
  /\ IF w.phase \in {"init", "waiting_for_start"} THEN Reduce(Quiet)
     ELSE Reduce([Quiet EXCEPT !.queue = @ \cup {i \in S : i > w.consumed}])
  /\ UNCHANGED <<payload, granted>>

(* worker.turn_start_accepted, first or replayed *)
ReceiveAccepted ==
  /\ w.phase \notin {"init", "waiting_for_start", "bootstrapping", "exited"}
  /\ Reduce(CASE w.phase = "readying" -> [Quiet EXCEPT !.accepted = TRUE]
              [] w.phase = "waiting_for_acceptance" -> BeginActivation(Quiet)
              [] OTHER -> Quiet)
  /\ granted' = TRUE
  /\ UNCHANGED <<arrived, payload, overtaken>>

ReceiveRecorded ==
  /\ w.pub = "terminal_pending_ack"
  /\ Reduce([Quiet EXCEPT !.pub = "none", !.timers = @ \ {"terminal_ack"}])

ReceiveCredential(isAccepted) ==
  /\ w.cred = "pending" /\ Alive
  /\ Reduce(IF isAccepted THEN Launch([Quiet EXCEPT !.cred = "sampling"], "sample")
            ELSE [Quiet EXCEPT !.cred = "off"])

(* The session may belong to a start that was accepted before (resumed). *)
BootstrapSucceeded(kind, resumed, refresh) ==
  /\ "bootstrap" \in w.jobs /\ Alive
  /\ refresh => Refresh /\ kind = "llm"
  /\ LET prepared == [Done("bootstrap") EXCEPT
                        !.kind = kind,
                        !.queue = @ \cup {i \in 1..payload : i > w.consumed}]
         ready == Emit(prepared, Fact("ready"))
         readying == [ready EXCEPT !.phase = "readying", !.accepted = resumed]
         snapped == IF Uploads(readying, "after_worker_ready")
                    THEN BeginSnapshot(readying, "ready_snapshot") ELSE readying
         beating == Arm(snapped, "heartbeat")
     IN Reduce(IF w.phase = "draining" THEN [ready EXCEPT !.op = "none"]
               ELSE IF refresh THEN Launch([beating EXCEPT !.cred = "sampling"], "sample")
               ELSE beating)
  /\ granted' = (granted \/ resumed)
  /\ UNCHANGED <<arrived, payload, overtaken>>

\* Mutant: a draining worker does not note that its bootstrap ended.
BootstrapFailedDraining ==
  /\ "bootstrap" \in w.jobs /\ Alive
  /\ Reduce(IF w.phase = "draining" THEN Done("bootstrap")
            ELSE WorkerFailed(Done("bootstrap"), TRUE))

BootstrapFailed ==
  /\ "bootstrap" \in w.jobs /\ Alive
  /\ Reduce(IF w.phase = "draining" THEN [Done("bootstrap") EXCEPT !.op = "none"]
            ELSE WorkerFailed(Done("bootstrap"), TRUE))

ActivationSucceeded ==
  /\ "activate" \in w.jobs /\ Alive
  /\ LET live == [Done("activate") EXCEPT !.pi = (w.kind = "llm")]
     IN Reduce(IF w.phase = "draining" THEN [live EXCEPT !.op = "none"]
               ELSE [live EXCEPT !.phase = "active", !.turn = "pending"])

(* activation_failed and turn_defect *)
OperationFailed(job) ==
  /\ job \in w.jobs \cap {"activate", "turn"} /\ Alive
  /\ Reduce(IF w.phase = "draining" THEN [Done(job) EXCEPT !.op = "none"]
            ELSE DispatchFailed(Done(job)))

InputsDelivered ==
  /\ "deliver" \in w.jobs /\ Alive
  /\ Reduce(IF Min(w.queue) = Min(w.delivery)
            THEN Consume([Done("deliver") EXCEPT !.delivery = {}], w.delivery)
            ELSE Done("deliver"))

InputDeliveryFailed ==
  /\ "deliver" \in w.jobs /\ Alive
  /\ LET cleared == [Done("deliver") EXCEPT !.delivery = {}]
     IN Reduce(IF w.phase = "draining" THEN cleared ELSE DispatchFailed(cleared))

(* removeAppliedTargeted: applied inputs leave as long as they head the queue *)
Applied(s, S) ==
  LET removed == {t \in S : \A i \in s.queue : i <= t => i \in S}
  IN Consume(s, removed)

TurnCompleted(result, S) ==
  /\ "turn" \in w.jobs /\ Alive
  /\ S \subseteq w.queue \cap Targeted
  /\ LET ended == IF w.phase = "draining" THEN [Done("turn") EXCEPT !.op = "none"]
                  ELSE [Done("turn") EXCEPT !.turn = "completed"]
         applied == Applied(ended, S)
         pending == [applied EXCEPT !.fact = result]
     IN Reduce(CASE result = "parked" -> Emit(applied, Fact("parked"))
                 [] result # "parked" /\ w.kind = "automatic" -> PublishTerminal(pending)
                 [] OTHER -> BeginSnapshot(pending, "terminal_snapshot"))

SnapshotCompleted(ok) ==
  /\ "snapshot" \in w.jobs /\ Alive
  /\ LET s == Done("snapshot")
         cleared == [s EXCEPT !.pub = "none"]
     IN Reduce(CASE w.pub = "ready_snapshot" -> cleared
       [] w.pub = "terminal_snapshot" ->
            IF ok THEN PublishTerminal(s) ELSE SnapshotFailed(cleared)
       [] w.pub = "cleanup_snapshot" ->
            IF ok THEN Launch([cleared EXCEPT !.stage = "resources"], "cleanup")
            ELSE WorkerFailed(cleared, TRUE)
       [] w.pub = "fatal_snapshot" /\ w.after = "exit" -> FinishFatal(s)
       [] w.pub = "fatal_snapshot" /\ w.after = "cleanup" ->
            Launch([s EXCEPT !.stage = "resources", !.pub = "fatal_pending_cleanup"],
                   "cleanup")
       [] OTHER -> s)

TimerFired(t) ==
  /\ t \in w.timers /\ Alive
  /\ LET s == [Quiet EXCEPT !.timers = @ \ {t}]
     IN Reduce(CASE t = "heartbeat" /\ w.kind # "none" -> Arm(Emit(s, Heartbeat(w)), t)
       [] t = "acceptance_retry" /\ w.phase = "waiting_for_acceptance" ->
            Arm(Emit(s, Fact("turn_started")), t)
       [] t = "terminal_ack" /\ w.pub = "terminal_pending_ack" -> PublishTerminal(s)
       [] t = "credential_poll" /\ w.cred = "idle" ->
            Launch([s EXCEPT !.cred = "sampling"], "sample")
       [] OTHER -> s)

(* credential_sampled: the first sample is the baseline *)
CredentialSampled(changed) ==
  /\ "sample" \in w.jobs /\ Alive
  /\ changed => w.base
  /\ LET s == Done("sample")
     IN Reduce(IF w.cred # "sampling" THEN s
               ELSE IF changed
               THEN Emit([s EXCEPT !.cred = "pending"], Fact("credential_update"))
               ELSE Arm([s EXCEPT !.cred = "idle", !.base = TRUE], "credential_poll"))

CredentialSampleFailed ==
  /\ "sample" \in w.jobs /\ Alive
  /\ Reduce(IF w.cred # "sampling" THEN Done("sample")
            ELSE Arm([Done("sample") EXCEPT !.cred = "idle"], "credential_poll"))

CleanupCompleted(ok) ==
  /\ "cleanup" \in w.jobs /\ Alive
  /\ LET s == Done("cleanup")
     IN Reduce(CASE ~ok -> WorkerFailed(s, w.kind # "none")
                 [] ok /\ w.pub = "fatal_pending_cleanup" -> FinishFatal(s)
                 [] OTHER -> [Emit(s, Fact("cleanup_completed")) EXCEPT
                                !.phase = "exited", !.timers = {},
                                !.kind = "none", !.queue = {}])

-----------------------------------------------------------------------------

Sends(t) == \E n \in 1..Len(w'.out) : w'.out[n].type = t

\* Where a list of facts reports an input consumed.
Consumptions(q) == {n \in 1..Len(q) : q[n].type = "input_consumed"}

(* What the step just taken adds to the history. *)
Observe ==
  /\ ran' = IF "turn" \in w'.jobs \ w.jobs THEN ran + 1 ELSE ran
  /\ told' = told \cup {w.out[n].seq : n \in Consumptions(w.out)}
  /\ owed' = IF Sends("turn_outcome") THEN "turn_outcome"
             ELSE IF Sends("turn_failed") THEN "turn_failed"
             ELSE IF /\ w.pub = "terminal_pending_ack" /\ w'.pub # "terminal_pending_ack"
                     /\ w'.phase # "exited"
             THEN "none" ELSE owed

env == <<arrived, payload, overtaken, granted>>

Init ==
  /\ w = InitialState
  /\ arrived = {} /\ payload = 0 /\ overtaken = FALSE /\ granted = FALSE
  /\ ran = 0 /\ told = {} /\ owed = "none"

FromServer ==
  \/ ReceiveStart
  \/ \E S \in SUBSET Inputs : ReceiveInputs(S)
  \/ ReceiveAccepted
  \/ /\ ReceiveRecorded \/ \E isAccepted \in BOOLEAN : ReceiveCredential(isAccepted)
     /\ UNCHANGED env

JobEnds ==
  \/ \E kind \in Kinds, resumed \in BOOLEAN, refresh \in BOOLEAN :
        BootstrapSucceeded(kind, resumed, refresh)
  \/ /\ \/ BootstrapFailed \/ ActivationSucceeded
        \/ \E job \in {"activate", "turn"} : OperationFailed(job)
        \/ InputsDelivered \/ InputDeliveryFailed
        \/ \E result \in {"turn_outcome", "turn_failed", "parked"}, S \in SUBSET Targeted :
              TurnCompleted(result, S)
        \/ \E ok \in BOOLEAN : SnapshotCompleted(ok)
        \/ \E changed \in BOOLEAN : CredentialSampled(changed)
        \/ CredentialSampleFailed
        \/ \E ok \in BOOLEAN : CleanupCompleted(ok)
     /\ UNCHANGED env

Local ==
  /\ \/ RuntimeStarted \/ TransportConnected \/ TransportFailed \/ StopRequested
     \/ SessionTainted
     \/ \E t \in Timers : TimerFired(t)
  /\ UNCHANGED env

Next == (FromServer \/ JobEnds \/ Local) /\ Observe

Spec == Init /\ [][Next]_vars

-----------------------------------------------------------------------------

(* The reducer's state is well formed. *)
TypeOK ==
  /\ w.phase \in Phases /\ w.op \in {"none", "bootstrap", "activation", "turn"}
  /\ w.stage \in {"none", "publication", "resources"}
  /\ w.turn \in {"none", "pending", "executing", "completed"}
  /\ w.pub \in Publications /\ w.fact \in {"none", "turn_outcome", "turn_failed"}
  /\ w.after \in {"none", "exit", "cleanup"}
  /\ w.kind \in {"none", "llm", "automatic"} /\ w.cred \in Credentials
  /\ w.queue \subseteq Inputs /\ w.delivery \subseteq Inputs /\ w.consumed \in 0..MaxInput
  /\ w.timers \subseteq Timers /\ w.jobs \subseteq Jobs
  /\ {w.accepted, w.pi, w.tainted, w.base, w.threw} \subseteq BOOLEAN
  /\ arrived \subseteq Inputs /\ payload \in 0..MaxInput /\ {overtaken, granted} \subseteq BOOLEAN
  /\ ran \in Nat
  /\ owed \in {"none", "turn_outcome", "turn_failed"}

(* The reducer never starts a publication while another one is active: no    *)
(* sequence of events reaches the exception of beginSnapshot.                *)
NeverThrows == ~w.threw

(* The turn is executed at most once, and only after the server accepted the *)
(* start, however often the acceptance is replayed and whenever a stop, a     *)
(* reconnect or a failed delivery falls in between.                          *)
ExecutesOnceAccepted == ran <= 1 /\ (ran = 1 => granted)

(* Inputs are reported consumed in sequence order, none twice, unless a later *)
(* batch was dispatched first.                                               *)
InputsConsumedInOrder ==
  ~overtaken =>
    \A n \in Consumptions(w.out) :
      /\ \A i \in told : i < w.out[n].seq
      /\ \A m \in Consumptions(w.out) : m < n => w.out[m].seq < w.out[n].seq

(* Inputs that are being delivered have a delivery under way, so the worker  *)
(* goes on to consume its queue.  An earlier input that arrives late takes    *)
(* the head of the queue under delivery; its completion is then not known.   *)
DeliveryUnderWay == ~overtaken /\ Alive /\ w.delivery # {} => "deliver" \in w.jobs

(* An outcome that was sent and not acknowledged is still held, with its     *)
(* retry timer armed unless the worker drains.                              *)
OutcomeIsRetained ==
  owed = "turn_outcome" /\ Alive =>
    /\ w.pub = "terminal_pending_ack"
    /\ w.phase # "draining" => "terminal_ack" \in w.timers

(* A worker that cleans up has nothing left to publish or to finish.         *)
CleanupComesLast ==
  w.phase = "cleaning" =>
    /\ w.jobs \subseteq {"snapshot", "cleanup", "sample"}
    /\ w.pub \in {"none", "cleanup_snapshot", "fatal_snapshot", "fatal_pending_cleanup"}

(* A broken activation or turn is parked with the phase left as it was; a     *)
(* stop then notes an operation whose completion has already come.           *)
StopNotesBroken ==
  \/ w.op = "activation" /\ "activate" \notin w.jobs
  \/ w.op = "turn" /\ "turn" \notin w.jobs

(* A worker on its way out never waits for nothing: until it exits, some      *)
(* completion or acknowledgement that it acts upon is still to come, whatever *)
(* it was doing when it was stopped and whatever failed since.  A delivery    *)
(* lost to an overtaken batch would hold it for good.                        *)
ExitIsUnderWay ==
  w.phase \in {"draining", "cleaning"} /\ ~StopNotesBroken /\ ~overtaken =>
    \/ w.jobs \ {"sample"} # {}
    \/ w.pub = "terminal_pending_ack"

(* Whatever events come in whatever order, the reducer's state stays well     *)
(* formed, it never throws, it runs an accepted turn once, it holds an        *)
(* outcome until it is acknowledged, and it cleans up last.                   *)
ReducerInvariant ==
  TypeOK /\ NeverThrows /\ ExecutesOnceAccepted /\ OutcomeIsRetained /\ CleanupComesLast

(* Inputs are consumed in order and their delivery never stalls.              *)
InputsFlow == told \subseteq Inputs /\ InputsConsumedInOrder /\ DeliveryUnderWay
=============================================================================
