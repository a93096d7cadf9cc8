---------------------------- MODULE TurnProtocol ----------------------------
(***************************************************************************)
(* One turn, from the spawned worker to its durable end: the worker's      *)
(* runtime (module WorkerRuntime) and the server that supervises it, over  *)
(* a connection that drops.                                                *)
(*                                                                         *)
(* Each side buffers what it sends while there is no connection; what was  *)
(* in flight on a connection that drops is lost.  The server handles a     *)
(* message in one step: the lock queue between the message and its         *)
(* operation is the inbox of module ProcessEngine.  The turn is the        *)
(* current one until its outcome is recorded, which moves the process on.  *)
(***************************************************************************)
EXTENDS WorkerRuntime, WorkerLease

CONSTANTS
  MaxDrops,     \* bound: connections that drop
  MaxTrouble,   \* bound: drops and mishaps before no other is caused
  MaxLink       \* bound: messages waiting or in flight before timers pause

ASSUME ProtocolAssumption == MaxDrops \in Nat /\ MaxTrouble \in Nat /\ MaxLink \in Nat

VARIABLES
  connected, \* the worker's socket is bound and authenticated
  up, down,  \* messages in flight to the server and to the worker
  wbuf, sbuf,\* messages buffered by the worker and by the server
  rec,       \* the start and, once accepted, the turn record
  life,      \* lifecycleStatus; "moved" once the outcome selected what follows
  lease,     \* the worker lease
  receipt,   \* bootstrapReceipt of the lease is stored
  timer,     \* the startup timer is armed
  beat,      \* lastHeartbeatAt is set
  waited,    \* the watchdog replayed the acceptance and waits
  stopping,  \* stopWorker was called
  gone,      \* handleProcessExit ran
  result,    \* history: how the turn ended in the worker
  mishaps,   \* history: what went wrong, of Mishaps
  drops

link == <<connected, up, down, wbuf, sbuf, drops>>
server == <<rec, life, lease, receipt, timer, beat, waited, stopping, gone>>
history == <<result, mishaps>>
protocolVars == <<vars, link, server, history>>

\* An adapter of the worker broke; SIGTERM; an outcome was refused; the server
\* could write neither a report nor the failure that stands for it.
Mishaps == {"defect", "eviction", "refused", "unwritten"}

-----------------------------------------------------------------------------
(* The link *)

\* createWebSocketWorkerIpc.send; stop() drops what is still buffered.
WorkerSends ==
  /\ up' = IF connected THEN up \o w'.out ELSE up
  /\ wbuf' = IF connected \/ w'.phase = "exited" THEN wbuf ELSE wbuf \o w'.out
  /\ UNCHANGED <<connected, down, sbuf, drops>>

\* createWorkerWebSocketIpcManager.send
ServerSends(messages) ==
  /\ down' = IF connected THEN down \o messages ELSE down
  /\ sbuf' = IF connected THEN sbuf ELSE sbuf \o messages

\* Bound: how much goes wrong in one behaviour.
Unspent == drops + Cardinality(mishaps) < MaxTrouble

Room == Len(up) + Len(wbuf) + Len(down) + Len(sbuf) < MaxLink

\* A connection drops with all that is in flight.
Drop ==
  /\ connected /\ drops < MaxDrops /\ Unspent
  /\ connected' = FALSE /\ up' = <<>> /\ down' = <<>>
  /\ drops' = drops + 1
  /\ UNCHANGED <<vars, wbuf, sbuf, server, history>>

\* flushOutbound of both sides: the worker's hello, heartbeat and pending
\* terminal fact go out before what it had buffered.
Reconnect ==
  /\ ~connected /\ ~gone /\ TransportConnected
  /\ connected' = TRUE
  /\ up' = w'.out \o wbuf /\ wbuf' = <<>>
  /\ down' = sbuf /\ sbuf' = <<>>
  /\ UNCHANGED <<env, drops, server, history>>
  /\ Observe

-----------------------------------------------------------------------------
(* The worker *)

\* The process is parked without a terminal fact that is held until recorded:
\* an activation, a turn or a mandatory snapshot broke.
ParksOnly ==
  Sends("parked") /\ ~(Sends("turn_failed") /\ w'.pub = "terminal_pending_ack")

WorkerStarts ==
  /\ RuntimeStarted /\ UNCHANGED <<env, server, history>>
  /\ Observe /\ WorkerSends

WorkerJobEnds ==
  /\ JobEnds /\ granted' = granted
  /\ mishaps' = IF ParksOnly THEN mishaps \cup {"defect"} ELSE mishaps
  /\ Observe /\ WorkerSends
  /\ result' = IF "turn" \notin w.jobs \ w'.jobs THEN result
               ELSE IF w'.fact = "turn_outcome" THEN "outcome" ELSE "failure"
  /\ UNCHANGED server

WorkerTimerFires(t) ==
  /\ Room /\ TimerFired(t)
  /\ UNCHANGED <<env, server, history>>
  /\ Observe /\ WorkerSends

\* SIGTERM and SIGINT stop the runtime gracefully.
WorkerEvicted ==
  /\ StopRequested /\ Unspent
  /\ mishaps' = mishaps \cup {"eviction"}
  /\ UNCHANGED <<env, server, result>>
  /\ Observe /\ WorkerSends

Ignored == Reduce(Quiet) /\ UNCHANGED env

\* receive: what does not match the state is ignored.
WorkerReceives ==
  /\ down # <<>> /\ Alive
  /\ LET m == Head(down)
     IN CASE m = "start" /\ w.phase = "waiting_for_start" -> ReceiveStart
          [] m = "accepted" /\ w.phase \notin {"init", "waiting_for_start", "bootstrapping"} ->
               ReceiveAccepted
          [] m = "recorded" /\ w.pub = "terminal_pending_ack" ->
               ReceiveRecorded /\ UNCHANGED env
          [] m = "stop" /\ w.phase \notin {"draining", "cleaning"} ->
               StopRequested /\ UNCHANGED env
          [] OTHER -> Ignored
  /\ Observe
  /\ up' = IF connected THEN up \o w'.out ELSE up
  /\ down' = Tail(down)
  /\ UNCHANGED <<connected, wbuf, sbuf, drops, server, history>>

-----------------------------------------------------------------------------
(* What the server records *)

Current == rec # "succeeded"

\* Mutant: the outcome of a worker not known to be busy is dropped.
RecordBusyOutcome ==
  /\ rec' = IF rec \in {"running", "failed"} /\ lease = "busy" THEN "succeeded" ELSE rec
  /\ life' = IF rec \in {"running", "failed"} /\ lease = "busy" THEN "moved" ELSE life

\* TurnOutcome and TurnFailed for the record of the accepted current start;
\* the outcome of a record that failed already is recorded.
RecordOutcome ==
  /\ rec' = IF rec \in {"running", "failed"} THEN "succeeded" ELSE rec
  /\ life' = IF rec \in {"running", "failed"} THEN "moved" ELSE life

RecordFailureAsPark == rec' = rec /\ life' = "error"  \* mutant: the record keeps running

RecordFailure ==
  /\ rec' = IF rec = "running" THEN "failed" ELSE rec
  /\ life' = IF rec = "running" THEN "error" ELSE life

\* WorkerFailure, for the lease that serves the current start.
RecordWorkerFailure ==
  /\ rec' = CASE rec = "starting" /\ life = "active" -> "bootstrap_failed"
              [] rec = "running" -> "failed"
              [] OTHER -> rec
  /\ life' = IF Current THEN "error" ELSE life

\* AcceptWorkerTurnStart
Accepts == life = "active" /\ receipt /\ rec \in {"starting", "running"}

ReplaysBusy(l) == l \in {"idle", "busy"} /\ rec = "running"  \* mutant: any live lease

\* resolveAcceptedTurnStartReplay
Replays(l) == l = "idle" /\ rec = "running" /\ life # "moved"

-----------------------------------------------------------------------------
(* routeEnvelope and handleMessage, one action per message *)

Takes(type) == up # <<>> /\ Head(up).type = type /\ ~gone
Handled == up' = Tail(up) /\ UNCHANGED <<vars, connected, wbuf, drops, history>>
HandledAmiss(mishap) ==
  /\ up' = Tail(up) /\ mishaps' = mishaps \cup {mishap}
  /\ UNCHANGED <<vars, connected, wbuf, drops, result>>
Silent == UNCHANGED <<down, sbuf>>

HandleHello ==
  /\ Takes("hello") /\ Handled
  /\ lease' = Observed(lease, "handshake_received")
  /\ IF lease' = "bootstrapping" /\ rec \in {"starting", "running"}
     THEN ServerSends(<<"start">>) ELSE Silent
  /\ UNCHANGED <<rec, life, receipt, timer, beat, waited, stopping, gone>>

\* A stale receipt, and below a refused acceptance, only tells onWorkerFailed,
\* which the server leaves unset (app.ts, createIpcHandler).
HandleReady ==
  /\ Takes("ready") /\ Handled /\ Silent
  /\ receipt' = (receipt \/ Current)
  /\ lease' = IF Current THEN Observed(lease, "bootstrap_completed") ELSE lease
  /\ beat' = (beat \/ (Current /\ Applies(lease, "bootstrap_completed")))
  /\ timer' = FALSE
  /\ UNCHANGED <<rec, life, waited, stopping, gone>>

HandleHeartbeat ==
  /\ Takes("heartbeat") /\ Handled
  /\ IF Head(up).state = "idle" /\ Replays(lease) THEN ServerSends(<<"accepted">>) ELSE Silent
  /\ beat' = TRUE
  /\ UNCHANGED <<rec, life, lease, receipt, timer, waited, stopping, gone>>

HandleState ==
  /\ Takes("state") /\ Handled /\ Silent
  /\ lease' = Observed(lease, CASE Head(up).to = "busy" -> "busy_reported"
                                [] Head(up).to = "idle" -> "idle_reported"
                                [] OTHER -> "stop_requested")
  /\ UNCHANGED <<rec, life, receipt, timer, beat, waited, stopping, gone>>

HandleTurnStarted ==
  /\ Takes("turn_started") /\ Handled
  /\ rec' = IF Accepts THEN "running" ELSE rec
  /\ IF Accepts THEN ServerSends(<<"accepted">>) ELSE Silent
  /\ UNCHANGED <<life, lease, receipt, timer, beat, waited, stopping, gone>>

HandleTurnOutcome ==
  /\ Takes("turn_outcome") /\ Handled
  /\ RecordOutcome /\ ServerSends(<<"recorded">>)
  /\ UNCHANGED <<lease, receipt, timer, beat, waited, stopping, gone>>

\* recoverRecordingFailure: an outcome that cannot be recorded (its parameters,
\* its product or its snapshot is refused, a write throws) fails the turn, and
\* is acknowledged all the same.  The fallback of a failure records the failure.
HandleRefusedOutcome ==
  /\ Takes("turn_outcome") /\ Current /\ Unspent /\ HandledAmiss("refused")
  /\ RecordWorkerFailure /\ ServerSends(<<"recorded">>)
  /\ UNCHANGED <<lease, receipt, timer, beat, waited, stopping, gone>>

\* The fallback fails too: nothing is written and nothing acknowledged.
HandleUnwritten ==
  /\ \/ Takes("turn_outcome") /\ Current
     \/ Takes("turn_failed") /\ rec = "running"
  /\ Unspent
  /\ HandledAmiss("unwritten") /\ Silent
  /\ UNCHANGED server

HandleTurnFailed ==
  /\ Takes("turn_failed") /\ Handled
  /\ RecordFailure /\ ServerSends(<<"recorded">>)
  /\ UNCHANGED <<lease, receipt, timer, beat, waited, stopping, gone>>

\* ParkProcess: correlated by the selected turn, which moved on.
HandleParked ==
  /\ Takes("parked") /\ Handled /\ Silent
  /\ life' = IF life = "moved" THEN life ELSE "error"
  /\ UNCHANGED <<rec, lease, receipt, timer, beat, waited, stopping, gone>>

HandleWorkerFailed ==
  /\ Takes("worker_failed") /\ Handled /\ Silent
  /\ lease' = Observed(lease, "failure_reported")
  /\ IF Applies(lease, "failure_reported") THEN RecordWorkerFailure
     ELSE UNCHANGED <<rec, life>>
  /\ UNCHANGED <<receipt, timer, beat, waited, stopping, gone>>

HandleCleanupCompleted ==
  /\ Takes("cleanup_completed") /\ Handled /\ Silent
  /\ lease' = Observed(lease, "cleanup_completed")
  /\ UNCHANGED <<rec, life, receipt, timer, beat, waited, stopping, gone>>

-----------------------------------------------------------------------------
(* The supervisor's own steps *)

\* SIGKILL: the worker is gone with its timers and commands.
Kill ==
  /\ w' = IF Alive THEN [Quiet EXCEPT !.phase = "exited", !.jobs = {}, !.timers = {}] ELSE w
  /\ UNCHANGED <<env, ran, told, owed, link, history>>

\* stopWorker: a worker that never said hello is killed, the others are asked.
StopWorker ==
  /\ ~stopping /\ ~gone /\ life # "active"
  /\ lease' = Observed(lease, "stop_requested")
  /\ stopping' = TRUE
  /\ IF lease = "spawning" THEN Kill
     ELSE ServerSends(<<"stop">>) /\ UNCHANGED <<vars, connected, up, wbuf, drops, history>>
  /\ UNCHANGED <<rec, life, receipt, timer, beat, waited, gone>>

GraceExpires == stopping /\ ~gone /\ Alive /\ Kill /\ UNCHANGED server

\* Mutant: the timer is dropped without a kill.
StartupExpiresQuietly ==
  /\ timer /\ ~gone /\ Alive
  /\ timer' = FALSE
  /\ UNCHANGED <<vars, link, history, rec, life, lease, receipt, beat, waited, stopping, gone>>

StartupExpires ==
  /\ timer /\ ~gone /\ Alive /\ Kill
  /\ timer' = FALSE
  /\ UNCHANGED <<rec, life, lease, receipt, beat, waited, stopping, gone>>

\* The watchdog's timeout is long: what was sent on a connection has arrived or
\* is lost with it.  It fires without a connection as well.
Delivered == up = <<>> /\ down = <<>>

WatchdogReplays ==
  /\ Delivered /\ ~gone /\ Replays(lease) /\ ~waited
  /\ waited' = TRUE
  /\ ServerSends(<<"accepted">>)
  /\ UNCHANGED <<vars, connected, up, wbuf, drops, history, rec, life, lease, receipt, timer,
                 beat, stopping, gone>>

WatchdogGivesUp ==
  /\ Delivered /\ ~gone /\ Replays(lease) /\ waited
  /\ lease' = Observed(lease, "failure_reported")
  /\ RecordWorkerFailure /\ Kill
  /\ waited' = FALSE
  /\ UNCHANGED <<receipt, timer, beat, stopping, gone>>

WatchdogForgets ==
  /\ waited /\ ~Replays(lease)
  /\ waited' = FALSE
  /\ UNCHANGED <<vars, link, history, rec, life, lease, receipt, timer, beat, stopping, gone>>

\* No heartbeat for the timeout: disconnected, ended, or draining, which
\* stops the heartbeat timer.
HeartbeatStale ==
  /\ ~gone /\ beat /\ lease \in {"idle", "busy", "draining"}
  /\ ~connected \/ "heartbeat" \notin w.timers
  /\ lease' = Observed(lease, "failure_reported")
  /\ RecordWorkerFailure /\ Kill
  /\ UNCHANGED <<receipt, timer, beat, waited, stopping, gone>>

\* A worker that drains and still owns the running turn.
Unfinished == lease \in {"draining", "cleanup"} /\ life = "active" /\ rec = "running"

\* handleProcessExit; unregister closes the socket.
ProcessExits ==
  /\ ~gone /\ ~Alive
  /\ IF lease \in Serving \/ Unfinished THEN RecordWorkerFailure ELSE UNCHANGED <<rec, life>>
  /\ lease' = Observed(lease, "process_exited")
  /\ gone' = TRUE /\ timer' = FALSE
  /\ connected' = FALSE /\ up' = <<>> /\ down' = <<>> /\ wbuf' = <<>> /\ sbuf' = <<>>
  /\ UNCHANGED <<vars, drops, receipt, beat, waited, stopping, history>>

-----------------------------------------------------------------------------

ProtocolInit ==
  /\ Init /\ connected = TRUE
  /\ up = <<>> /\ down = <<>> /\ wbuf = <<>> /\ sbuf = <<>> /\ drops = 0
  /\ rec = "starting" /\ life = "active" /\ lease = "spawning" /\ receipt = FALSE
  /\ timer = TRUE /\ beat = FALSE /\ waited = FALSE /\ stopping = FALSE /\ gone = FALSE
  /\ result = "none" /\ mishaps = {}

ServerHandles ==
  \/ HandleHello \/ HandleReady \/ HandleHeartbeat \/ HandleState \/ HandleTurnStarted
  \/ HandleTurnOutcome \/ HandleRefusedOutcome \/ HandleTurnFailed \/ HandleUnwritten
  \/ HandleParked \/ HandleWorkerFailed \/ HandleCleanupCompleted

Watchdog == WatchdogReplays \/ WatchdogGivesUp \/ WatchdogForgets \/ HeartbeatStale

ProtocolNext ==
  \/ Drop \/ Reconnect
  \/ WorkerStarts \/ WorkerJobEnds \/ \E t \in Timers : WorkerTimerFires(t)
  \/ WorkerEvicted \/ WorkerReceives
  \/ ServerHandles
  \/ StopWorker \/ GraceExpires \/ StartupExpires \/ Watchdog \/ ProcessExits

\* The worker and the network make progress; timers and watchdogs fire.  What
\* happens a bounded number of times shares one condition, and so do the two
\* retries of the worker, of which at most one is armed.
Bounded ==
  \/ WorkerStarts \/ WorkerJobEnds \/ Reconnect
  \/ StopWorker \/ GraceExpires \/ StartupExpires \/ HeartbeatStale \/ ProcessExits
Retries == WorkerTimerFires("acceptance_retry") \/ WorkerTimerFires("terminal_ack")

ProtocolFairness ==
  /\ WF_protocolVars(Bounded)
  /\ WF_protocolVars(WorkerReceives) /\ WF_protocolVars(ServerHandles)
  /\ SF_protocolVars(Retries)
  /\ SF_protocolVars(WatchdogReplays \/ WatchdogGivesUp)

ProtocolSpec == ProtocolInit /\ [][ProtocolNext]_protocolVars
FairProtocolSpec == ProtocolSpec /\ ProtocolFairness

-----------------------------------------------------------------------------

(* The state of both sides and of the link is well formed. *)
ProtocolTypeOK ==
  /\ TypeOK
  /\ rec \in {"starting", "bootstrap_failed", "running", "failed", "succeeded"}
  /\ life \in {"active", "error", "moved"} /\ lease \in LeaseStates
  /\ {connected, receipt, timer, beat, waited, stopping, gone} \subseteq BOOLEAN
  /\ result \in {"none", "outcome", "failure"} /\ mishaps \subseteq Mishaps
  /\ drops \in 0..MaxDrops
  /\ {down[n] : n \in DOMAIN down} \cup {sbuf[n] : n \in DOMAIN sbuf}
       \subseteq {"start", "accepted", "recorded", "stop"}

Execution == IF ran = 0 THEN "none" ELSE IF result = "none" THEN "executing" ELSE result
Ledger == INSTANCE TurnLedger WITH rec <- rec, exec <- Execution

(* The two sides, their buffers, retries, replays, watchdogs and kills        *)
(* implement the ledger: at most one execution, after acceptance, and a       *)
(* success on record only for an outcome the worker produced.                 *)
ImplementsLedger == Ledger!Spec

\* The server has the outcome on record, or the failure of the turn instead.
Answered == rec = "succeeded" \/ (rec = "failed" /\ "refused" \in mishaps)

(* A worker drops its outcome only when the server recorded it, or refused it *)
(* and recorded the failure of the turn in its place: an acknowledgement      *)
(* never overtakes the durable end.                                           *)
AckedOutcomeIsRecorded ==
  [][owed = "turn_outcome" /\ owed' = "none" => Answered]_protocolVars

\* No park comes without the failure that it stands for.
Whole == "defect" \notin mishaps /\ "unwritten" \notin mishaps

(* A process parked in error can be retried: once its worker is gone, its     *)
(* start or its turn record says failed.  Two parks are the exception and     *)
(* leave the record running: one that stands for a broken activation or turn, *)
(* and one whose failure could not be written before it.                      *)
ParkedTurnCanBeRetried ==
  gone /\ life = "error" /\ Whole => rec \in {"failed", "bootstrap_failed"}

(* The watchdog fails an idle worker, never one that executes the turn, as    *)
(* long as no report of the worker's state was lost with its connection.      *)
ExecutingWorkerIsNotGivenUp ==
  [][WatchdogGivesUp /\ drops = 0 => w.turn # "executing"]_protocolVars

(* Every start settles: it fails or is accepted, and then its turn ends in a  *)
(* terminal record.  Three mishaps leave it open: a worker that broke, a      *)
(* report that could not be written, and an eviction before acceptance, whose *)
(* exit counts as expected.                                                   *)
StartSettles ==
  (rec \in {"starting", "running"}) ~>
    \/ rec \in {"bootstrap_failed", "succeeded", "failed"}
    \/ ~Whole
    \/ rec = "starting" /\ "eviction" \in mishaps

(* The worker of a process that no longer wants it is gone in the end.        *)
UnwantedWorkerIsGone == (life # "active") ~> gone

(* The two sides agree well enough to go on: their state is well formed and   *)
(* a process parked in error can be retried.                                  *)
ProtocolInvariant == ProtocolTypeOK /\ ParkedTurnCanBeRetried

(* Nothing is left hanging: a start settles, and a worker that is not wanted  *)
(* any more is gone in the end.                                               *)
EverythingSettles == StartSettles /\ UnwantedWorkerIsGone
=============================================================================
