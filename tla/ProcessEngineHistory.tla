------------------------ MODULE ProcessEngineHistory ------------------------
(***************************************************************************)
(* ProcessEngine with a record of whether it ever strayed: a process-level *)
(* action left a worker turn, or a park was recorded on its own.  Both act *)
(* on the process without naming an execution; what holds of an engine     *)
(* that did not stray is stated here.                                      *)
(***************************************************************************)
EXTENDS ProcessEngine

\* Whether a process-level action or a separate park was ever taken.
VARIABLE strayed

StrayInit == Init /\ strayed = FALSE
StrayNext == Next /\ strayed' = (strayed \/ ProcessAction \/ ParkProcess)
StraySpec == StrayInit /\ [][StrayNext]_<<vars, strayed>>

\* CurrentExecutionIsAnchored, while nothing strayed: a process-level action
\* leaves the record of the turn it abandons running.
AnchoredUnlessStrayed == ~strayed => CurrentExecutionIsAnchored

\* ErrorIsRecoverable, while nothing strayed: a park names only its turn and
\* may put a newer start of it into an error that no retry accepts.
RecoverableUnlessStrayed == ~strayed => ErrorIsRecoverable

\* RunningTurnHasWorker, while nothing strayed, no restart moved the turn to a
\* lease its record does not name, and no lease opened for an older start was
\* sent a newer one.
OwnedByItsLease ==
    ~strayed /\ crashes = 0 /\ (\A l \in LeaseIds : leases[l].sent \in {0, leases[l].start})
      => RunningTurnHasWorker

\* LateReportsIgnored, for every report but a park, which names only its turn.
LateReportsAreIgnored ==
    [][HandlesReport /\ Head(inbox).kind # "park" => Given(Head(inbox).lease, cur)]_vars

\* While nothing strayed, the current execution is anchored in a start, a record
\* and a worker, and an error can be recovered from.
ExecutionIsAccounted == AnchoredUnlessStrayed /\ RecoverableUnlessStrayed /\ OwnedByItsLease
=============================================================================
