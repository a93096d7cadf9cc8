------------------------ MODULE WorkerAdmissionHistory ------------------------
(***************************************************************************)
(* WorkerAdmission with two history variables: which processes lost the    *)
(* worker of their current start to one of the four defects of section 4   *)
(* of the README, and how many unusual steps it took.                   *)
(***************************************************************************)
EXTENDS WorkerAdmission

CONSTANT MaxUnusual  \* bound: unusual steps, per process

ASSUME UnusualAssumption == MaxUnusual \in [Procs -> Nat]

VARIABLES
    astray,  \* processes whose current start met one of the defects
    unusual  \* unusual steps so far, per process

historyVars == <<vars, astray, unusual>>

\* No reaction of p is left; the running one is the last.
Idle(p) == tail[p] = <<>> /\ undelivered[p] = <<>>
IsLast(p) == undelivered[p] = <<>> /\ Len(tail[p]) = 1

\* request() hands out the pending allocation of an earlier start.
JoinsAnother(p) ==
    /\ pc[p] # "spawning" /\ pc'[p] = "spawning"
    /\ p \in starting /\ bound[p] # cur[p] /\ IsLast(p)

\* A stop is left behind the restart that was derived after it.
LeavesStopBehind(p) ==
    Overtake(p) /\ undelivered'[p][Len(undelivered'[p])] # "enter"

\* The last reaction, or the allocation, fails without a report.
FailsSilently(p) ==
    (StopFails(p) \/ SpawnRefused(p) \/ SpawnThrows(p)) /\ Idle(p)'

GoesAstray(p) == JoinsAnother(p) \/ LeavesStopBehind(p) \/ FailsSilently(p)

HistoryInit == Init /\ astray = {} /\ unusual = [p \in Procs |-> 0]

\* A new start is a new chance.
HistoryNext ==
    /\ \/ Usual /\ UNCHANGED unusual
       \/ \E p \in Procs : /\ Unusual(p) /\ unusual[p] < MaxUnusual[p]
                           /\ unusual' = [unusual EXCEPT ![p] = @ + 1]
    /\ astray' = {p \in Procs : GoesAstray(p) \/ (p \in astray /\ made'[p] = made[p])}

HistorySpec == HistoryInit /\ [][HistoryNext]_historyVars

FairHistorySpec == HistorySpec /\ Fairness

-----------------------------------------------------------------------------
(* Properties *)

\* An active worker start is never orphaned: whatever is replaced, reordered,
\* queued, lost or stopped, somebody answers for it.  Four defects are the
\* exception, each remembered for the start it hits: the start shares the
\* allocation of an earlier one (worker-capacity-queue.ts:49), a stop runs after
\* the restart that followed it (commit-writes.ts:403), a worker cannot be
\* stopped (worker-shutdown-controller.ts:77), and a spawn throws before it has a
\* lease to fail (worker-supervisor.ts:882, 1034).
ActiveStartIsServed == ~stopped => \A p \in Procs \ astray : live[p] => Served(p)
=============================================================================
