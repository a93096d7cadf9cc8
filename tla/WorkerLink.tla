----------------------------- MODULE WorkerLink -----------------------------
(***************************************************************************)
(* The connection between one worker and the server: the worker's          *)
(* WebSocket client, which reconnects and buffers, the server's registry   *)
(* of workers, which authenticates one socket per worker and buffers, and  *)
(* a network that may cut a connection and tell the two ends of it at      *)
(* different times.  What travels is numbered, so that order and loss show.*)
(***************************************************************************)
EXTENDS Integers, Sequences

CONSTANTS
    Conns,          \* connections that may exist at one time
    MaxUp,          \* bound on what the worker sends
    MaxDown,        \* bound on what the server sends
    MaxBuffer,      \* maxBufferedMessages
    MaxDrops,       \* bound on cut connections
    MaxRestarts     \* bound on server restarts

NoConn == "none"

ASSUME LinkAssumption ==
    /\ {MaxUp, MaxDown, MaxBuffer, MaxDrops, MaxRestarts} \subseteq Nat
    /\ NoConn \notin Conns

Token  == -1
\* The reasons that are sent with the policy close code, 1008.
Final == {"unknown", "already bound", "authentication timed out"}
Hello  == 0

VARIABLES
    conn,       \* connection -> its two ends, its two streams, why it was closed
    worker,     \* the worker's client
    entry,      \* the server's registration of the worker
    phase,      \* the server: adopting or serving
    got,        \* history: what the server was given, in order
    heard,      \* history: what the worker was given, in order
    budget      \* what is left of the bounds
vars == <<conn, worker, entry, phase, got, heard, budget>>

Dead == [w |-> "closed", s |-> "closed", cut |-> FALSE, up |-> <<>>, down |-> <<>>, code |-> "none"]
NoEntry == [known |-> FALSE, sock |-> NoConn, authed |-> FALSE, out |-> <<>>, lost |-> FALSE]

Init ==
    /\ conn = [c \in Conns |-> Dead]
    /\ worker = [state |-> "waiting", sock |-> NoConn, opened |-> FALSE, out |-> <<>>, sent |-> 0]
    /\ entry = [NoEntry EXCEPT !.known = TRUE]
    /\ phase = "serving"
    /\ got = <<>> /\ heard = <<>>
    /\ budget = [down |-> MaxDown, drops |-> MaxDrops, restarts |-> MaxRestarts, stops |-> 1]

(***************************************************************************)
(* The network.                                                            *)
(***************************************************************************)
\* A connection is cut: what is in flight is lost.
Drop(c) ==
    /\ conn[c].w # "closed" /\ ~conn[c].cut /\ budget.drops > 0
    /\ budget' = [budget EXCEPT !.drops = @ - 1]
    /\ conn' = [conn EXCEPT ![c].cut = TRUE, ![c].up = <<>>, ![c].down = <<>>]
    /\ UNCHANGED <<worker, entry, phase, got, heard>>

\* What is written to a cut connection is lost.
Cast(c, stream, msgs) == IF conn[c].cut THEN stream ELSE stream \o msgs

(***************************************************************************)
(* The worker: createWebSocketWorkerIpc.                                   *)
(***************************************************************************)
\* connect, from start() or the reconnect timer.
Connect(c) ==
    /\ worker.state = "waiting"
    /\ conn[c] = Dead
    /\ worker' = [worker EXCEPT !.state = "opening", !.sock = c]
    /\ conn' = [conn EXCEPT ![c] = [Dead EXCEPT !.w = "opening", !.s = "asked"]]
    /\ UNCHANGED <<entry, phase, got, heard, budget>>

\* Mutant: the buffer is forgotten when the socket opens.
OpenForgetful(c) ==
    /\ worker.sock = c /\ conn[c].w = "opening" /\ conn[c].s # "asked"
    /\ conn' = [conn EXCEPT ![c].w = "open", ![c].up = Cast(c, @, <<Token>>)]
    /\ worker' = [worker EXCEPT !.state = "open", !.opened = TRUE, !.out = <<>>]
    /\ UNCHANGED <<entry, phase, got, heard, budget>>

\* Mutant: the buffer is sent and kept.
OpenKeeping(c) ==
    /\ worker.sock = c /\ conn[c].w = "opening" /\ conn[c].s # "asked"
    /\ conn' = [conn EXCEPT ![c].w = "open", ![c].up = Cast(c, @, <<Token>> \o worker.out)]
    /\ worker' = [worker EXCEPT !.state = "open", !.opened = TRUE]
    /\ UNCHANGED <<entry, phase, got, heard, budget>>

\* The open event: flushOutbound sends the token, then, on a reconnection, what
\* the runtime says first, then what was buffered.
Open(c) ==
    /\ worker.sock = c /\ conn[c].w = "opening" /\ conn[c].s # "asked"
    /\ conn' = [conn EXCEPT ![c].w = "open",
                  ![c].up = Cast(c, @, <<Token>> \o (IF worker.opened THEN <<Hello>> ELSE <<>>) \o worker.out)]
    /\ worker' = [worker EXCEPT !.state = "open", !.opened = TRUE, !.out = <<>>]
    /\ UNCHANGED <<entry, phase, got, heard, budget>>

\* send: on an open socket at once, otherwise into the buffer.
WorkerSends ==
    LET n == worker.sent + 1 IN
    /\ worker.state # "failed" /\ worker.sent < MaxUp
    /\ IF worker.state = "open"
         THEN /\ conn' = [conn EXCEPT ![worker.sock].up = Cast(worker.sock, @, <<n>>)]
              /\ worker' = [worker EXCEPT !.sent = n]
         ELSE worker' = [worker EXCEPT !.sent = n, !.out = Append(@, n)] /\ UNCHANGED conn
    /\ UNCHANGED <<entry, phase, got, heard, budget>>

WorkerHears(c) ==
    /\ worker.sock = c /\ conn[c].w = "open" /\ conn[c].down # <<>>
    /\ heard' = Append(heard, Head(conn[c].down))
    /\ conn' = [conn EXCEPT ![c].down = Tail(@)]
    /\ UNCHANGED <<worker, entry, phase, got, budget>>

\* Mutant: "try again later" is taken for a final close.
WorkerSeesAnyClose(c) ==
    /\ worker.sock = c /\ conn[c].w # "closed"
    /\ conn[c].cut \/ (conn[c].s = "closed" /\ conn[c].down = <<>>)
    /\ worker' = [worker EXCEPT !.sock = NoConn,
                    !.state = IF conn[c].code \in Final \cup {"retry adoption"} /\ ~conn[c].cut THEN "failed" ELSE "waiting"]
    /\ conn' = [conn EXCEPT ![c] = IF @.s = "closed" THEN Dead ELSE [@ EXCEPT !.w = "closed"]]
    /\ UNCHANGED <<entry, phase, got, heard, budget>>

\* The close event: a policy close is final, after any other the worker
\* will connect again.
WorkerSeesClose(c) ==
    /\ worker.sock = c /\ conn[c].w # "closed"
    /\ conn[c].cut \/ (conn[c].s = "closed" /\ conn[c].down = <<>>)
    /\ worker' = [worker EXCEPT !.sock = NoConn,
                    !.state = IF conn[c].code \in Final /\ ~conn[c].cut THEN "failed" ELSE "waiting"]
    /\ conn' = [conn EXCEPT ![c] = IF @.s = "closed" THEN Dead ELSE [@ EXCEPT !.w = "closed"]]
    /\ UNCHANGED <<entry, phase, got, heard, budget>>

(***************************************************************************)
(* The server: createWorkerWebSocketIpcManager.                            *)
(***************************************************************************)
\* closeSocket: what was sent before the close is still delivered.
Shut(c, code) ==
    IF conn[c].w = "closed" THEN Dead
    ELSE [conn[c] EXCEPT !.s = "closed", !.up = <<>>, !.code = code]
Unbound == [entry EXCEPT !.sock = NoConn, !.authed = FALSE]

\* bindSocket: an unknown worker is told to come back while workers are being
\* adopted and is turned away otherwise; a second socket is turned away while
\* the first is authenticated, and replaces it otherwise.
Bind(c) ==
    /\ conn[c].s = "asked" /\ conn[c].w # "closed" /\ ~conn[c].cut
    /\ \/ /\ ~entry.known
          /\ conn' = [conn EXCEPT ![c] = Shut(c, IF phase = "adopting" THEN "retry adoption" ELSE "unknown")]
          /\ UNCHANGED entry
       \/ /\ entry.known /\ entry.authed
          /\ conn' = [conn EXCEPT ![c] = Shut(c, "already bound")]
          /\ UNCHANGED entry
       \/ /\ entry.known /\ ~entry.authed
          /\ conn' = [x \in Conns |-> IF x = c THEN [conn[c] EXCEPT !.s = "bound"]
                                      ELSE IF x = entry.sock THEN Shut(x, "authentication timed out") ELSE conn[x]]
          /\ entry' = [entry EXCEPT !.sock = c]
    /\ UNCHANGED <<worker, phase, got, heard, budget>>

\* The message event: the first message authenticates and lets the buffer go.
ServerHears(c) ==
    LET m == Head(conn[c].up) IN
    /\ conn[c].s = "bound" /\ conn[c].up # <<>>
    /\ IF entry.authed
         THEN /\ got' = IF m = Hello THEN got ELSE Append(got, m)
              /\ conn' = [conn EXCEPT ![c].up = Tail(@)]
              /\ UNCHANGED entry
         ELSE /\ m = Token
              /\ entry' = [entry EXCEPT !.authed = TRUE, !.out = <<>>]
              /\ conn' = [conn EXCEPT ![c].up = Tail(@), ![c].down = Cast(c, @, entry.out)]
              /\ UNCHANGED got
    /\ UNCHANGED <<worker, phase, heard, budget>>

AuthTimesOut(c) ==
    /\ entry.sock = c /\ ~entry.authed
    /\ conn' = [conn EXCEPT ![c] = Shut(c, "authentication timed out")]
    /\ entry' = Unbound
    /\ UNCHANGED <<worker, phase, got, heard, budget>>

\* send and queueOutbound: a full buffer is thrown away and the worker given up.
ServerSends ==
    LET n == MaxDown - budget.down + 1 IN
    /\ entry.known /\ ~entry.lost /\ budget.down > 0
    /\ budget' = [budget EXCEPT !.down = @ - 1]
    /\ IF entry.authed
         THEN /\ conn' = [conn EXCEPT ![entry.sock].down = Cast(entry.sock, @, <<n>>)]
              /\ UNCHANGED entry
         ELSE IF Len(entry.out) >= MaxBuffer
         THEN /\ entry' = [Unbound EXCEPT !.out = <<>>, !.lost = TRUE]
              /\ conn' = [x \in Conns |-> IF x = entry.sock THEN Shut(x, "overflow") ELSE conn[x]]
         ELSE entry' = [entry EXCEPT !.out = Append(@, n)] /\ UNCHANGED conn
    /\ UNCHANGED <<worker, phase, got, heard>>

\* The close event of the socket that is bound, or of one never bound.
ServerSeesClose(c) ==
    /\ conn[c].s \in {"asked", "bound"}
    /\ conn[c].cut \/ conn[c].w = "closed"
    /\ conn' = [conn EXCEPT ![c] = Shut(c, "abnormal")]
    /\ entry' = IF entry.sock = c THEN Unbound ELSE entry
    /\ UNCHANGED <<worker, phase, got, heard, budget>>

\* unregister: the worker is no longer wanted.
Unregister ==
    /\ entry.known /\ budget.stops > 0
    /\ budget' = [budget EXCEPT !.stops = 0]
    /\ entry' = NoEntry
    /\ conn' = [x \in Conns |-> IF x = entry.sock THEN Shut(x, "unregistered") ELSE conn[x]]
    /\ UNCHANGED <<worker, phase, got, heard>>

\* A new server knows no worker.  Before it listens it makes unknown workers
\* come back; reconcileStartup adopts the ones it finds and only then turns the
\* others away.
ServerRestarts ==
    /\ budget.restarts > 0
    /\ budget' = [budget EXCEPT !.restarts = @ - 1]
    /\ phase' = "adopting"
    /\ entry' = NoEntry
    /\ conn' = [c \in Conns |-> IF conn[c].s = "closed" THEN conn[c]
                                ELSE IF conn[c].w = "closed" THEN Dead
                                ELSE [Shut(c, "abnormal") EXCEPT !.cut = TRUE, !.down = <<>>]]
    /\ UNCHANGED <<worker, got, heard>>

AdoptionEnds ==
    /\ phase = "adopting" /\ phase' = "serving"
    /\ entry' = [NoEntry EXCEPT !.known = budget.stops > 0]
    /\ UNCHANGED <<conn, worker, got, heard, budget>>

Network(c) == Connect(c) \/ Open(c) \/ WorkerHears(c) \/ WorkerSeesClose(c) \/ Bind(c) \/ ServerHears(c)
                \/ ServerSeesClose(c)

Next ==
    \/ \E c \in Conns : Drop(c) \/ Network(c) \/ AuthTimesOut(c)
    \/ WorkerSends \/ ServerSends \/ Unregister
    \/ ServerRestarts \/ AdoptionEnds

Spec == Init /\ [][Next]_vars

\* The network delivers, timers fire and startup completes.
FairSpec ==
    /\ Spec
    /\ \A c \in Conns : WF_vars(Network(c)) /\ WF_vars(Open(c)) /\ WF_vars(Bind(c)) /\ WF_vars(WorkerSeesClose(c))
         /\ WF_vars(ServerHears(c)) /\ WF_vars(ServerSeesClose(c)) /\ WF_vars(WorkerHears(c))
    /\ WF_vars(\E c \in Conns : Connect(c))
    /\ WF_vars(AdoptionEnds)

-----------------------------------------------------------------------------
Increasing(s) == \A i, j \in DOMAIN s : i < j => s[i] < s[j]
Wanted == (entry.known /\ ~entry.lost) \/ (phase # "serving" /\ budget.stops > 0)

\* Type correctness; only the bound socket can be authenticated, and what the
\* server keeps for an absent worker is bounded.
LinkTypeOK ==
    /\ worker.state \in {"waiting", "opening", "open", "failed"}
    /\ (worker.sock # NoConn) <=> (worker.state \in {"opening", "open"})
    /\ phase \in {"adopting", "serving"}
    /\ entry.authed => entry.sock \in Conns /\ conn[entry.sock].s = "bound" /\ entry.out = <<>>
    /\ Len(entry.out) <= MaxBuffer
    /\ \A c \in Conns : conn[c].s = "bound" => entry.sock = c

\* Over any number of reconnections each side is given what the other sent in
\* the order it was sent, and nothing twice.
InOrder == Increasing(got) /\ Increasing(heard)

\* Reconnect timers keep the worker alive: it gives up only when the server does
\* not know it or want it any more.  A server that has not noticed the cut of an
\* older connection, or got no token in time, turns it away all the same.
OnlyUnwantedWorkersGiveUp ==
    [][worker.state # "failed" /\ worker'.state = "failed" =>
         ~Wanted \/ conn[worker.sock].code \in {"already bound", "authentication timed out"}]_vars

\* While it is wanted and was not turned away, the worker and the server find
\* each other again after the last cut or restart.
Trying == Wanted /\ worker.state # "failed"
LinkRecovers == <>[]Trying => <>[](entry.authed /\ worker.state = "open")

\* What the worker buffered while it was disconnected reaches the server once
\* connections are no longer cut or refused.
Calm ==
    /\ budget.drops = 0 /\ budget.restarts = 0 /\ phase = "serving"
    /\ \A c \in Conns : ~conn[c].cut /\ (conn[c].s = "closed" => conn[c].w = "closed")
BufferedArrives ==
    \A n \in 1 .. MaxUp :
        []((Calm /\ []Trying /\ n \in {worker.out[i] : i \in DOMAIN worker.out})
            => <>(n \in {got[i] : i \in DOMAIN got}))

\* At every moment both ends agree on the socket that counts, the buffer keeps
\* its bound, and what is delivered is in order.
LinkInvariant == LinkTypeOK /\ InOrder

\* After the last cut the ends find each other and what was buffered arrives.
LinkHeals == LinkRecovers /\ BufferedArrives
=============================================================================
