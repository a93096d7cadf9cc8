------------------------- MODULE TurnProtocolProofs -------------------------
(***************************************************************************)
(* One turn keeps its promises over a link that drops: for any number of   *)
(* drops, inputs and retries the two sides implement the ledger, an        *)
(* outcome is let go only once it is recorded, and a process parked in     *)
(* error can be retried.                                                   *)
(* As long as none dropped, no worker is given up while it executes.       *)
(*                                                                         *)
(* The worker's side is taken from module WorkerRuntimeProofs: what an     *)
(* event may say of the turn (After, Tale).  Here is what the two sides    *)
(* and the messages between them know of each other.                       *)
(***************************************************************************)
EXTENDS TurnProtocol, WorkerRuntimeProofs

-----------------------------------------------------------------------------
(* Messages in flight *)

Messages == {"start", "accepted", "recorded", "stop"}

\* A fact of the type t is in the queue q; the message m is.
Has(q, t) == \E n \in 1..Len(q) : q[n].type = t
Holds(q, m) == \E n \in 1..Len(q) : q[n] = m

LEMMA ConcatFacts ==
    ASSUME NEW a \in Seq(Facts), NEW b \in Seq(Facts)
    PROVE  LET c == a \o b
           IN  /\ c \in Seq(Facts)
               /\ \A x : Has(c, x) => Has(a, x) \/ Has(b, x)
               /\ Ordered(a) /\ Ordered(b) => Ordered(c)
<1> DEFINE c == a \o b
<1>1. /\ c \in Seq(Facts) /\ Len(c) = Len(a) + Len(b) /\ Len(a) \in Nat /\ Len(b) \in Nat
      /\ \A n \in 1..Len(a) : c[n] = a[n] /\ n \in 1..Len(c)
      /\ \A n \in 1..Len(b) : c[Len(a) + n] = b[n] /\ Len(a) + n \in 1..Len(c)
  OBVIOUS
<1>2. \A n \in 1..Len(c) : n \in 1..Len(a) \/ (n - Len(a) \in 1..Len(b) /\ c[n] = b[n - Len(a)])
  OBVIOUS
<1> HIDE DEF c
<1>3. \A x : Has(c, x) => Has(a, x) \/ Has(b, x)
  BY <1>1, <1>2 DEF Has
<1>4. ASSUME Ordered(a), Ordered(b), NEW n \in 1..Len(c), c[n].type = "parked"
      PROVE  \E m \in 1..Len(c) : m < n /\ c[m].type = "turn_failed"
  <2>1. CASE n \in 1..Len(a)
    <3>1. PICK m \in 1..Len(a) : m < n /\ a[m].type = "turn_failed"
      BY <1>1, <1>4, <2>1 DEF Ordered
    <3> QED BY <1>1, <3>1
  <2>2. CASE n - Len(a) \in 1..Len(b) /\ c[n] = b[n - Len(a)]
    <3>1. PICK m \in 1..Len(b) : m < n - Len(a) /\ b[m].type = "turn_failed"
      BY <1>4, <2>2 DEF Ordered
    <3>2. Len(a) + m \in 1..Len(c) /\ c[Len(a) + m] = b[m] /\ Len(a) + m < n
      BY <1>1, <3>1
    <3> QED BY <3>1, <3>2
  <2> QED BY <1>2, <2>1, <2>2
<1>5. Ordered(a) /\ Ordered(b) => Ordered(c)
  BY <1>4 DEF Ordered
<1> QED BY <1>1, <1>3, <1>5 DEF c

LEMMA TailFacts ==
    ASSUME NEW q \in Seq(Facts), q # <<>>
    PROVE  /\ Tail(q) \in Seq(Facts) /\ Has(q, Head(q).type)
           /\ \A x : Has(Tail(q), x) => Has(q, x)
           /\ Ordered(q) => Head(q).type # "parked"
           /\ Ordered(q) /\ Head(q).type # "turn_failed" => Ordered(Tail(q))
<1> DEFINE t == Tail(q)
<1>1. /\ t \in Seq(Facts) /\ Len(q) \in Nat /\ Len(q) > 0 /\ Len(t) = Len(q) - 1
      /\ Head(q) = q[1] /\ 1 \in 1..Len(q)
      /\ \A n \in 1..Len(t) : t[n] = q[n + 1] /\ n + 1 \in 1..Len(q)
  OBVIOUS
<1> HIDE DEF t
<1>2. Has(q, Head(q).type) /\ \A x : Has(t, x) => Has(q, x)
  BY <1>1 DEF Has
<1>3. Ordered(q) => Head(q).type # "parked"
  BY <1>1 DEF Ordered
<1>4. ASSUME Ordered(q), Head(q).type # "turn_failed", NEW n \in 1..Len(t), t[n].type = "parked"
      PROVE  \E m \in 1..Len(t) : m < n /\ t[m].type = "turn_failed"
  <2>1. q[n + 1].type = "parked" /\ n + 1 \in 1..Len(q)
    BY <1>1, <1>4
  <2>2. PICK m \in 1..Len(q) : m < n + 1 /\ q[m].type = "turn_failed"
    BY <1>4, <2>1 DEF Ordered
  <2>3. m # 1
    BY <1>1, <1>4, <2>2
  <2>4. m - 1 \in 1..Len(t) /\ m - 1 < n /\ t[m - 1] = q[(m - 1) + 1] /\ (m - 1) + 1 = m
    BY <1>1, <2>2, <2>3
  <2> QED BY <2>2, <2>4
<1>5. Ordered(q) /\ Head(q).type # "turn_failed" => Ordered(t)
  BY <1>4 DEF Ordered
<1> QED BY <1>1, <1>2, <1>3, <1>5 DEF t

LEMMA EmptyFacts == /\ <<>> \in Seq(Facts) /\ <<>> \in Seq(Messages) /\ Ordered(<<>>)
                    /\ \A x : ~Has(<<>>, x) /\ ~Holds(<<>>, x)
BY DEF Ordered, Has, Holds

LEMMA SentFacts ==
    ASSUME NEW q \in Seq(Messages), NEW m \in Messages
    PROVE  q \o <<m>> \in Seq(Messages) /\ \A x : Holds(q \o <<m>>, x) => Holds(q, x) \/ x = m
<1> DEFINE c == q \o <<m>>
<1>1. /\ c \in Seq(Messages) /\ Len(c) = Len(q) + 1 /\ Len(q) \in Nat /\ c[Len(q) + 1] = m
      /\ \A n \in 1..Len(q) : c[n] = q[n]
  OBVIOUS
<1> HIDE DEF c
<1>2. \A n \in 1..Len(c) : n \in 1..Len(q) \/ n = Len(q) + 1
  BY <1>1
<1>3. \A x : Holds(c, x) => Holds(q, x) \/ x = m
  BY <1>1, <1>2 DEF Holds
<1> QED BY <1>1, <1>3 DEF c

LEMMA TakenFacts ==
    ASSUME NEW q \in Seq(Messages), q # <<>>
    PROVE  Tail(q) \in Seq(Messages) /\ Holds(q, Head(q)) /\ \A x : Holds(Tail(q), x) => Holds(q, x)
<1> DEFINE t == Tail(q)
<1>1. /\ t \in Seq(Messages) /\ Len(q) \in Nat /\ Len(t) = Len(q) - 1 /\ Head(q) = q[1] /\ 1 \in 1..Len(q)
      /\ \A n \in 1..Len(t) : t[n] = q[n + 1] /\ n + 1 \in 1..Len(q)
  OBVIOUS
<1> HIDE DEF t
<1>2. Holds(q, Head(q)) /\ \A x : Holds(t, x) => Holds(q, x)
  BY <1>1 DEF Holds
<1> QED BY <1>1, <1>2 DEF t

-----------------------------------------------------------------------------
(* The inductive invariant *)

\* The worker's state is that of module WorkerRuntimeProofs; a worker that was
\* killed keeps what it was publishing.
WorkerOK == Typed(w) /\ w.threw = FALSE /\ (Alive => Good(w)) /\ Env /\ Hist

LinkOK ==
    /\ up \in Seq(Facts) /\ wbuf \in Seq(Facts)
    /\ down \in Seq(Messages) /\ sbuf \in Seq(Messages)

ServerOK ==
    /\ rec \in {"starting", "bootstrap_failed", "running", "failed", "succeeded"}
    /\ life \in {"active", "error", "moved"} /\ lease \in LeaseStates
    /\ connected \in BOOLEAN /\ receipt \in BOOLEAN /\ timer \in BOOLEAN /\ beat \in BOOLEAN
    /\ waited \in BOOLEAN /\ stopping \in BOOLEAN /\ gone \in BOOLEAN
    /\ result \in {"none", "outcome", "failure"} /\ mishaps \subseteq Mishaps
    /\ drops \in 0..MaxDrops

\* A fact of the type t is on its way to the server, a message m to the worker.
Rising(t) == Has(up, t) \/ Has(wbuf, t)
Falling(m) == Holds(down, m) \/ Holds(sbuf, m)

\* What the worker was granted, or is being told, the server has on record.
Granted == granted \/ Falling("accepted") => rec \notin {"starting", "bootstrap_failed"}

\* The turn ends once, and it holds a terminal publication only then.
Ending ==
    /\ result # "none" => ran = 1
    /\ "turn" \in w.jobs => result = "none"
    /\ w.pub \in {"terminal_snapshot", "terminal_pending_ack"} => result # "none"

\* An outcome is spoken of, and recorded, only if the turn produced it.
Produced ==
    w.fact = "turn_outcome" \/ Rising("turn_outcome") \/ rec = "succeeded" => result = "outcome"

\* Nothing terminal is under way before the worker publishes it.
Untold ==
    result = "none" \/ w.pub = "terminal_snapshot" =>
      ~Rising("turn_outcome") /\ ~Rising("turn_failed") /\ ~Falling("recorded")

\* While an outcome is held, what the worker is told to be recorded is that outcome,
\* or the failure that was recorded in its place.
HeldOutcome ==
    w.pub = "terminal_pending_ack" /\ w.fact = "turn_outcome" =>
      ~Rising("turn_failed") /\ (Falling("recorded") => Answered)

Moved == rec = "succeeded" <=> life = "moved"

\* Without a mishap a park comes after the failure that it stands for.
Parks ==
    Whole =>
      /\ Ordered(up) \/ rec \in {"failed", "succeeded"}
      /\ Ordered(wbuf)
      /\ life = "error" => rec \in {"failed", "bootstrap_failed"}

PInv ==
    /\ WorkerOK /\ LinkOK /\ ServerOK
    /\ Granted /\ Ending /\ Produced /\ Untold /\ HeldOutcome /\ Moved /\ Parks

LEMMA WorkerFacts ==
    ASSUME WorkerOK
    PROVE  /\ Alive => IInv
           /\ ran = IF Begun(w) THEN 1 ELSE 0
           /\ ran = 1 => granted
BY DEF WorkerOK, IInv, Sound, Hist, Begun, Admitted, Alive

LEMMA WorkerKept == ASSUME IInv PROVE WorkerOK
BY DEF WorkerOK, IInv, Sound, Alive

-----------------------------------------------------------------------------
(* A step of the worker *)

\* What an event of the worker changes on its side and on the link: facts are
\* added to the queues, messages are taken off.
Spoken(e) ==
    /\ Happens(e) /\ Observe /\ UNCHANGED server
    /\ connected' \in BOOLEAN /\ drops' = drops
    /\ connected => connected' /\ up' = up \o w'.out
    /\ up' \in Seq(Facts) /\ wbuf' \in Seq(Facts) /\ down' \in Seq(Messages) /\ sbuf' \in Seq(Messages)
    /\ \A t : Has(up', t) \/ Has(wbuf', t) => Rising(t) \/ Has(w'.out, t)
    /\ \A m : Holds(down', m) \/ Holds(sbuf', m) => Falling(m)
    /\ Ordered(w'.out) /\ Ordered(wbuf) =>
         (Ordered(up) \/ rec \in {"failed", "succeeded"} => Ordered(up') \/ rec \in {"failed", "succeeded"})
         /\ Ordered(wbuf')
    /\ granted' => granted \/ Falling("accepted")
    /\ mishaps \subseteq mishaps' /\ mishaps' \subseteq Mishaps
    /\ IF e = "job"
       THEN /\ result' = IF "turn" \notin w.jobs \ w'.jobs THEN result
                         ELSE IF w'.fact = "turn_outcome" THEN "outcome" ELSE "failure"
            /\ ParksOnly => "defect" \in mishaps'
       ELSE result' = result

LEMMA SpokenStep ==
    ASSUME PInv, NEW e, Spoken(e)
    PROVE  PInv' /\ rec' = rec /\ (Execution' = Execution \/ Ledger!Execute \/ Ledger!Finish)
<1>1. PICK v : v = w' /\ After(v, granted', e)
  BY DEF Spoken, Happens
<1>2. /\ rec' = rec /\ life' = life /\ lease' = lease /\ receipt' = receipt /\ timer' = timer
      /\ beat' = beat /\ waited' = waited /\ stopping' = stopping /\ gone' = gone
  BY DEF Spoken, server
<1>3. WorkerOK /\ Alive /\ IInv
  BY WorkerFacts DEF PInv, Spoken, Happens
<1>4. IInv' /\ WorkerOK'
  <2>1. IInv'
    BY <1>3, HappensStep DEF Spoken
  <2>2. WorkerOK'
    BY <2>1 DEF WorkerOK, IInv, Sound, Alive
  <2> QED BY <2>1, <2>2
<1>5. /\ ran = (IF Begun(w) THEN 1 ELSE 0) /\ ran' = (IF Begun(v) THEN 1 ELSE 0)
      /\ (ran = 1 => granted) /\ (ran' = 1 => granted')
  <2>1. ran' = (IF Begun(v) THEN 1 ELSE 0) /\ (Admitted(v) => granted')
    BY <1>1, <1>4 DEF IInv, Hist
  <2> QED BY <1>3, <2>1, WorkerFacts DEF Begun, Admitted
<1>6. /\ IF "turn" \in v.jobs \ w.jobs THEN ~Begun(w) /\ Begun(v) ELSE Begun(v) <=> Begun(w)
      /\ Tale(v, e)
  BY <1>1 DEF After
<1>7. "turn" \in w.jobs => Begun(w) /\ w.pub = "none"
  BY <1>3 DEF WorkerOK, Good, Begun
<1>8. /\ ~Ended(v) => result' = result
      /\ Ended(v) => result' = IF v.fact = "turn_outcome" THEN "outcome" ELSE "failure"
  <2>1. CASE e = "job"
    BY <1>1, <2>1 DEF Spoken, Ended
  <2>2. CASE e # "job"
    BY <1>6, <2>2 DEF Spoken, Tale
  <2> QED BY <2>1, <2>2
<1>9. LinkOK' /\ ServerOK'
  <2>1. result' \in {"none", "outcome", "failure"}
    BY <1>8 DEF PInv, ServerOK
  <2> QED BY <1>2, <2>1 DEF Spoken, LinkOK, ServerOK, PInv
<1>10. Granted'
  <2>1. Falling("accepted")' => Falling("accepted")
    BY DEF Spoken, Falling
  <2> QED BY <1>2, <2>1 DEF Spoken, Granted, PInv
<1>11. Ending'
  <2>1. result # "none" => ran = 1 /\ "turn" \notin w.jobs
    BY DEF PInv, Ending
  <2>2. result' # "none" => ran' = 1
    BY <1>5, <1>6, <1>7, <1>8, <2>1 DEF Ended
  <2>3. "turn" \in v.jobs => result' = "none"
    BY <1>5, <1>6, <1>8, <2>1 DEF Ended
  <2>4. v.pub \in {"terminal_snapshot", "terminal_pending_ack"} => result' # "none"
    BY <1>6, <1>8 DEF Tale, PInv, Ending
  <2> QED BY <1>1, <2>2, <2>3, <2>4 DEF Ending
<1>12. result # "none" => result' = result
  BY <1>8 DEF PInv, Ending, Ended
<1>13. \A t : Rising(t)' => Rising(t) \/ Says(v, t)
  BY <1>1 DEF Spoken, Rising, Has, Says
<1>14. Produced'
  <2>1. v.fact = "turn_outcome" => result' = "outcome"
    BY <1>6, <1>8, <1>12 DEF Tale, PInv, Produced
  <2>2. Says(v, "turn_outcome") => v.fact = "turn_outcome"
    BY <1>6 DEF Tale
  <2>3. Rising("turn_outcome") \/ rec = "succeeded" => result = "outcome"
    BY DEF PInv, Produced
  <2> QED BY <1>1, <1>2, <1>12, <1>13, <2>1, <2>2, <2>3 DEF Produced
<1>15. Falling("recorded")' => Falling("recorded")
  BY DEF Spoken, Falling
<1>16. Untold'
  <2>1. result' = "none" => result = "none" /\ ~Ended(v)
    BY <1>8
  <2>2. result = "none" => w.pub \notin {"terminal_snapshot", "terminal_pending_ack"}
    BY DEF PInv, Ending
  <2>3. result' = "none" => ~Says(v, "turn_outcome") /\ ~Says(v, "turn_failed")
    BY <1>6, <2>1, <2>2 DEF Tale
  <2>4. v.pub = "terminal_snapshot" => ~Says(v, "turn_outcome") /\ ~Says(v, "turn_failed")
    BY <1>6 DEF Tale
  <2>5. v.pub = "terminal_snapshot" => w.pub = "terminal_snapshot" \/ result = "none"
    BY <1>6 DEF Tale, Ended, PInv, Ending
  <2>6. result = "none" \/ w.pub = "terminal_snapshot" =>
          ~Rising("turn_outcome") /\ ~Rising("turn_failed") /\ ~Falling("recorded")
    BY DEF PInv, Untold
  <2> QED BY <1>1, <1>13, <1>15, <2>1, <2>3, <2>4, <2>5, <2>6 DEF Untold
<1>17. HeldOutcome'
  <2> SUFFICES ASSUME v.pub = "terminal_pending_ack", v.fact = "turn_outcome"
               PROVE  ~Rising("turn_failed")' /\ (Falling("recorded")' => Answered')
    BY <1>1, <1>2 DEF HeldOutcome
  <2>0. Answered => Answered'
    BY <1>2 DEF Spoken, Answered
  <2>1. ~Says(v, "turn_failed")
    BY <1>6 DEF Tale
  <2>2. CASE Ended(v) \/ w.pub = "terminal_snapshot"
    <3>1. result = "none" \/ w.pub = "terminal_snapshot"
      BY <2>2 DEF Ended, PInv, Ending
    <3>2. ~Rising("turn_failed") /\ ~Falling("recorded")
      BY <3>1 DEF PInv, Untold
    <3> QED BY <1>13, <1>15, <2>0, <2>1, <3>2
  <2>3. CASE ~Ended(v) /\ w.pub # "terminal_snapshot"
    <3>1. w.pub = "terminal_pending_ack" /\ w.fact = "turn_outcome"
      BY <1>6, <2>3 DEF Tale
    <3>2. ~Rising("turn_failed") /\ (Falling("recorded") => Answered)
      BY <3>1 DEF PInv, HeldOutcome
    <3> QED BY <1>13, <1>15, <2>0, <2>1, <3>2
  <2> QED BY <2>2, <2>3
<1>18. Moved'
  BY <1>2 DEF PInv, Moved
<1>19. Parks'
  <2> SUFFICES ASSUME Whole'
               PROVE  /\ Ordered(up') \/ rec \in {"failed", "succeeded"}
                      /\ Ordered(wbuf')
                      /\ life = "error" => rec \in {"failed", "bootstrap_failed"}
    BY <1>2 DEF Parks
  <2>1. Whole
    BY DEF Spoken, Whole
  <2>2. ~(e = "job" /\ ParksOnly)
    BY DEF Spoken, Whole
  <2>3. ParksOnly <=> Says(v, "parked") /\ ~(Says(v, "turn_failed") /\ v.pub = "terminal_pending_ack")
    BY <1>1 DEF ParksOnly, Sends, Says
  <2>4. Ordered(v.out)
    BY <1>6, <2>2, <2>3 DEF Tale
  <2> QED BY <1>1, <2>1, <2>4 DEF Spoken, PInv, Parks
<1>20. Execution' = Execution \/ Ledger!Execute \/ Ledger!Finish
  <2>1. ran \in {0, 1} /\ ran' \in {0, 1} /\ result \in {"none", "outcome", "failure"}
        /\ result' \in {"none", "outcome", "failure"}
    BY <1>5, <1>9 DEF PInv, ServerOK
  <2>2. /\ result # "none" => ran = 1
        /\ result' # "none" => ran' = 1
        /\ "turn" \in w.jobs => result = "none"
    BY <1>11 DEF PInv, Ending
  <2>3. CASE Ended(v)
    <3>1. ran = 1 /\ result = "none" /\ ran' = 1 /\ result' \in {"outcome", "failure"}
      BY <1>5, <1>6, <1>7, <1>8, <2>2, <2>3 DEF Ended
    <3>2. Execution = "executing" /\ Execution' \in {"outcome", "failure"}
      BY <3>1 DEF Execution
    <3> QED BY <1>2, <3>2 DEF Ledger!Finish
  <2>4. CASE ~Ended(v) /\ ran' = ran
    BY <1>8, <2>4 DEF Execution
  <2>5. CASE ~Ended(v) /\ ran' # ran
    <3>1. ran = 0 /\ ran' = 1 /\ result = "none" /\ result' = "none"
      BY <1>5, <1>6, <1>8, <2>1, <2>2, <2>5
    <3>2. granted' /\ rec \notin {"starting", "bootstrap_failed"}
      BY <1>2, <1>5, <1>10, <3>1 DEF Granted
    <3>3. rec \in {"running", "failed"}
      BY <3>1, <3>2 DEF PInv, ServerOK, Produced
    <3>4. Execution = "none" /\ Execution' = "executing"
      BY <3>1 DEF Execution
    <3> QED BY <1>2, <3>3, <3>4 DEF Ledger!Execute
  <2> QED BY <2>3, <2>4, <2>5
<1> QED BY <1>2, <1>4, <1>9, <1>10, <1>11, <1>14, <1>16, <1>17, <1>18, <1>19, <1>20 DEF PInv

\* Facts go to the connection or to the buffer, or are dropped by a worker that exits.
LEMMA SendsFacts ==
    ASSUME PInv, NEW v, v = w', Typed(v),
           up' = IF connected THEN up \o v.out ELSE up,
           wbuf' = wbuf \/ wbuf' = wbuf \o v.out
    PROVE  /\ up' \in Seq(Facts) /\ wbuf' \in Seq(Facts)
           /\ \A t : Has(up', t) \/ Has(wbuf', t) => Rising(t) \/ Has(w'.out, t)
           /\ Ordered(w'.out) /\ Ordered(wbuf) =>
                (Ordered(up) \/ rec \in {"failed", "succeeded"} => Ordered(up') \/ rec \in {"failed", "succeeded"})
                /\ Ordered(wbuf')
<1>1. up \in Seq(Facts) /\ wbuf \in Seq(Facts) /\ v.out \in Seq(Facts)
  BY DEF PInv, LinkOK, Typed
<1> DEFINE a == up \o v.out
           b == wbuf \o v.out
<1>2. a \in Seq(Facts) /\ (\A x : Has(a, x) => Has(up, x) \/ Has(v.out, x))
      /\ (Ordered(up) /\ Ordered(v.out) => Ordered(a))
  BY <1>1, ConcatFacts
<1>3. b \in Seq(Facts) /\ (\A x : Has(b, x) => Has(wbuf, x) \/ Has(v.out, x))
      /\ (Ordered(wbuf) /\ Ordered(v.out) => Ordered(b))
  BY <1>1, ConcatFacts
<1>4. (up' = up \/ up' = a) /\ (wbuf' = wbuf \/ wbuf' = b)
  OBVIOUS
<1> HIDE DEF a, b
<1>5. up' \in Seq(Facts) /\ wbuf' \in Seq(Facts)
  BY <1>1, <1>2, <1>3, <1>4
<1>6. \A t : Has(up', t) \/ Has(wbuf', t) => Rising(t) \/ Has(w'.out, t)
  BY <1>2, <1>3, <1>4 DEF Rising
<1>7. Ordered(w'.out) /\ Ordered(wbuf) =>
        (Ordered(up) \/ rec \in {"failed", "succeeded"} => Ordered(up') \/ rec \in {"failed", "succeeded"})
        /\ Ordered(wbuf')
  BY <1>2, <1>3, <1>4
<1> QED BY <1>5, <1>6, <1>7

LEMMA HappensTyped == ASSUME NEW e, Happens(e) PROVE \E v : v = w' /\ Typed(v)
BY DEF Happens, After, Sound

\* An event whose facts are sent, and that takes no message.
LEMMA SendsSpoken ==
    ASSUME PInv, NEW e, Happens(e), Observe, WorkerSends, UNCHANGED server,
           granted' => granted,
           mishaps \subseteq mishaps', mishaps' \subseteq Mishaps,
           IF e = "job"
           THEN /\ result' = IF "turn" \notin w.jobs \ w'.jobs THEN result
                             ELSE IF w'.fact = "turn_outcome" THEN "outcome" ELSE "failure"
                /\ ParksOnly => "defect" \in mishaps'
           ELSE result' = result
    PROVE  Spoken(e)
<1>1. PICK v : v = w' /\ Typed(v)
  BY HappensTyped
<1>2. /\ up' = IF connected THEN up \o v.out ELSE up
      /\ wbuf' = wbuf \/ wbuf' = wbuf \o v.out
      /\ connected' = connected /\ down' = down /\ sbuf' = sbuf /\ drops' = drops
  BY <1>1 DEF WorkerSends
<1>3. /\ up' \in Seq(Facts) /\ wbuf' \in Seq(Facts)
      /\ \A t : Has(up', t) \/ Has(wbuf', t) => Rising(t) \/ Has(w'.out, t)
      /\ Ordered(w'.out) /\ Ordered(wbuf) =>
           (Ordered(up) \/ rec \in {"failed", "succeeded"} => Ordered(up') \/ rec \in {"failed", "succeeded"})
           /\ Ordered(wbuf')
  BY <1>1, <1>2, SendsFacts
<1>4. /\ down' \in Seq(Messages) /\ sbuf' \in Seq(Messages) /\ connected' \in BOOLEAN
      /\ \A m : Holds(down', m) \/ Holds(sbuf', m) => Falling(m)
  BY <1>2 DEF PInv, LinkOK, ServerOK, Falling
<1>5. connected => connected' /\ up' = up \o w'.out
  BY <1>1, <1>2
<1> QED BY <1>2, <1>3, <1>4, <1>5 DEF Spoken

LEMMA EnvKept == ASSUME UNCHANGED env PROVE granted' = granted
BY DEF env

LEMMA StartsSpoken == ASSUME PInv, WorkerStarts PROVE Spoken("other")
<1>1. Local /\ Observe /\ WorkerSends /\ UNCHANGED server /\ result' = result /\ mishaps' = mishaps
      /\ granted' = granted /\ Alive
  BY EnvKept DEF WorkerStarts, Local, history, RuntimeStarted, Alive
<1>2. Happens("other")
  BY <1>1, WorkerFacts, LocalHappens DEF PInv
<1> QED BY <1>1, <1>2, SendsSpoken DEF PInv, ServerOK

LEMMA JobSpoken == ASSUME PInv, WorkerJobEnds PROVE Spoken("job")
<1>1. /\ JobEnds /\ Observe /\ WorkerSends /\ UNCHANGED server /\ granted' = granted
      /\ mishaps' = (IF ParksOnly THEN mishaps \cup {"defect"} ELSE mishaps)
      /\ result' = IF "turn" \notin w.jobs \ w'.jobs THEN result
                   ELSE IF w'.fact = "turn_outcome" THEN "outcome" ELSE "failure"
  BY DEF WorkerJobEnds
<1>2. Alive
  BY <1>1 DEF JobEnds, BootstrapSucceeded, BootstrapFailed, ActivationSucceeded, OperationFailed,
              InputsDelivered, InputDeliveryFailed, TurnCompleted, SnapshotCompleted,
              CredentialSampled, CredentialSampleFailed, CleanupCompleted
<1>3. Happens("job")
  BY <1>1, <1>2, WorkerFacts, JobHappens DEF PInv
<1>4. /\ mishaps \subseteq mishaps' /\ mishaps' \subseteq Mishaps
      /\ ParksOnly => "defect" \in mishaps'
  BY <1>1 DEF PInv, ServerOK, Mishaps
<1> QED BY <1>1, <1>3, <1>4, SendsSpoken

LEMMA TimerSpoken == ASSUME PInv, NEW t \in Timers, WorkerTimerFires(t) PROVE Spoken("other")
<1>1. Local /\ Observe /\ WorkerSends /\ UNCHANGED server /\ result' = result /\ mishaps' = mishaps
      /\ granted' = granted /\ Alive
  BY EnvKept DEF WorkerTimerFires, Local, history, TimerFired
<1>2. Happens("other")
  BY <1>1, WorkerFacts, LocalHappens DEF PInv
<1> QED BY <1>1, <1>2, SendsSpoken DEF PInv, ServerOK

LEMMA EvictedSpoken == ASSUME PInv, WorkerEvicted PROVE Spoken("other")
<1>1. /\ Local /\ Observe /\ WorkerSends /\ UNCHANGED server /\ result' = result
      /\ mishaps' = mishaps \cup {"eviction"} /\ granted' = granted /\ Alive
  BY EnvKept DEF WorkerEvicted, Local, StopRequested
<1>2. Happens("other")
  BY <1>1, WorkerFacts, LocalHappens DEF PInv
<1>3. mishaps \subseteq mishaps' /\ mishaps' \subseteq Mishaps
  BY <1>1 DEF PInv, ServerOK, Mishaps
<1> QED BY <1>1, <1>2, <1>3, SendsSpoken

LEMMA ReconnectSpoken == ASSUME PInv, Reconnect PROVE Spoken("other")
<1>1. /\ Local /\ Observe /\ UNCHANGED server /\ result' = result /\ mishaps' = mishaps
      /\ granted' = granted /\ Alive
  BY EnvKept DEF Reconnect, Local, history, TransportConnected, Alive
<1>2. Happens("other")
  BY <1>1, WorkerFacts, LocalHappens DEF PInv
<1>3. PICK v : v = w' /\ Typed(v)
  BY <1>2, HappensTyped
<1>4. up' = v.out \o wbuf /\ wbuf' = <<>> /\ down' = sbuf /\ sbuf' = <<>> /\ connected' = TRUE /\ drops' = drops
  BY <1>3 DEF Reconnect
<1>5. v.out \in Seq(Facts) /\ wbuf \in Seq(Facts) /\ sbuf \in Seq(Messages)
  BY <1>3 DEF Typed, PInv, LinkOK
<1>6. /\ up' \in Seq(Facts)
      /\ \A x : Has(up', x) => Has(v.out, x) \/ Has(wbuf, x)
      /\ Ordered(v.out) /\ Ordered(wbuf) => Ordered(up')
  BY <1>4, <1>5, ConcatFacts
<1>7. /\ \A t : Has(up', t) \/ Has(wbuf', t) => Rising(t) \/ Has(w'.out, t)
      /\ \A m : Holds(down', m) \/ Holds(sbuf', m) => Falling(m)
  BY <1>3, <1>4, <1>6, EmptyFacts DEF Rising, Falling
<1>8. wbuf' \in Seq(Facts) /\ down' \in Seq(Messages) /\ sbuf' \in Seq(Messages) /\ Ordered(wbuf')
  BY <1>4, <1>5, EmptyFacts
<1>9. Ordered(w'.out) /\ Ordered(wbuf) =>
        (Ordered(up) \/ rec \in {"failed", "succeeded"} => Ordered(up') \/ rec \in {"failed", "succeeded"})
        /\ Ordered(wbuf')
  BY <1>3, <1>6, <1>8
<1>10. mishaps \subseteq mishaps' /\ mishaps' \subseteq Mishaps /\ connected' \in BOOLEAN
  BY <1>1, <1>4 DEF PInv, ServerOK
<1>11. ~connected
  BY DEF Reconnect
<1> QED BY <1>1, <1>2, <1>4, <1>6, <1>7, <1>8, <1>9, <1>10, <1>11 DEF Spoken

\* A message the worker does not wait for.
LEMMA IgnoredHappens == ASSUME IInv, Alive, Ignored PROVE Happens("other")
<1>1. Typed(Quiet) /\ Keeps(w, Quiet, {"out"}) /\ Mute(Quiet)
  BY QuietFacts
<1>2. /\ Keeps(w, Quiet, {"queue", "consumed", "tainted", "cred", "base", "stage", "kind", "timers", "jobs", "out"})
      /\ Quiet.jobs = w.jobs /\ Quiet.timers = w.timers
  BY <1>1 DEF Keeps, Fields
<1>3. Pre(Quiet, granted, "other")
  BY <1>1, <1>2, CalmPre
<1> QED BY <1>3, OwnEvent DEF Ignored

\* The message taken off the connection is one that was in flight.
LEMMA ReceivesSpoken ==
    ASSUME PInv, WorkerReceives
    PROVE  \E e : Spoken(e) /\ (e = "recorded" => Falling("recorded"))
<1> DEFINE m == Head(down)
           c1 == m = "start" /\ w.phase = "waiting_for_start"
           c2 == m = "accepted" /\ w.phase \notin {"init", "waiting_for_start", "bootstrapping"}
           c3 == m = "recorded" /\ w.pub = "terminal_pending_ack"
           c4 == m = "stop" /\ w.phase \notin {"draining", "cleaning"}
           a3 == ReceiveRecorded /\ UNCHANGED env
           a4 == StopRequested /\ UNCHANGED env
           x == CASE c1 -> ReceiveStart [] c2 -> ReceiveAccepted [] c3 -> a3 [] c4 -> a4 [] OTHER -> Ignored
<1>1. /\ down # <<>> /\ Alive /\ Observe /\ UNCHANGED server /\ result' = result /\ mishaps' = mishaps
      /\ up' = (IF connected THEN up \o w'.out ELSE up) /\ down' = Tail(down)
      /\ connected' = connected /\ wbuf' = wbuf /\ sbuf' = sbuf /\ drops' = drops
      /\ x
  BY DEF WorkerReceives, history
<1>2. ReceiveStart \/ (m = "accepted" /\ ReceiveAccepted) \/ (m = "recorded" /\ a3) \/ a4 \/ Ignored
  <2>1. (c2 => m = "accepted") /\ (c3 => m = "recorded")
    OBVIOUS
  <2>2. x
    BY <1>1
  <2> HIDE DEF m, c1, c2, c3, c4, a3, a4
  <2>3. x => ReceiveStart \/ (c2 /\ ReceiveAccepted) \/ (c3 /\ a3) \/ a4 \/ Ignored
    BY Zenon
  <2> HIDE DEF x
  <2> QED BY <2>1, <2>2, <2>3
<1>3. IInv
  BY <1>1, WorkerFacts DEF PInv
<1>4. Holds(down, m) /\ Tail(down) \in Seq(Messages) /\ \A y : Holds(Tail(down), y) => Holds(down, y)
  BY <1>1, TakenFacts DEF PInv, LinkOK
<1> HIDE DEF m, x
<1>5. PICK e \in {"recorded", "other"} :
        /\ Happens(e) /\ (e = "recorded" => m = "recorded")
        /\ granted' => granted \/ m = "accepted"
  <2>1. CASE ReceiveStart
    <3>1. Happens("other") /\ granted' = granted
      BY <1>3, <2>1, StartHappens DEF ReceiveStart
    <3> QED BY <3>1
  <2>2. CASE m = "accepted" /\ ReceiveAccepted
    BY <1>3, <2>2, AcceptedHappens
  <2>3. CASE m = "recorded" /\ a3
    <3>1. Happens("recorded")
      BY <1>3, <2>3, RecordedPre, OwnEvent
    <3>2. granted' = granted
      BY <2>3, EnvKept
    <3> QED BY <2>3, <3>1, <3>2
  <2>4. CASE a4
    <3>1. Happens("other")
      BY <1>3, <2>4, LocalHappens DEF Local
    <3>2. granted' = granted
      BY <2>4, EnvKept
    <3> QED BY <3>1, <3>2
  <2>5. CASE Ignored
    <3>1. Happens("other") /\ granted' = granted
      BY <1>1, <1>3, <2>5, IgnoredHappens, EnvKept DEF Ignored
    <3> QED BY <3>1
  <2> QED BY <1>2, <2>1, <2>2, <2>3, <2>4, <2>5
<1>6. PICK v : v = w' /\ Typed(v)
  BY <1>5, HappensTyped
<1>7. /\ up' \in Seq(Facts) /\ wbuf' \in Seq(Facts)
      /\ \A t : Has(up', t) \/ Has(wbuf', t) => Rising(t) \/ Has(w'.out, t)
      /\ Ordered(w'.out) /\ Ordered(wbuf) =>
           (Ordered(up) \/ rec \in {"failed", "succeeded"} => Ordered(up') \/ rec \in {"failed", "succeeded"})
           /\ Ordered(wbuf')
  <2>1. up' = IF connected THEN up \o v.out ELSE up
    BY <1>1, <1>6
  <2>2. wbuf' = wbuf
    BY <1>1
  <2> QED BY <1>6, <2>1, <2>2, SendsFacts
<1>8. /\ down' \in Seq(Messages) /\ sbuf' \in Seq(Messages) /\ connected' \in BOOLEAN
      /\ \A y : Holds(down', y) \/ Holds(sbuf', y) => Falling(y)
      /\ mishaps \subseteq mishaps' /\ mishaps' \subseteq Mishaps
  BY <1>1, <1>4 DEF PInv, LinkOK, ServerOK, Falling
<1>9. (granted' => granted \/ Falling("accepted")) /\ (e = "recorded" => Falling("recorded")) /\ e # "job"
  BY <1>4, <1>5 DEF Falling
<1>10. connected => connected' /\ up' = up \o w'.out
  BY <1>1
<1>11. Spoken(e)
  BY <1>1, <1>5, <1>7, <1>8, <1>9, <1>10 DEF Spoken
<1> QED BY <1>9, <1>11

-----------------------------------------------------------------------------
(* A step of the server *)

LEMMA LeaseType == ASSUME NEW l \in LeaseStates, NEW o PROVE Observed(l, o) \in LeaseStates
<1>1. CASE Applies(l, o)
  <2>1. \E to \in LeaseStates : <<l, o, to>> \in LeaseTransitions
    BY <1>1 DEF Applies
  <2>2. (CHOOSE to \in LeaseStates : <<l, o, to>> \in LeaseTransitions) \in LeaseStates
    BY <2>1
  <2> QED BY <1>1, <2>2 DEF Observed
<1>2. CASE ~Applies(l, o)
  BY <1>2 DEF Observed
<1> QED BY <1>1, <1>2

\* The worker does nothing, or is killed: what it published stays.
WorkerStill ==
    /\ WorkerOK'
    /\ w'.pub = w.pub /\ w'.fact = w.fact /\ w'.jobs \subseteq w.jobs
    /\ ran' = ran /\ granted' = granted /\ owed' = owed /\ result' = result
    /\ mishaps \subseteq mishaps' /\ mishaps' \subseteq Mishaps

LEMMA StillHistory ==
    ASSUME PInv, UNCHANGED history
    PROVE  result' = result /\ mishaps' = mishaps /\ mishaps \subseteq mishaps' /\ mishaps' \subseteq Mishaps
BY DEF PInv, ServerOK, history

LEMMA StillVars ==
    ASSUME PInv, UNCHANGED vars, result' = result, mishaps \subseteq mishaps', mishaps' \subseteq Mishaps
    PROVE  WorkerStill
<1>1. /\ w' = w /\ arrived' = arrived /\ payload' = payload /\ overtaken' = overtaken
      /\ granted' = granted /\ ran' = ran /\ owed' = owed /\ result' = result
  BY DEF vars
<1>2. WorkerOK'
  BY <1>1 DEF PInv, WorkerOK, Env, Hist, Alive
<1> QED BY <1>1, <1>2 DEF WorkerStill

LEMMA StillKilled == ASSUME PInv, Kill PROVE WorkerStill /\ UNCHANGED link
<1>1. /\ arrived' = arrived /\ payload' = payload /\ overtaken' = overtaken
      /\ granted' = granted /\ ran' = ran /\ owed' = owed /\ result' = result
      /\ mishaps \subseteq mishaps' /\ mishaps' \subseteq Mishaps /\ UNCHANGED link
  BY StillHistory DEF Kill, env
<1>2. CASE ~Alive
  <2>1. w' = w
    BY <1>2 DEF Kill
  <2>2. WorkerOK'
    BY <1>1, <2>1 DEF PInv, WorkerOK, Env, Hist, Alive
  <2> QED BY <1>1, <2>1, <2>2 DEF WorkerStill
<1>3. CASE Alive
  <2> DEFINE k == [Quiet EXCEPT !.phase = "exited", !.jobs = {}, !.timers = {}]
  <2>1. Typed(Quiet) /\ Keeps(w, Quiet, {"out"})
    BY <1>3, WorkerFacts, QuietFacts DEF PInv
  <2>2. Keeps(Quiet, k, {"phase", "jobs", "timers"}) /\ k.phase = "exited" /\ k.jobs = {} /\ k.timers = {}
    BY <2>1 DEF Keeps, Typed, Fields
  <2>3. w' = k
    BY <1>3 DEF Kill
  <2> HIDE DEF k
  <2>4. Typed(k)
    BY <2>1, <2>2 DEF Keeps, Typed, Fields, Phases
  <2>5. /\ k.pub = w.pub /\ k.fact = w.fact /\ k.turn = w.turn /\ k.accepted = w.accepted /\ k.threw = w.threw
    BY <2>1, <2>2 DEF Keeps, Fields
  <2>6. PICK v : v = w' /\ v = k
    BY <2>3
  <2>7. Env' /\ Hist' /\ ~Alive'
    <3>1. (Begun(v) <=> Begun(w)) /\ (Admitted(v) => Admitted(w)) /\ v.phase = "exited"
      BY <2>2, <2>5, <2>6 DEF Begun, Admitted
    <3> QED BY <1>1, <2>6, <3>1 DEF PInv, WorkerOK, Env, Hist, Alive
  <2>8. WorkerOK'
    BY <2>4, <2>5, <2>6, <2>7 DEF PInv, WorkerOK
  <2> QED BY <1>1, <2>2, <2>5, <2>6, <2>8 DEF WorkerStill
<1> QED BY <1>2, <1>3

\* What may become of the record.
Records ==
    \/ rec' = rec
    \/ rec = "starting" /\ rec' \in {"running", "bootstrap_failed"}
    \/ rec = "running" /\ rec' = "failed"
    \/ rec \in {"running", "failed"} /\ rec' = "succeeded" /\ Rising("turn_outcome")

\* A message to the worker that was not in flight before.
Answers(m) ==
    \/ m \in {"start", "stop"}
    \/ m = "accepted" /\ rec' = "running"
    \/ m = "recorded" /\ ((Answered' /\ Rising("turn_outcome")) \/ Rising("turn_failed"))

\* A step of the server keeps the invariant and is a step of the ledger.
Serves ==
    /\ PInv' /\ owed' = owed /\ Execution' = Execution
    /\ \/ rec' = rec
       \/ Ledger!Accept \/ Ledger!FailStart \/ Ledger!Succeed \/ Ledger!Fail

LEMMA ServerStep ==
    ASSUME PInv, WorkerStill, LinkOK', ServerOK', Records, Moved', Parks',
           \A t : Rising(t)' => Rising(t),
           \A m : Falling(m)' => Falling(m) \/ Answers(m)
    PROVE  Serves
<1>1. PICK v : v = w' /\ v.pub = w.pub /\ v.fact = w.fact /\ v.jobs \subseteq w.jobs
  BY DEF WorkerStill
<1>2. ran' = ran /\ granted' = granted /\ owed' = owed /\ result' = result /\ WorkerOK'
      /\ mishaps \subseteq mishaps'
  BY DEF WorkerStill
<1>3. Answered => Answered'
  BY <1>2 DEF Records, Answered
<1>4. Granted'
  <2>1. Falling("accepted")' => Falling("accepted") \/ rec' = "running"
    BY DEF Answers
  <2> QED BY <1>2, <2>1 DEF Granted, PInv, Records
<1>5. Ending'
  BY <1>1, <1>2 DEF Ending, PInv
<1>6. Produced'
  BY <1>1, <1>2 DEF Produced, PInv, Records
<1>7. Untold'
  <2>1. Falling("recorded")' => Falling("recorded") \/ Rising("turn_outcome") \/ Rising("turn_failed")
    BY DEF Answers
  <2> QED BY <1>1, <1>2, <2>1 DEF Untold, PInv
<1>8. HeldOutcome'
  <2>1. Falling("recorded")' => Falling("recorded") \/ Answered' \/ Rising("turn_failed")
    BY DEF Answers
  <2> QED BY <1>1, <1>2, <1>3, <2>1 DEF HeldOutcome, PInv
<1>9. Execution' = Execution
  BY <1>2 DEF Execution
<1>10. \/ rec' = rec
       \/ Ledger!Accept \/ Ledger!FailStart \/ Ledger!Succeed \/ Ledger!Fail
  <2>1. CASE rec \in {"running", "failed"} /\ rec' = "succeeded" /\ Rising("turn_outcome")
    <3>1. result = "outcome" /\ ran = 1
      BY <2>1 DEF PInv, Produced, Ending
    <3>2. Execution = "outcome"
      BY <3>1 DEF Execution
    <3> QED BY <1>9, <2>1, <3>2 DEF Ledger!Succeed
  <2>2. CASE rec = "starting" /\ rec' \in {"running", "bootstrap_failed"}
    BY <1>9, <2>2 DEF Ledger!Accept, Ledger!FailStart
  <2>3. CASE rec = "running" /\ rec' = "failed"
    BY <1>9, <2>3 DEF Ledger!Fail
  <2> QED BY <2>1, <2>2, <2>3 DEF Records
<1> QED BY <1>2, <1>4, <1>5, <1>6, <1>7, <1>8, <1>9, <1>10 DEF PInv, Serves

LEMMA HandledFacts ==
    ASSUME PInv, up # <<>>, up' = Tail(up), wbuf' = wbuf
    PROVE  /\ up' \in Seq(Facts) /\ wbuf' \in Seq(Facts)
           /\ \A t : Rising(t)' => Rising(t)
           /\ Has(up, Head(up).type)
           /\ Ordered(up) => Head(up).type # "parked"
           /\ Ordered(up) /\ Head(up).type # "turn_failed" => Ordered(up')
<1>1. up \in Seq(Facts) /\ wbuf \in Seq(Facts)
  BY DEF PInv, LinkOK
<1>2. /\ up' \in Seq(Facts) /\ Has(up, Head(up).type)
      /\ \A x : Has(up', x) => Has(up, x)
      /\ Ordered(up) => Head(up).type # "parked"
      /\ Ordered(up) /\ Head(up).type # "turn_failed" => Ordered(up')
  BY <1>1, TailFacts
<1>3. \A t : Rising(t)' => Rising(t)
  BY <1>2 DEF Rising
<1> QED BY <1>1, <1>2, <1>3

LEMMA ServerSendsFacts ==
    ASSUME PInv, NEW m \in Messages, ServerSends(<<m>>)
    PROVE  /\ down' \in Seq(Messages) /\ sbuf' \in Seq(Messages)
           /\ \A x : Falling(x)' => Falling(x) \/ x = m
<1>1. down \in Seq(Messages) /\ sbuf \in Seq(Messages)
  BY DEF PInv, LinkOK
<1> DEFINE a == down \o <<m>>
           b == sbuf \o <<m>>
<1>2. a \in Seq(Messages) /\ \A x : Holds(a, x) => Holds(down, x) \/ x = m
  BY <1>1, SentFacts
<1>3. b \in Seq(Messages) /\ \A x : Holds(b, x) => Holds(sbuf, x) \/ x = m
  BY <1>1, SentFacts
<1>4. (down' = down \/ down' = a) /\ (sbuf' = sbuf \/ sbuf' = b)
  BY DEF ServerSends
<1> HIDE DEF a, b
<1>5. \A x : Falling(x)' => Falling(x) \/ x = m
  BY <1>2, <1>3, <1>4 DEF Falling
<1> QED BY <1>1, <1>2, <1>3, <1>4, <1>5

LEMMA SilentFacts ==
    ASSUME PInv, Silent
    PROVE  down' \in Seq(Messages) /\ sbuf' \in Seq(Messages) /\ \A x : Falling(x)' => Falling(x)
BY DEF Silent, PInv, LinkOK, Falling

-----------------------------------------------------------------------------
(* The messages of the worker *)

\* A handler takes the head of the queue and leaves the worker alone.
Taken ==
    /\ up # <<>> /\ up' = Tail(up) /\ wbuf' = wbuf /\ connected' = connected /\ drops' = drops
    /\ UNCHANGED vars /\ result' = result /\ mishaps \subseteq mishaps' /\ mishaps' \subseteq Mishaps

LEMMA HandledTaken == ASSUME PInv, up # <<>>, Handled PROVE Taken
<1>1. UNCHANGED history
  BY DEF Handled
<1> QED BY <1>1, StillHistory DEF Handled, Taken

LEMMA AmissTaken ==
    ASSUME PInv, up # <<>>, NEW m \in Mishaps, HandledAmiss(m) PROVE Taken /\ m \in mishaps'
BY DEF HandledAmiss, Taken, PInv, ServerOK

\* If it was a failure, it is on record now, or could not be written.
LEMMA HandlerStep ==
    ASSUME PInv, Taken, ServerOK', Records, Moved',
           down' \in Seq(Messages), sbuf' \in Seq(Messages),
           \A m : Falling(m)' => Falling(m) \/ Answers(m),
           Head(up).type = "turn_failed" => rec' \in {"failed", "succeeded"} \/ ~Whole',
           Whole /\ life' = "error" => rec' \in {"failed", "bootstrap_failed"}
    PROVE  Serves
<1>1. /\ UNCHANGED vars /\ up # <<>> /\ up' = Tail(up) /\ wbuf' = wbuf /\ result' = result
      /\ mishaps \subseteq mishaps' /\ mishaps' \subseteq Mishaps
  BY DEF Taken
<1>2. WorkerStill
  BY <1>1, StillVars
<1>3. /\ up' \in Seq(Facts) /\ wbuf' \in Seq(Facts)
      /\ \A t : Rising(t)' => Rising(t)
      /\ Ordered(up) /\ Head(up).type # "turn_failed" => Ordered(up')
  BY <1>1, HandledFacts
<1>4. LinkOK'
  BY <1>3 DEF LinkOK
<1>5. Parks'
  <2> SUFFICES ASSUME Whole'
               PROVE  /\ Ordered(up') \/ rec' \in {"failed", "succeeded"}
                      /\ Ordered(wbuf')
                      /\ life' = "error" => rec' \in {"failed", "bootstrap_failed"}
    BY DEF Parks
  <2>3. Whole
    BY <1>1 DEF Whole
  <2>1. (Ordered(up) \/ rec \in {"failed", "succeeded"}) /\ Ordered(wbuf)
    BY <2>3 DEF PInv, Parks
  <2>2. rec \in {"failed", "succeeded"} => rec' \in {"failed", "succeeded"}
    BY DEF Records
  <2> QED BY <1>1, <1>3, <2>1, <2>2, <2>3
<1> QED BY <1>2, <1>3, <1>4, <1>5, ServerStep

\* A handler that leaves the record and the lifecycle alone.
LEMMA CalmHandler ==
    ASSUME PInv, up # <<>>, Handled, rec' = rec, life' = life, lease' \in LeaseStates,
           receipt' \in BOOLEAN, timer' \in BOOLEAN, beat' \in BOOLEAN,
           waited' = waited, stopping' = stopping, gone' = gone,
           down' \in Seq(Messages), sbuf' \in Seq(Messages),
           \A m : Falling(m)' => Falling(m) \/ Answers(m),
           Head(up).type # "turn_failed"
    PROVE  Serves
<1>1. ServerOK'
  BY HandledTaken DEF PInv, ServerOK, Taken
<1>2. Records /\ Moved'
  BY DEF Records, PInv, Moved
<1>3. Whole /\ life' = "error" => rec' \in {"failed", "bootstrap_failed"}
  BY DEF PInv, Parks
<1> QED BY <1>1, <1>2, <1>3, HandledTaken, HandlerStep

LEMMA HelloServes == ASSUME PInv, HandleHello PROVE Serves
<1>1. /\ up # <<>> /\ Head(up).type # "turn_failed" /\ Handled
      /\ lease' = Observed(lease, "handshake_received")
      /\ ServerSends(<<"start">>) \/ Silent
      /\ rec' = rec /\ life' = life /\ receipt' = receipt /\ timer' = timer /\ beat' = beat
      /\ waited' = waited /\ stopping' = stopping /\ gone' = gone
  BY DEF HandleHello, Takes
<1>2. lease' \in LeaseStates /\ receipt' \in BOOLEAN /\ timer' \in BOOLEAN /\ beat' \in BOOLEAN
  BY <1>1, LeaseType DEF PInv, ServerOK
<1>3. /\ down' \in Seq(Messages) /\ sbuf' \in Seq(Messages)
      /\ \A x : Falling(x)' => Falling(x) \/ x = "start"
  BY <1>1, ServerSendsFacts, SilentFacts DEF Messages
<1>4. \A m : Falling(m)' => Falling(m) \/ Answers(m)
  BY <1>3 DEF Answers
<1> QED BY <1>1, <1>2, <1>3, <1>4, CalmHandler

LEMMA ReadyServes == ASSUME PInv, HandleReady PROVE Serves
<1>1. /\ up # <<>> /\ Head(up).type # "turn_failed" /\ Handled /\ Silent
      /\ lease' = (IF Current THEN Observed(lease, "bootstrap_completed") ELSE lease)
      /\ receipt' = (receipt \/ Current) /\ timer' = FALSE
      /\ beat' = (beat \/ (Current /\ Applies(lease, "bootstrap_completed")))
      /\ rec' = rec /\ life' = life /\ waited' = waited /\ stopping' = stopping /\ gone' = gone
  BY DEF HandleReady, Takes
<1>2. lease' \in LeaseStates
  BY <1>1, LeaseType DEF PInv, ServerOK
<1>3. receipt' \in BOOLEAN /\ timer' \in BOOLEAN /\ beat' \in BOOLEAN
  BY <1>1
<1>4. down' \in Seq(Messages) /\ sbuf' \in Seq(Messages) /\ \A m : Falling(m)' => Falling(m) \/ Answers(m)
  BY <1>1, SilentFacts
<1> QED BY <1>1, <1>2, <1>3, <1>4, CalmHandler

LEMMA HeartbeatServes == ASSUME PInv, HandleHeartbeat PROVE Serves
<1>1. /\ up # <<>> /\ Head(up).type # "turn_failed" /\ Handled
      /\ (ServerSends(<<"accepted">>) /\ rec = "running") \/ Silent
      /\ beat' = TRUE /\ lease' = lease /\ receipt' = receipt /\ timer' = timer
      /\ rec' = rec /\ life' = life /\ waited' = waited /\ stopping' = stopping /\ gone' = gone
  BY DEF HandleHeartbeat, Takes, Replays
<1>2. lease' \in LeaseStates /\ receipt' \in BOOLEAN /\ timer' \in BOOLEAN /\ beat' \in BOOLEAN
  BY <1>1 DEF PInv, ServerOK
<1>3. /\ down' \in Seq(Messages) /\ sbuf' \in Seq(Messages)
      /\ \A x : Falling(x)' => Falling(x) \/ (x = "accepted" /\ rec = "running")
  BY <1>1, ServerSendsFacts, SilentFacts DEF Messages
<1>4. \A m : Falling(m)' => Falling(m) \/ Answers(m)
  BY <1>1, <1>3 DEF Answers
<1> QED BY <1>1, <1>2, <1>3, <1>4, CalmHandler

LEMMA StateServes == ASSUME PInv, HandleState \/ HandleCleanupCompleted PROVE Serves
<1>1. /\ up # <<>> /\ Head(up).type # "turn_failed" /\ Handled /\ Silent
      /\ \E o : lease' = Observed(lease, o)
      /\ rec' = rec /\ life' = life /\ receipt' = receipt /\ timer' = timer /\ beat' = beat
      /\ waited' = waited /\ stopping' = stopping /\ gone' = gone
  <2>1. CASE HandleState
    <3> DEFINE o == CASE Head(up).to = "busy" -> "busy_reported"
                      [] Head(up).to = "idle" -> "idle_reported"
                      [] OTHER -> "stop_requested"
    <3>1. lease' = Observed(lease, o)
      BY <2>1 DEF HandleState
    <3> HIDE DEF o
    <3> QED BY <2>1, <3>1 DEF HandleState, Takes
  <2>2. CASE HandleCleanupCompleted
    BY <2>2 DEF HandleCleanupCompleted, Takes
  <2> QED BY <2>1, <2>2
<1>2. lease' \in LeaseStates /\ receipt' \in BOOLEAN /\ timer' \in BOOLEAN /\ beat' \in BOOLEAN
  BY <1>1, LeaseType DEF PInv, ServerOK
<1>3. down' \in Seq(Messages) /\ sbuf' \in Seq(Messages) /\ \A m : Falling(m)' => Falling(m) \/ Answers(m)
  BY <1>1, SilentFacts
<1> QED BY <1>1, <1>2, <1>3, CalmHandler

LEMMA StartedServes == ASSUME PInv, HandleTurnStarted PROVE Serves
<1>1. /\ up # <<>> /\ Head(up).type # "turn_failed" /\ Handled
      /\ \/ Accepts /\ rec' = "running" /\ ServerSends(<<"accepted">>)
         \/ rec' = rec /\ Silent
      /\ life' = life /\ lease' = lease /\ receipt' = receipt /\ timer' = timer /\ beat' = beat
      /\ waited' = waited /\ stopping' = stopping /\ gone' = gone
  BY DEF HandleTurnStarted, Takes
<1>2. ServerOK'
  BY <1>1 DEF PInv, ServerOK, Handled, history
<1>3. Records /\ Moved'
  BY <1>1 DEF Records, Accepts, PInv, Moved
<1>4. Whole /\ life' = "error" => rec' \in {"failed", "bootstrap_failed"}
  BY <1>1 DEF PInv, Parks, Accepts
<1>5. /\ down' \in Seq(Messages) /\ sbuf' \in Seq(Messages)
      /\ \A x : Falling(x)' => Falling(x) \/ (x = "accepted" /\ rec' = "running")
  BY <1>1, ServerSendsFacts, SilentFacts DEF Messages
<1>6. \A m : Falling(m)' => Falling(m) \/ Answers(m)
  BY <1>5 DEF Answers
<1> QED BY <1>1, <1>2, <1>3, <1>4, <1>5, <1>6, HandledTaken, HandlerStep

\* A turn that has ended was accepted.
LEMMA EndedTurnOnRecord == ASSUME PInv, result # "none" PROVE rec \in {"running", "failed", "succeeded"}
<1>1. ran = 1
  BY DEF PInv, Ending
<1>2. granted
  BY <1>1, WorkerFacts DEF PInv
<1> QED BY <1>2 DEF PInv, Granted, ServerOK

LEMMA OutcomeServes == ASSUME PInv, HandleTurnOutcome PROVE Serves
<1>1. /\ up # <<>> /\ Head(up).type = "turn_outcome" /\ Handled /\ ServerSends(<<"recorded">>)
      /\ rec' = (IF rec \in {"running", "failed"} THEN "succeeded" ELSE rec)
      /\ life' = (IF rec \in {"running", "failed"} THEN "moved" ELSE life)
      /\ lease' = lease /\ receipt' = receipt /\ timer' = timer /\ beat' = beat
      /\ waited' = waited /\ stopping' = stopping /\ gone' = gone
  BY DEF HandleTurnOutcome, RecordOutcome, Takes
<1>2. Rising("turn_outcome")
  BY <1>1, TailFacts DEF PInv, LinkOK, Rising
<1>3. rec \in {"running", "failed", "succeeded"}
  BY <1>2, EndedTurnOnRecord DEF PInv, Produced
<1>4. rec' = "succeeded" /\ life' = "moved"
  BY <1>1, <1>3 DEF PInv, Moved
<1>5. ServerOK'
  BY <1>1, <1>4 DEF PInv, ServerOK, Handled, history
<1>6. Records /\ Moved'
  BY <1>2, <1>3, <1>4 DEF Records, Moved
<1>7. /\ down' \in Seq(Messages) /\ sbuf' \in Seq(Messages)
      /\ \A x : Falling(x)' => Falling(x) \/ x = "recorded"
  BY <1>1, ServerSendsFacts DEF Messages
<1>8. \A m : Falling(m)' => Falling(m) \/ Answers(m)
  BY <1>2, <1>4, <1>7 DEF Answers, Answered
<1> QED BY <1>1, <1>4, <1>5, <1>6, <1>7, <1>8, HandledTaken, HandlerStep

LEMMA FailureServes == ASSUME PInv, HandleTurnFailed PROVE Serves
<1>1. /\ up # <<>> /\ Head(up).type = "turn_failed" /\ Handled /\ ServerSends(<<"recorded">>)
      /\ rec' = (IF rec = "running" THEN "failed" ELSE rec)
      /\ life' = (IF rec = "running" THEN "error" ELSE life)
      /\ lease' = lease /\ receipt' = receipt /\ timer' = timer /\ beat' = beat
      /\ waited' = waited /\ stopping' = stopping /\ gone' = gone
  BY DEF HandleTurnFailed, RecordFailure, Takes
<1>2. Rising("turn_failed")
  BY <1>1, TailFacts DEF PInv, LinkOK, Rising
<1>3. rec \in {"running", "failed", "succeeded"}
  BY <1>2, EndedTurnOnRecord DEF PInv, Untold
<1>4. rec' \in {"failed", "succeeded"} /\ (rec' = "succeeded" => rec = "succeeded" /\ life' = life)
      /\ (rec' = "failed" => life' = "error" \/ (rec = "failed" /\ life' = life))
  BY <1>1, <1>3
<1>5. ServerOK'
  BY <1>1, <1>4 DEF PInv, ServerOK, Handled, history
<1>6. Records /\ Moved'
  BY <1>1, <1>3, <1>4 DEF Records, Moved, PInv
<1>7. life' = "error" => rec' = "failed"
  BY <1>4 DEF PInv, Moved
<1>8. /\ down' \in Seq(Messages) /\ sbuf' \in Seq(Messages)
      /\ \A x : Falling(x)' => Falling(x) \/ x = "recorded"
  BY <1>1, ServerSendsFacts DEF Messages
<1>9. \A m : Falling(m)' => Falling(m) \/ Answers(m)
  BY <1>2, <1>8 DEF Answers
<1> QED BY <1>1, <1>4, <1>5, <1>6, <1>7, <1>8, <1>9, HandledTaken, HandlerStep

\* Without a mishap the failure was recorded before the park.
LEMMA ParkedServes == ASSUME PInv, HandleParked PROVE Serves
<1>1. /\ up # <<>> /\ Head(up).type = "parked" /\ Handled /\ Silent
      /\ life' = (IF life = "moved" THEN life ELSE "error")
      /\ rec' = rec /\ lease' = lease /\ receipt' = receipt /\ timer' = timer /\ beat' = beat
      /\ waited' = waited /\ stopping' = stopping /\ gone' = gone
  BY DEF HandleParked, Takes
<1>2. ~Ordered(up)
  BY <1>1, TailFacts DEF PInv, LinkOK
<1>3. ServerOK'
  BY <1>1 DEF PInv, ServerOK, Handled, history
<1>4. Records /\ Moved'
  BY <1>1 DEF Records, Moved, PInv
<1>5. Whole /\ life' = "error" => rec' \in {"failed", "bootstrap_failed"}
  BY <1>1, <1>2 DEF PInv, Parks, Moved
<1>6. down' \in Seq(Messages) /\ sbuf' \in Seq(Messages) /\ \A m : Falling(m)' => Falling(m) \/ Answers(m)
  BY <1>1, SilentFacts
<1> QED BY <1>1, <1>3, <1>4, <1>5, <1>6, HandledTaken, HandlerStep

\* WorkerFailure settles the start or the record together with the lifecycle.
LEMMA WorkerFailureRecords ==
    ASSUME PInv, RecordWorkerFailure
    PROVE  /\ Records /\ Moved'
           /\ rec' \in {"starting", "bootstrap_failed", "running", "failed", "succeeded"}
           /\ life' \in {"active", "error", "moved"}
           /\ Whole /\ life' = "error" => rec' \in {"failed", "bootstrap_failed"}
<1>1. /\ rec = "starting" /\ life = "active" => rec' = "bootstrap_failed"
      /\ rec = "running" => rec' = "failed"
      /\ ~(rec = "starting" /\ life = "active") /\ rec # "running" => rec' = rec
      /\ life' = (IF rec # "succeeded" THEN "error" ELSE life)
  BY DEF RecordWorkerFailure, Current
<1>2. rec \in {"starting", "bootstrap_failed", "running", "failed", "succeeded"} /\ life \in {"active", "error", "moved"}
      /\ (rec = "succeeded" <=> life = "moved")
  BY DEF PInv, ServerOK, Moved
<1>3. Records
  BY <1>1, <1>2 DEF Records
<1>4. Moved'
  BY <1>1, <1>2 DEF Moved
<1>5. Whole /\ life = "error" => rec \in {"failed", "bootstrap_failed"}
  BY DEF PInv, Parks
<1> QED BY <1>1, <1>2, <1>3, <1>4, <1>5

LEMMA UnrecordedFacts ==
    ASSUME PInv, rec' = rec, life' = life
    PROVE  /\ Records /\ Moved'
           /\ rec' \in {"starting", "bootstrap_failed", "running", "failed", "succeeded"}
           /\ life' \in {"active", "error", "moved"}
           /\ Whole /\ life' = "error" => rec' \in {"failed", "bootstrap_failed"}
BY DEF PInv, ServerOK, Records, Moved, Parks

LEMMA RefusedServes == ASSUME PInv, HandleRefusedOutcome PROVE Serves
<1>1. /\ up # <<>> /\ Head(up).type = "turn_outcome" /\ ServerSends(<<"recorded">>)
      /\ RecordWorkerFailure /\ rec # "succeeded" /\ HandledAmiss("refused")
      /\ lease' = lease /\ receipt' = receipt /\ timer' = timer /\ beat' = beat
      /\ waited' = waited /\ stopping' = stopping /\ gone' = gone
  BY DEF HandleRefusedOutcome, Takes, Current
<1>2. Taken /\ "refused" \in mishaps'
  BY <1>1, AmissTaken DEF Mishaps
<1>3. Rising("turn_outcome")
  BY <1>1, TailFacts DEF PInv, LinkOK, Rising
<1>4. rec \in {"running", "failed"}
  BY <1>1, <1>3, EndedTurnOnRecord DEF PInv, Produced
<1>5. rec' = "failed"
  BY <1>1, <1>4 DEF RecordWorkerFailure
<1>6. /\ Records /\ Moved'
      /\ rec' \in {"starting", "bootstrap_failed", "running", "failed", "succeeded"}
      /\ life' \in {"active", "error", "moved"}
      /\ Whole /\ life' = "error" => rec' \in {"failed", "bootstrap_failed"}
  BY <1>1, WorkerFailureRecords
<1>7. ServerOK'
  BY <1>1, <1>2, <1>6 DEF PInv, ServerOK, Taken
<1>8. /\ down' \in Seq(Messages) /\ sbuf' \in Seq(Messages)
      /\ \A x : Falling(x)' => Falling(x) \/ x = "recorded"
  BY <1>1, ServerSendsFacts DEF Messages
<1>9. \A m : Falling(m)' => Falling(m) \/ Answers(m)
  BY <1>2, <1>3, <1>5, <1>8 DEF Answers, Answered
<1> QED BY <1>1, <1>2, <1>6, <1>7, <1>8, <1>9, HandlerStep

LEMMA UnwrittenServes == ASSUME PInv, HandleUnwritten PROVE Serves
<1>1. /\ up # <<>> /\ HandledAmiss("unwritten") /\ Silent
      /\ rec' = rec /\ life' = life /\ lease' = lease /\ receipt' = receipt /\ timer' = timer
      /\ beat' = beat /\ waited' = waited /\ stopping' = stopping /\ gone' = gone
  BY DEF HandleUnwritten, Takes, server
<1>2. Taken /\ ~Whole'
  BY <1>1, AmissTaken DEF Mishaps, Whole
<1>3. ServerOK'
  BY <1>1, <1>2 DEF PInv, ServerOK, Taken
<1>4. down' \in Seq(Messages) /\ sbuf' \in Seq(Messages) /\ \A m : Falling(m)' => Falling(m) \/ Answers(m)
  BY <1>1, SilentFacts
<1> QED BY <1>1, <1>2, <1>3, <1>4, UnrecordedFacts, HandlerStep

LEMMA WorkerFailedServes == ASSUME PInv, HandleWorkerFailed PROVE Serves
<1>1. /\ up # <<>> /\ Head(up).type # "turn_failed" /\ Handled /\ Silent
      /\ RecordWorkerFailure \/ (rec' = rec /\ life' = life)
      /\ lease' = Observed(lease, "failure_reported") /\ receipt' = receipt /\ timer' = timer /\ beat' = beat
      /\ waited' = waited /\ stopping' = stopping /\ gone' = gone
  BY DEF HandleWorkerFailed, Takes
<1>2. /\ Records /\ Moved'
      /\ rec' \in {"starting", "bootstrap_failed", "running", "failed", "succeeded"}
      /\ life' \in {"active", "error", "moved"}
      /\ Whole /\ life' = "error" => rec' \in {"failed", "bootstrap_failed"}
  BY <1>1, WorkerFailureRecords, UnrecordedFacts
<1>3. ServerOK'
  BY <1>1, <1>2, LeaseType DEF PInv, ServerOK, Handled, history
<1>4. down' \in Seq(Messages) /\ sbuf' \in Seq(Messages) /\ \A m : Falling(m)' => Falling(m) \/ Answers(m)
  BY <1>1, SilentFacts
<1> QED BY <1>1, <1>2, <1>3, <1>4, HandledTaken, HandlerStep

-----------------------------------------------------------------------------
(* The supervisor's own steps *)

\* A step that takes nothing off the link but what is lost with it.
LEMMA SupervisorStep ==
    ASSUME PInv, WorkerStill, ServerOK', Records, Moved',
           up' = up \/ up' = <<>>, wbuf' = wbuf \/ wbuf' = <<>>,
           down' \in Seq(Messages), sbuf' \in Seq(Messages),
           \A m : Falling(m)' => Falling(m) \/ Answers(m),
           Whole /\ life' = "error" => rec' \in {"failed", "bootstrap_failed"}
    PROVE  Serves
<1>1. up' \in Seq(Facts) /\ wbuf' \in Seq(Facts) /\ \A t : Rising(t)' => Rising(t)
  BY EmptyFacts DEF PInv, LinkOK, Rising
<1>2. LinkOK'
  BY <1>1 DEF LinkOK
<1>3. Parks'
  <2> SUFFICES ASSUME Whole'
               PROVE  /\ Ordered(up') \/ rec' \in {"failed", "succeeded"}
                      /\ Ordered(wbuf')
                      /\ life' = "error" => rec' \in {"failed", "bootstrap_failed"}
    BY DEF Parks
  <2>3. Whole
    BY DEF Whole, WorkerStill
  <2>1. (Ordered(up) \/ rec \in {"failed", "succeeded"}) /\ Ordered(wbuf)
    BY <2>3 DEF PInv, Parks
  <2>2. rec \in {"failed", "succeeded"} => rec' \in {"failed", "succeeded"}
    BY DEF Records
  <2> QED BY <2>1, <2>2, <2>3, EmptyFacts
<1> QED BY <1>1, <1>2, <1>3, ServerStep

\* A link that is left alone.
LEMMA LinkKept ==
    ASSUME PInv, UNCHANGED link
    PROVE  /\ up' = up /\ wbuf' = wbuf /\ connected' = connected /\ drops' = drops
           /\ down' \in Seq(Messages) /\ sbuf' \in Seq(Messages)
           /\ \A m : Falling(m)' => Falling(m) \/ Answers(m)
<1>1. up' = up /\ wbuf' = wbuf /\ down' = down /\ sbuf' = sbuf /\ connected' = connected /\ drops' = drops
  BY DEF link
<1>2. \A m : Falling(m)' => Falling(m)
  BY <1>1 DEF Falling
<1> QED BY <1>1, <1>2 DEF PInv, LinkOK

LEMMA DropServes == ASSUME PInv, Drop PROVE Serves
<1>1. /\ UNCHANGED vars /\ UNCHANGED history /\ up' = <<>> /\ down' = <<>> /\ wbuf' = wbuf /\ sbuf' = sbuf
      /\ connected' = FALSE /\ drops < MaxDrops /\ drops' = drops + 1
      /\ rec' = rec /\ life' = life /\ lease' = lease /\ receipt' = receipt /\ timer' = timer
      /\ beat' = beat /\ waited' = waited /\ stopping' = stopping /\ gone' = gone
  BY DEF Drop, server
<1>2. drops' \in 0..MaxDrops
  BY <1>1, ProtocolAssumption DEF PInv, ServerOK
<1>3. ServerOK'
  BY <1>1, <1>2 DEF PInv, ServerOK, history
<1>4. WorkerStill
  BY <1>1, StillVars, StillHistory
<1>5. down' \in Seq(Messages) /\ sbuf' \in Seq(Messages) /\ \A m : Falling(m)' => Falling(m) \/ Answers(m)
  BY <1>1, EmptyFacts DEF PInv, LinkOK, Falling
<1> QED BY <1>1, <1>3, <1>4, <1>5, UnrecordedFacts, SupervisorStep

LEMMA StopServes == ASSUME PInv, StopWorker PROVE Serves
<1>1. /\ lease' = Observed(lease, "stop_requested") /\ stopping' = TRUE
      /\ rec' = rec /\ life' = life /\ receipt' = receipt /\ timer' = timer
      /\ beat' = beat /\ waited' = waited /\ gone' = gone
      /\ \/ Kill
         \/ /\ ServerSends(<<"stop">>) /\ UNCHANGED vars /\ UNCHANGED history
            /\ connected' = connected /\ up' = up /\ wbuf' = wbuf /\ drops' = drops
  BY DEF StopWorker
<1>2. /\ WorkerStill /\ up' = up /\ wbuf' = wbuf /\ connected' = connected /\ drops' = drops
      /\ down' \in Seq(Messages) /\ sbuf' \in Seq(Messages)
      /\ \A m : Falling(m)' => Falling(m) \/ Answers(m)
  <2>1. CASE Kill
    BY <2>1, StillKilled, LinkKept
  <2>2. CASE /\ ServerSends(<<"stop">>) /\ UNCHANGED vars /\ UNCHANGED history
             /\ connected' = connected /\ up' = up /\ wbuf' = wbuf /\ drops' = drops
    <3>1. /\ down' \in Seq(Messages) /\ sbuf' \in Seq(Messages)
          /\ \A x : Falling(x)' => Falling(x) \/ x = "stop"
      BY <2>2, ServerSendsFacts DEF Messages
    <3>2. \A m : Falling(m)' => Falling(m) \/ Answers(m)
      BY <3>1 DEF Answers
    <3> QED BY <2>2, <3>1, <3>2, StillVars, StillHistory
  <2> QED BY <1>1, <2>1, <2>2
<1>3. ServerOK'
  <2>1. result' = result /\ mishaps' \subseteq Mishaps
    BY <1>2 DEF WorkerStill
  <2> QED BY <1>1, <1>2, <2>1, LeaseType DEF PInv, ServerOK
<1> QED BY <1>1, <1>2, <1>3, UnrecordedFacts, SupervisorStep

\* A killed worker: at the end of the grace period, at the startup deadline, or
\* because the watchdog gave up on it.
LEMMA KillServes ==
    ASSUME PInv, Kill, RecordWorkerFailure \/ (rec' = rec /\ life' = life),
           lease' \in LeaseStates, timer' \in BOOLEAN, waited' \in BOOLEAN,
           receipt' = receipt, beat' = beat, stopping' = stopping, gone' = gone
    PROVE  Serves
<1>1. /\ WorkerStill /\ up' = up /\ wbuf' = wbuf /\ connected' = connected /\ drops' = drops
      /\ down' \in Seq(Messages) /\ sbuf' \in Seq(Messages)
      /\ \A m : Falling(m)' => Falling(m) \/ Answers(m)
  BY StillKilled, LinkKept
<1>2. /\ Records /\ Moved'
      /\ rec' \in {"starting", "bootstrap_failed", "running", "failed", "succeeded"}
      /\ life' \in {"active", "error", "moved"}
      /\ Whole /\ life' = "error" => rec' \in {"failed", "bootstrap_failed"}
  BY WorkerFailureRecords, UnrecordedFacts
<1>3. ServerOK'
  <2>1. result' = result /\ mishaps' \subseteq Mishaps
    BY <1>1 DEF WorkerStill
  <2> QED BY <1>1, <1>2, <2>1 DEF PInv, ServerOK
<1> QED BY <1>1, <1>2, <1>3, SupervisorStep

LEMMA KillsServe ==
    ASSUME PInv, GraceExpires \/ StartupExpires \/ WatchdogGivesUp \/ HeartbeatStale
    PROVE  Serves
<1>1. /\ Kill
      /\ RecordWorkerFailure \/ (rec' = rec /\ life' = life)
      /\ lease' = lease \/ lease' = Observed(lease, "failure_reported")
      /\ timer' \in {timer, FALSE} /\ waited' \in {waited, FALSE}
      /\ receipt' = receipt /\ beat' = beat /\ stopping' = stopping /\ gone' = gone
  BY DEF GraceExpires, StartupExpires, WatchdogGivesUp, HeartbeatStale, server
<1>2. lease' \in LeaseStates /\ timer' \in BOOLEAN /\ waited' \in BOOLEAN
  BY <1>1, LeaseType DEF PInv, ServerOK
<1> QED BY <1>1, <1>2, KillServes

LEMMA WatchdogServes == ASSUME PInv, WatchdogReplays \/ WatchdogForgets PROVE Serves
<1>1. /\ UNCHANGED vars /\ UNCHANGED history /\ waited' \in BOOLEAN
      /\ rec' = rec /\ life' = life /\ lease' = lease /\ receipt' = receipt /\ timer' = timer
      /\ beat' = beat /\ stopping' = stopping /\ gone' = gone
  BY DEF WatchdogReplays, WatchdogForgets
<1>2. /\ up' = up /\ wbuf' = wbuf /\ connected' = connected /\ drops' = drops
      /\ down' \in Seq(Messages) /\ sbuf' \in Seq(Messages)
      /\ \A m : Falling(m)' => Falling(m) \/ Answers(m)
  <2>1. CASE WatchdogReplays
    <3>1. /\ ServerSends(<<"accepted">>) /\ rec = "running"
          /\ up' = up /\ wbuf' = wbuf /\ connected' = connected /\ drops' = drops
      BY <2>1 DEF WatchdogReplays, Replays
    <3>2. /\ down' \in Seq(Messages) /\ sbuf' \in Seq(Messages)
          /\ \A x : Falling(x)' => Falling(x) \/ x = "accepted"
      BY <3>1, ServerSendsFacts DEF Messages
    <3>3. \A m : Falling(m)' => Falling(m) \/ Answers(m)
      BY <1>1, <3>1, <3>2 DEF Answers
    <3> QED BY <3>1, <3>2, <3>3
  <2>2. CASE WatchdogForgets
    BY <2>2, LinkKept DEF WatchdogForgets
  <2> QED BY <2>1, <2>2
<1>3. ServerOK' /\ WorkerStill
  <2>1. result' = result /\ mishaps' = mishaps
    BY <1>1 DEF history
  <2>2. ServerOK'
    BY <1>1, <1>2, <2>1 DEF PInv, ServerOK
  <2> QED BY <1>1, <2>2, StillVars, StillHistory
<1> QED BY <1>1, <1>2, <1>3, UnrecordedFacts, SupervisorStep

LEMMA ExitServes == ASSUME PInv, ProcessExits PROVE Serves
<1>1. /\ RecordWorkerFailure \/ (rec' = rec /\ life' = life)
      /\ lease' = Observed(lease, "process_exited") /\ gone' = TRUE /\ timer' = FALSE
      /\ connected' = FALSE /\ up' = <<>> /\ down' = <<>> /\ wbuf' = <<>> /\ sbuf' = <<>>
      /\ UNCHANGED vars /\ UNCHANGED history /\ drops' = drops /\ receipt' = receipt /\ beat' = beat
      /\ waited' = waited /\ stopping' = stopping
  BY DEF ProcessExits
<1>2. /\ Records /\ Moved'
      /\ rec' \in {"starting", "bootstrap_failed", "running", "failed", "succeeded"}
      /\ life' \in {"active", "error", "moved"}
      /\ Whole /\ life' = "error" => rec' \in {"failed", "bootstrap_failed"}
  BY <1>1, WorkerFailureRecords, UnrecordedFacts
<1>3. ServerOK'
  BY <1>1, <1>2, LeaseType DEF PInv, ServerOK, history
<1>4. WorkerStill
  BY <1>1, StillVars, StillHistory
<1>5. down' \in Seq(Messages) /\ sbuf' \in Seq(Messages) /\ \A m : Falling(m)' => Falling(m) \/ Answers(m)
  BY <1>1, EmptyFacts DEF Falling
<1> QED BY <1>1, <1>2, <1>3, <1>4, <1>5, SupervisorStep

-----------------------------------------------------------------------------
(* The specification *)

LEMMA ProtocolInitHolds == ProtocolInit => PInv
<1> SUFFICES ASSUME ProtocolInit PROVE PInv
  OBVIOUS
<1>1. /\ Init /\ connected = TRUE /\ drops = 0
      /\ up = <<>> /\ down = <<>> /\ wbuf = <<>> /\ sbuf = <<>>
      /\ rec = "starting" /\ life = "active" /\ lease = "spawning" /\ receipt = FALSE
      /\ timer = TRUE /\ beat = FALSE /\ waited = FALSE /\ stopping = FALSE /\ gone = FALSE
      /\ result = "none" /\ mishaps = {}
  BY DEF ProtocolInit
<1>2. WorkerOK
  BY <1>1, InitHolds, WorkerKept
<1>3. granted = FALSE /\ w.jobs = {} /\ w.pub = "none" /\ w.fact = "none"
  BY <1>1 DEF Init, InitialState
<1>4. LinkOK
  BY <1>1, EmptyFacts DEF LinkOK
<1>5. ServerOK
  <2>1. 0 \in 0..MaxDrops
    BY ProtocolAssumption
  <2> QED BY <1>1, <2>1 DEF ServerOK, LeaseStates
<1>6. (\A t : ~Rising(t) /\ ~Falling(t)) /\ Ordered(up) /\ Ordered(wbuf)
  BY <1>1, EmptyFacts DEF Rising, Falling
<1>7. Granted /\ Ending /\ Produced /\ Untold /\ HeldOutcome /\ Moved /\ Parks
  BY <1>1, <1>3, <1>6 DEF Granted, Ending, Produced, Untold, HeldOutcome, Moved, Parks
<1> QED BY <1>2, <1>4, <1>5, <1>7 DEF PInv

\* Every step is an event of the worker or a step of the server.
LEMMA ProtocolSteps ==
    ASSUME PInv, ProtocolNext
    PROVE  Serves \/ \E e : Spoken(e) /\ (e = "recorded" => Falling("recorded"))
<1>1. CASE Reconnect \/ WorkerStarts \/ WorkerEvicted
  BY <1>1, ReconnectSpoken, StartsSpoken, EvictedSpoken
<1>2. CASE WorkerJobEnds
  BY <1>2, JobSpoken
<1>3. ASSUME NEW t \in Timers, WorkerTimerFires(t) PROVE Spoken("other")
  BY <1>3, TimerSpoken
<1>4. CASE WorkerReceives
  BY <1>4, ReceivesSpoken
<1>5. CASE ServerHandles
  BY <1>5, HelloServes, ReadyServes, HeartbeatServes, StateServes, StartedServes, OutcomeServes,
     RefusedServes, FailureServes, UnwrittenServes, ParkedServes, WorkerFailedServes DEF ServerHandles
<1>6. CASE Drop \/ StopWorker \/ GraceExpires \/ StartupExpires \/ Watchdog \/ ProcessExits
  BY <1>6, DropServes, StopServes, KillsServe, WatchdogServes, ExitServes DEF Watchdog
<1> QED BY <1>1, <1>2, <1>3, <1>4, <1>5, <1>6 DEF ProtocolNext

LEMMA ProtocolStutter ==
    ASSUME PInv, UNCHANGED protocolVars
    PROVE  PInv' /\ rec' = rec /\ Execution' = Execution /\ owed' = owed
<1>1. /\ UNCHANGED vars /\ UNCHANGED link /\ UNCHANGED history
      /\ rec' = rec /\ life' = life /\ lease' = lease /\ receipt' = receipt /\ timer' = timer
      /\ beat' = beat /\ waited' = waited /\ stopping' = stopping /\ gone' = gone
  BY DEF protocolVars, server
<1>2. /\ up' = up /\ wbuf' = wbuf /\ connected' = connected /\ drops' = drops
      /\ down' \in Seq(Messages) /\ sbuf' \in Seq(Messages)
      /\ \A m : Falling(m)' => Falling(m) \/ Answers(m)
  BY <1>1, LinkKept
<1>3. WorkerStill
  BY <1>1, StillVars, StillHistory
<1>4. ServerOK'
  BY <1>1, <1>2 DEF PInv, ServerOK, history
<1>5. Serves
  BY <1>1, <1>2, <1>3, <1>4, UnrecordedFacts, SupervisorStep
<1> QED BY <1>1, <1>5 DEF Serves

LEMMA ProtocolKeeps == PInv /\ [ProtocolNext]_protocolVars => PInv'
BY ProtocolSteps, ProtocolStutter, SpokenStep DEF Serves

LEMMA PInvImplies == PInv => ProtocolInvariant
<1> SUFFICES ASSUME PInv PROVE ProtocolInvariant
  OBVIOUS
<1>1. Typed(w) /\ Env /\ ran \in Nat
  <2>1. ran = IF Begun(w) THEN 1 ELSE 0
    BY WorkerFacts DEF PInv
  <2> QED BY <2>1 DEF PInv, WorkerOK
<1>2. TypeOK
  BY <1>1 DEF TypeOK, Typed, Env
<1>3. {down[n] : n \in DOMAIN down} \cup {sbuf[n] : n \in DOMAIN sbuf} \subseteq {"start", "accepted", "recorded", "stop"}
  BY DEF PInv, LinkOK, Messages
<1>4. ProtocolTypeOK
  BY <1>2, <1>3 DEF PInv, ServerOK, ProtocolTypeOK
<1>5. ParkedTurnCanBeRetried
  BY DEF PInv, Parks, ParkedTurnCanBeRetried
<1> QED BY <1>4, <1>5 DEF ProtocolInvariant

\* For any bound on drops, link and inputs: both sides stay well formed, and
\* once the worker of a process parked in error is gone, its start or its turn
\* record says failed, unless a broken activation or turn was parked.
THEOREM ParkedTurnsCanBeRetried == ProtocolSpec => []ProtocolInvariant
BY ProtocolInitHolds, ProtocolKeeps, PInvImplies, PTL DEF ProtocolSpec

\* The two sides implement the ledger: the turn is executed at most once and
\* only after its start was accepted, and a success is on record only for an
\* outcome the worker produced, whatever is lost, retried, replayed or killed.
THEOREM TurnKeepsLedger == ProtocolSpec => ImplementsLedger
<1>1. ProtocolInit => Ledger!Init
  BY DEF ProtocolInit, Init, Ledger!Init, Execution
<1>2. PInv /\ [ProtocolNext]_protocolVars => [Ledger!Next]_(Ledger!ledger)
  <2> SUFFICES ASSUME PInv, [ProtocolNext]_protocolVars PROVE [Ledger!Next]_(Ledger!ledger)
    OBVIOUS
  <2>1. CASE UNCHANGED protocolVars
    BY <2>1, ProtocolStutter DEF Ledger!ledger
  <2>2. CASE Serves
    BY <2>2 DEF Serves, Ledger!Next, Ledger!ledger
  <2>3. ASSUME NEW e, Spoken(e) PROVE [Ledger!Next]_(Ledger!ledger)
    <3>1. rec' = rec /\ (Execution' = Execution \/ Ledger!Execute \/ Ledger!Finish)
      BY <2>3, SpokenStep
    <3> QED BY <3>1 DEF Ledger!Next, Ledger!ledger
  <2> QED BY <2>1, <2>2, <2>3, ProtocolSteps
<1> QED BY <1>1, <1>2, ProtocolInitHolds, ProtocolKeeps, PTL DEF ProtocolSpec, ImplementsLedger, Ledger!Spec

\* The worker lets go of an outcome only once the server has it on record, or the
\* failure of the turn it refused the outcome of.
THEOREM AckedOutcomesAreRecorded == ProtocolSpec => AckedOutcomeIsRecorded
<1> DEFINE Acks == owed = "turn_outcome" /\ owed' = "none" => Answered
<1>1. PInv /\ [ProtocolNext]_protocolVars => [Acks]_protocolVars
  <2> SUFFICES ASSUME PInv, ProtocolNext, owed = "turn_outcome", owed' = "none" PROVE Answered
    OBVIOUS
  <2>1. PICK e : Spoken(e) /\ (e = "recorded" => Falling("recorded"))
    BY ProtocolSteps DEF Serves
  <2>2. PICK v : v = w' /\ After(v, granted', e)
    BY <2>1 DEF Spoken, Happens
  <2>3. w.pub = "terminal_pending_ack" /\ w.fact = "turn_outcome"
    BY <2>1 DEF Spoken, Happens, PInv, WorkerOK, Hist
  <2>4. v.pub # "terminal_pending_ack" /\ v.phase # "exited"
    BY <2>1, <2>2 DEF Spoken, Observe
  <2>5. e = "recorded"
    BY <2>2, <2>3, <2>4 DEF After, Tale
  <2> QED BY <2>1, <2>3, <2>5 DEF PInv, HeldOutcome
<1> QED BY <1>1, ProtocolInitHolds, ProtocolKeeps, PTL DEF ProtocolSpec, AckedOutcomeIsRecorded

-----------------------------------------------------------------------------
(* What the server has heard of an executing worker.  Without a drop every *)
(* report of the worker's state reaches the server in order, so that the   *)
(* lease says what the worker last said of itself.                         *)

\* The last report of a state in the queue q is not "idle"; one says "busy".
Stated(q) ==
    \E n \in 1..Len(q) : /\ q[n].type = "state" /\ q[n].to # "idle"
                         /\ \A m \in 1..Len(q) : m > n => q[m].type # "state"
SaysBusy(q) == \E n \in 1..Len(q) : q[n].type = "state" /\ q[n].to = "busy"

\* The worker is not idle, or was killed while it executed the turn.
Telling == IF Alive THEN Reported(w) # "idle" ELSE w.turn = "executing"

\* The server knows, or what is on its way will tell it.
Heard ==
    \/ lease \notin Serving
    \/ lease = "busy" /\ ~Has(up, "state")
    \/ Stated(up)

\* The first message of a worker is its hello, and nothing is sent to it before.
Greeting ==
    lease = "spawning" =>
      /\ down = <<>>
      /\ \/ up = <<>> /\ (w = InitialState \/ ~Alive)
         \/ up # <<>> /\ Head(up).type = "hello"

\* A worker that is ready said hello first, a start is accepted from a ready
\* worker, and a worker is busy with a start that was accepted.
Started == rec \notin {"starting", "bootstrap_failed"}
Fresh == lease \in {"spawning", "bootstrapping"}
Bootstrapped ==
    /\ receipt => ~Fresh
    /\ Started => receipt
    /\ SaysBusy(up) => receipt

HInv == drops = 0 /\ ~gone => connected /\ Greeting /\ Bootstrapped /\ (Telling => Heard)

LEMMA StatedConcat ==
    ASSUME NEW a \in Seq(Facts), NEW b \in Seq(Facts)
    PROVE  LET c == a \o b
           IN  /\ SaysBusy(c) => SaysBusy(a) \/ SaysBusy(b)
               /\ Stated(a) /\ ~Has(b, "state") => Stated(c)
               /\ Len(b) > 0 /\ b[Len(b)].type = "state" /\ b[Len(b)].to # "idle" => Stated(c)
<1> DEFINE c == a \o b
<1>1. /\ Len(c) = Len(a) + Len(b) /\ Len(a) \in Nat /\ Len(b) \in Nat
      /\ \A n \in 1..Len(a) : c[n] = a[n] /\ n \in 1..Len(c)
      /\ \A n \in 1..Len(b) : c[Len(a) + n] = b[n] /\ Len(a) + n \in 1..Len(c)
      /\ \A n \in 1..Len(c) : n \in 1..Len(a) \/ (n - Len(a) \in 1..Len(b) /\ c[n] = b[n - Len(a)])
  OBVIOUS
<1> HIDE DEF c
<1>2. SaysBusy(c) => SaysBusy(a) \/ SaysBusy(b)
  BY <1>1 DEF SaysBusy
<1>3. ASSUME Stated(a), ~Has(b, "state") PROVE Stated(c)
  <2>1. PICK n \in 1..Len(a) : /\ a[n].type = "state" /\ a[n].to # "idle"
                               /\ \A m \in 1..Len(a) : m > n => a[m].type # "state"
    BY <1>3 DEF Stated
  <2>2. n \in 1..Len(c) /\ c[n] = a[n]
    BY <1>1, <2>1
  <2>3. ASSUME NEW m \in 1..Len(c), m > n PROVE c[m].type # "state"
    <3>1. CASE m \in 1..Len(a)
      BY <1>1, <2>1, <2>3, <3>1
    <3>2. CASE m - Len(a) \in 1..Len(b) /\ c[m] = b[m - Len(a)]
      BY <1>3, <3>2 DEF Has
    <3> QED BY <1>1, <3>1, <3>2
  <2> QED BY <2>1, <2>2, <2>3 DEF Stated
<1>4. ASSUME Len(b) > 0, b[Len(b)].type = "state", b[Len(b)].to # "idle" PROVE Stated(c)
  <2>1. Len(c) \in 1..Len(c) /\ c[Len(c)] = b[Len(b)] /\ \A m \in 1..Len(c) : ~(m > Len(c))
    BY <1>1, <1>4
  <2> QED BY <1>4, <2>1 DEF Stated
<1> QED BY <1>2, <1>3, <1>4 DEF c

LEMMA StatedTail ==
    ASSUME NEW q \in Seq(Facts), q # <<>>
    PROVE  /\ SaysBusy(Tail(q)) => SaysBusy(q)
           /\ Stated(q) => Stated(Tail(q)) \/ (Head(q).type = "state" /\ Head(q).to # "idle" /\ ~Has(Tail(q), "state"))
           /\ Head(q).type = "state" /\ Head(q).to = "busy" => SaysBusy(q)
<1> DEFINE t == Tail(q)
<1>1. /\ Len(q) \in Nat /\ Len(q) > 0 /\ Len(t) = Len(q) - 1
      /\ Head(q) = q[1] /\ 1 \in 1..Len(q)
      /\ \A n \in 1..Len(t) : t[n] = q[n + 1] /\ n + 1 \in 1..Len(q)
      /\ \A n \in 1..Len(q) : n = 1 \/ (n - 1 \in 1..Len(t) /\ t[n - 1] = q[n])
  OBVIOUS
<1> HIDE DEF t
<1>2. SaysBusy(t) => SaysBusy(q)
  BY <1>1 DEF SaysBusy
<1>3. Head(q).type = "state" /\ Head(q).to = "busy" => SaysBusy(q)
  BY <1>1 DEF SaysBusy
<1>4. ASSUME Stated(q)
      PROVE  Stated(t) \/ (Head(q).type = "state" /\ Head(q).to # "idle" /\ ~Has(t, "state"))
  <2>1. PICK n \in 1..Len(q) : /\ q[n].type = "state" /\ q[n].to # "idle"
                               /\ \A m \in 1..Len(q) : m > n => q[m].type # "state"
    BY <1>4 DEF Stated
  <2>2. \A m \in 1..Len(t) : m + 1 > n => t[m].type # "state"
    BY <1>1, <2>1
  <2>3. CASE n = 1
    <3>1. \A m \in 1..Len(t) : t[m].type # "state"
      BY <1>1, <2>2, <2>3
    <3> QED BY <1>1, <2>1, <2>3, <3>1 DEF Has
  <2>4. CASE n # 1
    <3>1. n - 1 \in 1..Len(t) /\ t[n - 1] = q[n]
      BY <1>1, <2>4
    <3>2. \A m \in 1..Len(t) : m > n - 1 => t[m].type # "state"
      BY <1>1, <2>2
    <3> QED BY <2>1, <3>1, <3>2 DEF Stated
  <2> QED BY <2>3, <2>4
<1> QED BY <1>2, <1>3, <1>4 DEF t

\* The lease follows one of the rules or stays.
LEMMA LeaseRule ==
    ASSUME NEW l \in LeaseStates, NEW o
    PROVE  /\ Observed(l, o) = l \/ <<l, o, Observed(l, o)>> \in LeaseTransitions
           /\ \A x \in LeaseStates : <<l, o, x>> \in LeaseTransitions => <<l, o, Observed(l, o)>> \in LeaseTransitions
<1>1. CASE Applies(l, o)
  <2>1. \E to \in LeaseStates : <<l, o, to>> \in LeaseTransitions
    BY <1>1 DEF Applies
  <2>2. <<l, o, CHOOSE to \in LeaseStates : <<l, o, to>> \in LeaseTransitions>> \in LeaseTransitions
    BY <2>1
  <2> QED BY <1>1, <2>2 DEF Observed
<1>2. CASE ~Applies(l, o)
  BY <1>2 DEF Observed, Applies
<1> QED BY <1>1, <1>2

LEMMA RuleIs ==
    \A l, o, x : <<l, o, x>> \in LeaseTransitions <=>
      \/ l \in {"absent"} /\ o = "spawn_requested" /\ x = "spawning"
      \/ l \in {"spawning"} /\ o = "handshake_received" /\ x = "bootstrapping"
      \/ l \in {"bootstrapping"} /\ o = "bootstrap_completed" /\ x = "idle"
      \/ l \in {"idle"} /\ o = "busy_reported" /\ x = "busy"
      \/ l \in {"busy"} /\ o = "idle_reported" /\ x = "idle"
      \/ l \in Serving /\ o = "stop_requested" /\ x = "draining"
      \/ l \in Serving \cup {"draining", "cleanup"} /\ o = "failure_reported" /\ x = "failed"
      \/ l \in {"draining", "failed"} /\ o = "cleanup_completed" /\ x = "cleanup"
      \/ l \in Serving \cup {"draining", "failed", "cleanup"} /\ o = "process_exited" /\ x = "exited"
      \/ l \in {"exited"} /\ o = "reclaimed" /\ x = "absent"
<1>1. \A S, obs, to, l, o, x : <<l, o, x>> \in From(S, obs, to) <=> l \in S /\ o = obs /\ x = to
  BY DEF From
<1> TAKE l, o, x
<1> DEFINE y == <<l, o, x>>
<1>2. y \in LeaseTransitions <=>
      \/ y \in From({"absent"}, "spawn_requested", "spawning")
      \/ y \in From({"spawning"}, "handshake_received", "bootstrapping")
      \/ y \in From({"bootstrapping"}, "bootstrap_completed", "idle")
      \/ y \in From({"idle"}, "busy_reported", "busy")
      \/ y \in From({"busy"}, "idle_reported", "idle")
      \/ y \in From(Serving, "stop_requested", "draining")
      \/ y \in From(Serving \cup {"draining", "cleanup"}, "failure_reported", "failed")
      \/ y \in From({"draining", "failed"}, "cleanup_completed", "cleanup")
      \/ y \in From(Serving \cup {"draining", "failed", "cleanup"}, "process_exited", "exited")
      \/ y \in From({"exited"}, "reclaimed", "absent")
  <2> HIDE DEF y
  <2> QED BY DEF LeaseTransitions
<1>3. \A S, obs, to : y \in From(S, obs, to) <=> l \in S /\ o = obs /\ x = to
  BY <1>1
<1> HIDE DEF y
<1>4. y \in LeaseTransitions <=>
      \/ l \in {"absent"} /\ o = "spawn_requested" /\ x = "spawning"
      \/ l \in {"spawning"} /\ o = "handshake_received" /\ x = "bootstrapping"
      \/ l \in {"bootstrapping"} /\ o = "bootstrap_completed" /\ x = "idle"
      \/ l \in {"idle"} /\ o = "busy_reported" /\ x = "busy"
      \/ l \in {"busy"} /\ o = "idle_reported" /\ x = "idle"
      \/ l \in Serving /\ o = "stop_requested" /\ x = "draining"
      \/ l \in Serving \cup {"draining", "cleanup"} /\ o = "failure_reported" /\ x = "failed"
      \/ l \in {"draining", "failed"} /\ o = "cleanup_completed" /\ x = "cleanup"
      \/ l \in Serving \cup {"draining", "failed", "cleanup"} /\ o = "process_exited" /\ x = "exited"
      \/ l \in {"exited"} /\ o = "reclaimed" /\ x = "absent"
  BY <1>2, <1>3
<1> QED BY <1>4 DEF y

\* What the server may observe of a worker that it does not yet know to be gone.
Observations == {"handshake_received", "bootstrap_completed", "busy_reported", "idle_reported",
                 "stop_requested", "failure_reported", "cleanup_completed"}

LEMMA LeaseFacts ==
    ASSUME NEW l \in LeaseStates, NEW o \in Observations
    PROVE  LET t == Observed(l, o)
           IN  /\ l \notin Serving => t \notin Serving
               /\ t = "spawning" => l = "spawning" /\ o \notin {"handshake_received", "stop_requested", "failure_reported"}
               /\ t \in {"spawning", "bootstrapping"} => l \in {"spawning", "bootstrapping"}
               /\ l = "bootstrapping" /\ o = "bootstrap_completed" => t = "idle"
               /\ l = "busy" /\ o # "idle_reported" => t = "busy" \/ t \notin Serving
               /\ l = "idle" /\ o = "busy_reported" => t = "busy"
               /\ o = "stop_requested" => t \notin Serving
<1> DEFINE t == Observed(l, o)
<1>1. /\ t = l \/ <<l, o, t>> \in LeaseTransitions
      /\ \A x \in LeaseStates : <<l, o, x>> \in LeaseTransitions => <<l, o, t>> \in LeaseTransitions
  BY LeaseRule
<1> HIDE DEF t
<1>2. \A x : <<l, o, x>> \in LeaseTransitions <=>
        \/ l = "spawning" /\ o = "handshake_received" /\ x = "bootstrapping"
        \/ l = "bootstrapping" /\ o = "bootstrap_completed" /\ x = "idle"
        \/ l = "idle" /\ o = "busy_reported" /\ x = "busy"
        \/ l = "busy" /\ o = "idle_reported" /\ x = "idle"
        \/ l \in Serving /\ o = "stop_requested" /\ x = "draining"
        \/ l \in Serving \cup {"draining", "cleanup"} /\ o = "failure_reported" /\ x = "failed"
        \/ l \in {"draining", "failed"} /\ o = "cleanup_completed" /\ x = "cleanup"
  BY RuleIs DEF Observations
<1>3. /\ l = "spawning" /\ o = "handshake_received" => t = "bootstrapping"
      /\ l = "bootstrapping" /\ o = "bootstrap_completed" => t = "idle"
      /\ l = "idle" /\ o = "busy_reported" => t = "busy"
      /\ l \in Serving /\ o = "stop_requested" => t = "draining"
      /\ l \in Serving /\ o = "failure_reported" => t = "failed"
  <2>1. {"bootstrapping", "idle", "busy", "draining", "failed"} \subseteq LeaseStates
    BY DEF LeaseStates
  <2> QED BY <1>1, <1>2, <2>1 DEF Serving
<1> QED BY <1>1, <1>2, <1>3 DEF Serving, t

\* A worker that executes the turn says so as long as it goes on.
LEMMA ExecutingTells == ASSUME PInv, w.turn = "executing" PROVE Telling
<1>1. CASE Alive
  <2>1. w.phase \in Phases /\ w.phase \notin Early /\ w.phase # "exited"
    BY <1>1 DEF PInv, WorkerOK, Typed, Good, Alive
  <2>2. Reported(w) # "idle"
    BY <2>1 DEF Reported, Phases, Early
  <2> QED BY <1>1, <2>2 DEF Telling
<1>2. CASE ~Alive
  BY <1>2 DEF Telling
<1> QED BY <1>1, <1>2

\* An event of the worker: what it becomes is heard, or will be.
LEMMA SpokenHears ==
    ASSUME PInv, PInv', HInv, NEW e, Spoken(e), drops' = 0, ~gone', Greeting'
    PROVE  connected' /\ Bootstrapped' /\ (Telling' => Heard')
<1>1. PICK v : v = w' /\ After(v, granted', e)
  BY DEF Spoken, Happens
<1>2. /\ rec' = rec /\ lease' = lease /\ receipt' = receipt /\ gone' = gone /\ drops' = drops
      /\ Alive
  BY DEF Spoken, server, Happens
<1>3. connected /\ Bootstrapped /\ (Telling => Heard)
  BY <1>2 DEF HInv
<1>4. connected' /\ up' = up \o v.out
  BY <1>1, <1>3 DEF Spoken
<1>5. Typed(v) /\ up \in Seq(Facts) /\ v.out \in Seq(Facts) /\ (v.phase # "exited" => Good(v)) /\ Voice(v)
  BY <1>1 DEF After, Sound, Typed, PInv, LinkOK
<1>6. /\ SaysBusy(up') => SaysBusy(up) \/ SaysBusy(v.out)
      /\ Stated(up) /\ ~Has(v.out, "state") => Stated(up')
      /\ Len(v.out) > 0 /\ v.out[Len(v.out)].type = "state" /\ v.out[Len(v.out)].to # "idle" => Stated(up')
  BY <1>4, <1>5, StatedConcat
<1>7. Has(up', "state") => Has(up, "state") \/ Has(v.out, "state")
  BY <1>4, <1>5, ConcatFacts
<1>8. Bootstrapped'
  <2>1. ASSUME SaysBusy(v.out) PROVE receipt
    <3>1. v.phase # "exited" /\ Reported(v) = "busy"
      BY <1>5, <2>1 DEF SaysBusy, Voice
    <3>2. v.phase = "active"
      BY <1>5, <3>1 DEF Reported, Good
    <3>3. granted'
      BY <1>1, <3>2 DEF After, Admitted
    <3>4. Started
      BY <1>2, <3>3 DEF PInv, Granted, Started
    <3> QED BY <1>3, <3>4 DEF Bootstrapped
  <2> QED BY <1>2, <1>3, <1>6, <2>1 DEF Bootstrapped, Started, Fresh
<1>9. ASSUME Telling' PROVE Heard'
  <2>1. IF v.phase # "exited" THEN Reported(v) # "idle" ELSE v.turn = "executing"
    BY <1>1, <1>9 DEF Telling, Alive
  <2>2. CASE Says(v, "state")
    <3>1. PICK n \in 1..Len(v.out) : v.out[n].type = "state"
      BY <2>2 DEF Says
    <3>2. v.phase # "exited" /\ n = Len(v.out) /\ v.out[n].to = Reported(v)
      BY <1>5, <3>1 DEF Voice
    <3>3. Len(v.out) > 0 /\ v.out[Len(v.out)].type = "state" /\ v.out[Len(v.out)].to # "idle"
      BY <1>5, <2>1, <3>1, <3>2
    <3> QED BY <1>6, <3>3 DEF Heard
  <2>3. CASE ~Says(v, "state")
    <3>1. Telling
      <4>1. CASE v.phase = "exited"
        BY <1>5, <2>1, <4>1, ExecutingTells DEF Voice
      <4>2. CASE v.phase # "exited"
        BY <1>2, <1>5, <2>1, <2>3, <4>2 DEF Voice, Telling
      <4> QED BY <4>1, <4>2
    <3>2. ~Has(v.out, "state")
      BY <2>3 DEF Has, Says
    <3> QED BY <1>2, <1>3, <1>6, <1>7, <3>1, <3>2 DEF Heard
  <2> QED BY <2>2, <2>3
<1> QED BY <1>4, <1>8, <1>9

\* The server hears what it is told as long as the lease stays, or follows an
\* observation that reports no idle worker.
LEMMA HeardKept ==
    ASSUME PInv, Heard, up' = up \/ (up # <<>> /\ up' = Tail(up) /\ Head(up).type # "state"),
           lease' = lease \/ \E o \in Observations \ {"idle_reported"} : lease' = Observed(lease, o)
    PROVE  Heard'
<1>1. lease \notin Serving => lease' \notin Serving
  BY LeaseFacts DEF PInv, ServerOK
<1>2. lease = "busy" => lease' = "busy" \/ lease' \notin Serving
  BY LeaseFacts DEF PInv, ServerOK
<1>3. (Has(up', "state") => Has(up, "state")) /\ (Stated(up) => Stated(up'))
  <2>1. CASE up' = up
    BY <2>1
  <2>2. CASE up # <<>> /\ up' = Tail(up) /\ Head(up).type # "state"
    BY <2>2, StatedTail, TailFacts DEF PInv, LinkOK
  <2> QED BY <2>1, <2>2
<1> QED BY <1>1, <1>2, <1>3 DEF Heard

\* A reported state is heard when it is handled.
LEMMA HeardState ==
    ASSUME PInv, Bootstrapped, Heard, HandleState
    PROVE  Heard'
<1> DEFINE o == CASE Head(up).to = "busy" -> "busy_reported"
                  [] Head(up).to = "idle" -> "idle_reported"
                  [] OTHER -> "stop_requested"
<1>1. up # <<>> /\ Head(up).type = "state" /\ up' = Tail(up) /\ lease' = Observed(lease, o)
  BY DEF HandleState, Takes, Handled
<1>2. /\ Head(up).to = "busy" => o = "busy_reported"
      /\ Head(up).to \notin {"busy", "idle"} => o = "stop_requested"
      /\ o \in Observations
  BY DEF Observations
<1> HIDE DEF o
<1>3. up \in Seq(Facts) /\ lease \in LeaseStates
  BY DEF PInv, LinkOK, ServerOK
<1>4. Has(up, "state")
  BY <1>1, <1>3, TailFacts
<1>5. /\ Stated(up) => Stated(up') \/ (Head(up).to # "idle" /\ ~Has(up', "state"))
      /\ Head(up).to = "busy" => SaysBusy(up)
  BY <1>1, <1>3, StatedTail
<1>6. CASE lease \notin Serving
  BY <1>1, <1>2, <1>3, <1>6, LeaseFacts DEF Heard
<1>7. CASE Stated(up) /\ Stated(up')
  BY <1>7 DEF Heard
<1>8. CASE Head(up).to # "idle" /\ ~Has(up', "state")
  <2>1. CASE Head(up).to = "busy"
    <3>1. lease \in {"idle", "busy"} \/ lease \notin Serving
      BY <1>5, <2>1 DEF Bootstrapped, Fresh, Serving
    <3>2. lease' = "busy" \/ lease' \notin Serving
      BY <1>1, <1>2, <1>3, <2>1, <3>1, LeaseFacts
    <3> QED BY <1>8, <3>2 DEF Heard
  <2>2. CASE Head(up).to # "busy"
    <3>1. lease' \notin Serving
      BY <1>1, <1>2, <1>3, <1>8, <2>2, LeaseFacts
    <3> QED BY <3>1 DEF Heard
  <2> QED BY <2>1, <2>2
<1> QED BY <1>4, <1>5, <1>6, <1>7, <1>8 DEF Heard

\* A worker that was killed tells what it told before, or nothing.
LEMMA TellingStill == ASSUME PInv, UNCHANGED vars \/ Kill PROVE Telling' => Telling
<1>1. CASE w' = w
  BY <1>1 DEF Telling, Alive, Reported
<1>2. CASE Kill /\ Alive
  <2> DEFINE k == [Quiet EXCEPT !.phase = "exited", !.jobs = {}, !.timers = {}]
  <2>1. Typed(Quiet) /\ Keeps(w, Quiet, {"out"})
    BY <1>2, WorkerFacts, QuietFacts DEF PInv
  <2>2. k.phase = "exited" /\ k.turn = w.turn
    BY <2>1 DEF Keeps, Typed, Fields
  <2>3. w' = k
    BY <1>2 DEF Kill
  <2> HIDE DEF k
  <2>4. ~Alive' /\ w'.turn = w.turn
    BY <2>2, <2>3 DEF Alive
  <2> QED BY <2>4, ExecutingTells DEF Telling
<1>3. UNCHANGED vars => w' = w
  BY DEF vars
<1>4. Kill /\ ~Alive => w' = w
  BY DEF Kill
<1> QED BY <1>1, <1>2, <1>3, <1>4

\* A step of the server that leaves the worker alone, or kills it.
LEMMA ServerHears ==
    ASSUME PInv, HInv, drops = 0, ~gone, connected' = connected, UNCHANGED vars \/ Kill, Heard => Heard',
           up' = up \/ (up # <<>> /\ up' = Tail(up)),
           lease' = lease \/ \E o \in Observations : lease' = Observed(lease, o),
           receipt => receipt', receipt' => receipt \/ ~Fresh', Started' => Started \/ receipt
    PROVE  connected' /\ Bootstrapped' /\ (Telling' => Heard')
<1>1. connected /\ Bootstrapped /\ (Telling => Heard)
  BY DEF HInv
<1>2. Fresh' => Fresh
  BY LeaseFacts DEF PInv, ServerOK, Fresh
<1>3. SaysBusy(up') => SaysBusy(up)
  BY StatedTail DEF PInv, LinkOK
<1>4. Bootstrapped'
  BY <1>1, <1>2, <1>3 DEF Bootstrapped
<1>5. Telling' => Heard'
  BY <1>1, TellingStill
<1> QED BY <1>1, <1>4, <1>5

LEMMA HandlersHear ==
    ASSUME PInv, HInv, drops = 0, ~gone, ServerHandles
    PROVE  connected' /\ Bootstrapped' /\ (Telling' => Heard') /\ Greeting'
<1>1. /\ UNCHANGED vars /\ connected' = connected /\ up # <<>> /\ up' = Tail(up)
  BY DEF ServerHandles, HandleHello, HandleReady, HandleHeartbeat, HandleState, HandleTurnStarted,
         HandleTurnOutcome, HandleRefusedOutcome, HandleTurnFailed, HandleUnwritten, HandleParked,
         HandleWorkerFailed, HandleCleanupCompleted, Takes, Handled, HandledAmiss
<1>2. lease \in LeaseStates /\ connected /\ Bootstrapped /\ (Telling => Heard) /\ Greeting
  BY DEF PInv, ServerOK, HInv
<1>3. CASE HandleHello
  <2>1. /\ Head(up).type # "state" /\ lease' = Observed(lease, "handshake_received")
        /\ rec' = rec /\ receipt' = receipt
    BY <1>3 DEF HandleHello, Takes
  <2>2. "handshake_received" \in Observations \ {"idle_reported"}
    BY DEF Observations
  <2>3. Heard => Heard'
    BY <1>1, <2>1, <2>2, HeardKept
  <2>4. Greeting'
    BY <1>2, <2>1, <2>2, LeaseFacts DEF Greeting
  <2> QED BY <1>1, <2>1, <2>2, <2>3, <2>4, ServerHears DEF Started
<1>4. ASSUME Head(up).type # "hello" PROVE lease # "spawning"
  BY <1>1, <1>2, <1>4 DEF Greeting
<1>5. ASSUME lease # "spawning", lease' = lease \/ \E o \in Observations : lease' = Observed(lease, o)
      PROVE  Greeting'
  BY <1>2, <1>5, LeaseFacts DEF Greeting
<1>6. CASE HandleReady
  <2>1. /\ Head(up).type # "state" /\ Head(up).type # "hello"
        /\ lease' = (IF Current THEN Observed(lease, "bootstrap_completed") ELSE lease)
        /\ rec' = rec /\ receipt' = (receipt \/ Current)
    BY <1>6 DEF HandleReady, Takes
  <2>2. "bootstrap_completed" \in Observations \ {"idle_reported"}
    BY DEF Observations
  <2>3. Heard => Heard'
    BY <1>1, <2>1, <2>2, HeardKept
  <2>4. lease # "spawning"
    BY <1>4, <2>1
  <2>5. Current => ~Fresh'
    BY <1>2, <2>1, <2>2, <2>4, LeaseFacts DEF Fresh
  <2>6. Greeting'
    BY <1>5, <2>1, <2>2, <2>4
  <2>7. lease' = lease \/ \E o \in Observations : lease' = Observed(lease, o)
    BY <2>1, <2>2
  <2>8. (receipt => receipt') /\ (receipt' => receipt \/ ~Fresh') /\ (Started' => Started \/ receipt)
    BY <2>1, <2>5 DEF Started
  <2> QED BY <1>1, <2>3, <2>6, <2>7, <2>8, ServerHears
<1>7. CASE HandleState
  <2>1. /\ Head(up).type # "hello" /\ rec' = rec /\ receipt' = receipt
        /\ \E o \in Observations : lease' = Observed(lease, o)
    <3> DEFINE o == CASE Head(up).to = "busy" -> "busy_reported"
                      [] Head(up).to = "idle" -> "idle_reported"
                      [] OTHER -> "stop_requested"
    <3>1. lease' = Observed(lease, o) /\ Head(up).type # "hello" /\ rec' = rec /\ receipt' = receipt
      BY <1>7 DEF HandleState, Takes
    <3>2. o \in Observations
      BY DEF Observations
    <3> HIDE DEF o
    <3> QED BY <3>1, <3>2
  <2>2. Heard => Heard'
    BY <1>2, <1>7, HeardState
  <2>3. Greeting'
    BY <1>4, <1>5, <2>1
  <2> QED BY <1>1, <2>1, <2>2, <2>3, ServerHears DEF Started
<1>8. CASE HandleHeartbeat \/ HandleTurnStarted \/ HandleTurnOutcome \/ HandleRefusedOutcome \/ HandleTurnFailed
           \/ HandleUnwritten \/ HandleParked \/ HandleWorkerFailed \/ HandleCleanupCompleted
  <2>1. /\ Head(up).type \notin {"hello", "state"} /\ receipt' = receipt
        /\ \/ lease' = lease
           \/ lease' = Observed(lease, "failure_reported")
           \/ lease' = Observed(lease, "cleanup_completed")
        /\ rec' = "running" => rec = "running" \/ receipt
        /\ rec' \in {"failed", "succeeded"} => rec \in {rec', "running", "failed"}
    BY <1>8 DEF HandleHeartbeat, HandleTurnStarted, HandleTurnOutcome, HandleRefusedOutcome,
                HandleTurnFailed, HandleUnwritten, HandleParked, HandleWorkerFailed,
                HandleCleanupCompleted, Takes, RecordOutcome, RecordFailure, RecordWorkerFailure,
                Accepts, server
  <2>2. {"failure_reported", "cleanup_completed"} \subseteq Observations \ {"idle_reported"}
    BY DEF Observations
  <2>3. lease' = lease \/ \E o \in Observations \ {"idle_reported"} : lease' = Observed(lease, o)
    BY <2>1, <2>2
  <2>4. Heard => Heard'
    BY <1>1, <2>1, <2>3, HeardKept
  <2>5. Started' => Started \/ receipt
    <3>1. rec' \in {"starting", "bootstrap_failed", "running", "failed", "succeeded"}
      BY <1>8, StartedServes, HeartbeatServes, StateServes, OutcomeServes, RefusedServes, FailureServes,
         UnwrittenServes, ParkedServes, WorkerFailedServes DEF Serves, PInv, ServerOK
    <3> QED BY <2>1, <3>1 DEF Started
  <2>6. Greeting'
    BY <1>4, <1>5, <2>1, <2>3
  <2>7. lease' = lease \/ \E o \in Observations : lease' = Observed(lease, o)
    BY <2>3
  <2> QED BY <1>1, <2>1, <2>4, <2>5, <2>6, <2>7, ServerHears
<1> QED BY <1>3, <1>6, <1>7, <1>8 DEF ServerHandles

LEMMA SupervisorHears ==
    ASSUME PInv, HInv, drops = 0, ~gone, StopWorker \/ GraceExpires \/ StartupExpires \/ Watchdog
    PROVE  connected' /\ Bootstrapped' /\ (Telling' => Heard') /\ Greeting'
<1>1. lease \in LeaseStates /\ connected /\ Bootstrapped /\ (Telling => Heard) /\ Greeting
  BY DEF PInv, ServerOK, HInv
<1>2. {"stop_requested", "failure_reported"} \subseteq Observations \ {"idle_reported"}
  BY DEF Observations
<1>3. /\ UNCHANGED vars \/ Kill
      /\ connected' = connected /\ up' = up /\ receipt' = receipt
      /\ lease' = lease \/ lease' = Observed(lease, "stop_requested") \/ lease' = Observed(lease, "failure_reported")
      /\ (rec' = rec) \/ RecordWorkerFailure
      /\ \/ lease' = Observed(lease, "stop_requested") \/ lease' = Observed(lease, "failure_reported")
         \/ lease \in {"idle", "busy"}
         \/ down' = down
  <2>1. CASE StopWorker
    <3>1. /\ lease' = Observed(lease, "stop_requested") /\ rec' = rec /\ receipt' = receipt
          /\ Kill \/ (UNCHANGED vars /\ connected' = connected /\ up' = up)
      BY <2>1 DEF StopWorker
    <3> QED BY <3>1 DEF Kill, link
  <2>2. CASE GraceExpires \/ StartupExpires
    BY <2>2 DEF GraceExpires, StartupExpires, server, Kill, link
  <2>3. CASE WatchdogReplays
    BY <2>3 DEF WatchdogReplays, Replays
  <2>4. CASE WatchdogGivesUp \/ HeartbeatStale
    BY <2>4 DEF WatchdogGivesUp, HeartbeatStale, Kill, link
  <2>5. CASE WatchdogForgets
    BY <2>5 DEF WatchdogForgets, link
  <2> QED BY <2>1, <2>2, <2>3, <2>4, <2>5 DEF Watchdog
<1>4. lease' = lease \/ \E o \in Observations \ {"idle_reported"} : lease' = Observed(lease, o)
  BY <1>2, <1>3
<1>5. Heard => Heard'
  BY <1>3, <1>4, HeardKept
<1>6. Started' => Started
  BY <1>3 DEF Started, RecordWorkerFailure
<1>7. lease' = lease \/ \E o \in Observations : lease' = Observed(lease, o)
  BY <1>4
<1>8. connected' /\ Bootstrapped' /\ (Telling' => Heard')
  BY <1>3, <1>5, <1>6, <1>7, ServerHears
<1>9. Greeting'
  <2> SUFFICES ASSUME lease' = "spawning"
               PROVE  /\ down' = <<>>
                      /\ \/ up' = <<>> /\ (w' = InitialState \/ ~Alive')
                         \/ up' # <<>> /\ Head(up').type = "hello"
    BY DEF Greeting
  <2>1. lease' # Observed(lease, "stop_requested") /\ lease' # Observed(lease, "failure_reported")
    BY <1>1, <1>2, LeaseFacts
  <2>2. lease = "spawning" /\ down' = down
    BY <1>3, <2>1
  <2>3. w' = w \/ ~Alive'
    <3>1. UNCHANGED vars => w' = w
      BY DEF vars
    <3>2. ASSUME Kill, Alive PROVE ~Alive'
      <4> DEFINE k == [Quiet EXCEPT !.phase = "exited", !.jobs = {}, !.timers = {}]
      <4>1. Typed(Quiet)
        BY <3>2, WorkerFacts, QuietFacts DEF PInv
      <4>2. k.phase = "exited"
        BY <4>1 DEF Typed, Fields
      <4>3. w' = k
        BY <3>2 DEF Kill
      <4> HIDE DEF k
      <4> QED BY <4>2, <4>3 DEF Alive
    <3>3. Kill /\ ~Alive => w' = w
      BY DEF Kill
    <3> QED BY <1>3, <3>1, <3>2, <3>3
  <2>4. ~Alive /\ w' = w => ~Alive'
    BY DEF Alive
  <2> QED BY <1>1, <1>3, <2>2, <2>3, <2>4 DEF Greeting
<1> QED BY <1>8, <1>9

\* The first event of a worker sends its hello and nothing else.
LEMMA StartGreets == ASSUME IInv, RuntimeStarted PROVE \E v : v = w' /\ v.out = <<Fact("hello")>>
<1> DEFINE q == [Quiet EXCEPT !.phase = "waiting_for_start"]
           s == Emit(q, Fact("hello"))
<1>1. Alive /\ w.phase = "init" /\ Reduce(s)
  BY DEF RuntimeStarted, Alive
<1>2. Typed(Quiet) /\ Keeps(w, Quiet, {"out"}) /\ Good(w) /\ Quiet.out = <<>>
  <2>1. Typed(Quiet) /\ Keeps(w, Quiet, {"out"}) /\ Good(w) /\ Typed(w)
    BY <1>1, QuietFacts DEF Sound
  <2> QED BY <2>1 DEF Quiet, Typed, Fields
<1>3. Keeps(Quiet, q, {"phase"}) /\ q.phase = "waiting_for_start"
  BY <1>2 DEF Keeps, Typed, Fields
<1> HIDE DEF q
<1>4. Keeps(q, s, {"out"}) /\ s.out = Append(q.out, Fact("hello"))
  BY <1>3 DEF Emit, Keeps, Fields
<1>5. s.phase = "waiting_for_start" /\ s.delivery = {} /\ w.delivery = {} /\ s.out = <<Fact("hello")>>
  <2>1. w.delivery = {}
    BY <1>1, <1>2 DEF Good
  <2>2. q.out = <<>> /\ Append(<<>>, Fact("hello")) = <<Fact("hello")>>
    BY <1>2, <1>3 DEF Keeps, Fields
  <2> QED BY <1>2, <1>3, <1>4, <2>1, <2>2 DEF Keeps, Fields
<1> HIDE DEF s
<1>6. Advance(s) = s
  <2>1. FinishReadying(s) = s /\ ~NoActiveWork(s) /\ ~HandlesInputs(s)
    BY <1>5 DEF FinishReadying, NoActiveWork, HandlesInputs
  <2> QED BY <2>1 DEF Advance, IgnoreInputs, InputStep
<1>7. Reported(w) = "idle" /\ Reported(s) = "idle"
  BY <1>1, <1>5 DEF Reported
<1>8. w' = s
  BY <1>1, <1>6, <1>7 DEF Reduce
<1> QED BY <1>5, <1>8

\* What the worker sends first is its hello.
LEMMA WorkerGreets ==
    ASSUME PInv, HInv, drops = 0, ~gone,
           WorkerStarts \/ WorkerJobEnds \/ (\E t \in Timers : WorkerTimerFires(t)) \/ WorkerEvicted \/ WorkerReceives
    PROVE  Greeting'
<1>1. connected /\ Greeting
  BY DEF HInv
<1> SUFFICES ASSUME lease' = "spawning"
             PROVE  /\ down' = <<>>
                    /\ \/ up' = <<>> /\ (w' = InitialState \/ ~Alive')
                       \/ up' # <<>> /\ Head(up').type = "hello"
  BY DEF Greeting
<1>2. PICK e : Spoken(e)
  BY StartsSpoken, JobSpoken, TimerSpoken, EvictedSpoken, ReceivesSpoken
<1>3. PICK v : v = w' /\ Typed(v)
  BY <1>2, HappensTyped DEF Spoken
<1>4. Alive /\ lease = "spawning" /\ up' = up \o v.out /\ up \in Seq(Facts) /\ v.out \in Seq(Facts)
  BY <1>1, <1>2, <1>3 DEF Spoken, Happens, server, Typed, PInv, LinkOK
<1>5. down = <<>> /\ ((up = <<>> /\ w = InitialState) \/ (up # <<>> /\ Head(up).type = "hello"))
  BY <1>1, <1>4 DEF Greeting
<1>6. ~WorkerReceives
  BY <1>5 DEF WorkerReceives
<1>7. down' = <<>>
  BY <1>5, <1>6 DEF WorkerStarts, WorkerJobEnds, WorkerTimerFires, WorkerEvicted, WorkerSends
<1>8. CASE up # <<>> /\ Head(up).type = "hello"
  <2>1. up' # <<>> /\ Head(up') = Head(up)
    BY <1>4, <1>8
  <2> QED BY <1>7, <1>8, <2>1
<1>9. CASE up = <<>> /\ w = InitialState
  <2>1. w.phase = "init" /\ w.jobs = {} /\ w.timers = {}
    BY <1>9 DEF InitialState
  <2>2. ~WorkerEvicted /\ (\A t \in Timers : ~WorkerTimerFires(t))
    BY <2>1 DEF WorkerEvicted, StopRequested, WorkerTimerFires, TimerFired
  <2>3. ~WorkerJobEnds
    BY <2>1 DEF WorkerJobEnds, JobEnds, BootstrapSucceeded, BootstrapFailed, ActivationSucceeded, OperationFailed,
                InputsDelivered, InputDeliveryFailed, TurnCompleted, SnapshotCompleted,
                CredentialSampled, CredentialSampleFailed, CleanupCompleted
  <2>4. RuntimeStarted
    BY <1>6, <2>2, <2>3 DEF WorkerStarts
  <2>5. IInv
    BY <1>4, WorkerFacts DEF PInv
  <2>6. v.out = <<Fact("hello")>>
    BY <1>3, <2>4, <2>5, StartGreets
  <2>7. up' = <<Fact("hello")>>
    BY <1>4, <1>9, <2>6
  <2> QED BY <1>7, <2>7 DEF Fact
<1> QED BY <1>5, <1>8, <1>9

\* The drops and the end of the process are never undone.
LEMMA NothingUndone ==
    ASSUME PInv, ProtocolNext, drops' = 0, ~gone'
    PROVE  drops = 0 /\ ~gone /\ ~Drop /\ ~ProcessExits
<1>1. ~Drop
  BY DEF Drop, PInv, ServerOK
<1>2. ~ProcessExits
  BY DEF ProcessExits
<1>3. CASE \E e : Spoken(e)
  BY <1>1, <1>2, <1>3 DEF Spoken, server
<1>4. CASE ServerHandles
  <2>1. gone' = gone /\ drops' = drops
    BY <1>4 DEF ServerHandles, HandleHello, HandleReady, HandleHeartbeat, HandleState, HandleTurnStarted,
                HandleTurnOutcome, HandleRefusedOutcome, HandleTurnFailed, HandleUnwritten, HandleParked,
                HandleWorkerFailed, HandleCleanupCompleted, Handled, HandledAmiss, server
  <2> QED BY <1>1, <1>2, <2>1
<1>5. CASE StopWorker \/ GraceExpires \/ StartupExpires \/ Watchdog
  <2>1. gone' = gone /\ drops' = drops
    BY <1>5 DEF StopWorker, GraceExpires, StartupExpires, Watchdog, WatchdogReplays, WatchdogGivesUp,
                WatchdogForgets, HeartbeatStale, server, Kill, link
  <2> QED BY <1>1, <1>2, <2>1
<1> QED BY <1>1, <1>2, <1>3, <1>4, <1>5, ReconnectSpoken, StartsSpoken, JobSpoken, TimerSpoken, EvictedSpoken,
           ReceivesSpoken DEF ProtocolNext

LEMMA HearsInit == ProtocolInit => HInv
<1> SUFFICES ASSUME ProtocolInit PROVE HInv
  OBVIOUS
<1>1. /\ connected = TRUE /\ up = <<>> /\ down = <<>> /\ w = InitialState
      /\ rec = "starting" /\ lease = "spawning" /\ receipt = FALSE
  BY DEF ProtocolInit, Init
<1>2. ~Telling
  BY <1>1 DEF Telling, Alive, Reported, InitialState
<1>3. ~SaysBusy(up)
  BY <1>1 DEF SaysBusy
<1> QED BY <1>1, <1>2, <1>3 DEF HInv, Greeting, Bootstrapped, Started

LEMMA HearsKept == PInv /\ PInv' /\ HInv /\ [ProtocolNext]_protocolVars => HInv'
<1>1. ASSUME PInv, PInv', HInv, ProtocolNext PROVE HInv'
  <2> SUFFICES ASSUME drops' = 0, ~gone'
               PROVE  connected' /\ Greeting' /\ Bootstrapped' /\ (Telling' => Heard')
    BY DEF HInv
  <2>1. drops = 0 /\ ~gone /\ ~Drop /\ ~ProcessExits
    BY <1>1, NothingUndone
  <2>2. ~Reconnect
    BY <1>1, <2>1 DEF HInv, Reconnect
  <2>3. CASE WorkerStarts \/ WorkerJobEnds \/ (\E t \in Timers : WorkerTimerFires(t)) \/ WorkerEvicted
             \/ WorkerReceives
    <3>1. Greeting'
      BY <1>1, <2>1, <2>3, WorkerGreets
    <3>2. \E e : Spoken(e)
      BY <1>1, <2>3, StartsSpoken, JobSpoken, TimerSpoken, EvictedSpoken, ReceivesSpoken
    <3> QED BY <1>1, <3>1, <3>2, SpokenHears
  <2>4. CASE ServerHandles
    BY <1>1, <2>1, <2>4, HandlersHear
  <2>5. CASE StopWorker \/ GraceExpires \/ StartupExpires \/ Watchdog
    BY <1>1, <2>1, <2>5, SupervisorHears
  <2> QED BY <1>1, <2>1, <2>2, <2>3, <2>4, <2>5 DEF ProtocolNext
<1>2. ASSUME HInv, UNCHANGED protocolVars PROVE HInv'
  <2>1. /\ w' = w /\ connected' = connected /\ up' = up /\ down' = down /\ drops' = drops
        /\ rec' = rec /\ lease' = lease /\ receipt' = receipt /\ gone' = gone
    BY <1>2 DEF protocolVars, vars, link, server
  <2> QED BY <1>2, <2>1 DEF HInv, Greeting, Bootstrapped, Fresh, Started, SaysBusy, Telling, Heard, Stated,
                             Has, Alive, Reported
<1> QED BY <1>1, <1>2

\* For any number of inputs and messages: as long as no connection dropped, the
\* watchdog gives up on no worker that executes the turn, because the lease of
\* such a worker is busy, or is about to be, or the server has stopped it.
THEOREM ExecutingWorkersAreKept == ProtocolSpec => ExecutingWorkerIsNotGivenUp
<1> DEFINE Keeping == WatchdogGivesUp /\ drops = 0 => w.turn # "executing"
<1>1. PInv /\ HInv => Keeping
  <2> SUFFICES ASSUME PInv, HInv, WatchdogGivesUp, drops = 0, w.turn = "executing" PROVE FALSE
    OBVIOUS
  <2>1. lease = "idle" /\ up = <<>> /\ ~gone
    BY DEF WatchdogGivesUp, Delivered, Replays
  <2>2. Heard
    BY <2>1, ExecutingTells DEF HInv
  <2>3. ~Stated(up)
    BY <2>1 DEF Stated
  <2> QED BY <2>1, <2>2, <2>3 DEF Heard, Serving
<1>2. PInv /\ HInv /\ [ProtocolNext]_protocolVars => HInv'
  BY ProtocolKeeps, HearsKept
<1> QED BY <1>1, <1>2, ProtocolInitHolds, ProtocolKeeps, HearsInit, PTL DEF ProtocolSpec, ExecutingWorkerIsNotGivenUp
=============================================================================
