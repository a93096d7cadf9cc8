------------------------- MODULE WorkerLinkProofs -------------------------
(***************************************************************************)
(* Theorems about WorkerLink, for any number of connections, messages,     *)
(* cuts and restarts and any size of the buffer.                           *)
(***************************************************************************)
EXTENDS WorkerLink, TLAPS

States == {"waiting", "opening", "open", "failed"}
Codes  == Final \cup {"none", "retry adoption", "overflow", "abnormal", "unregistered"}
Conn   == [w : {"closed", "opening", "open"}, s : {"closed", "asked", "bound"}, cut : BOOLEAN,
           up : Seq(Int), down : Seq(Int), code : Codes]
Client == [state : States, sock : Conns \cup {NoConn}, opened : BOOLEAN, out : Seq(Int), sent : Nat]
Registration == [known : BOOLEAN, sock : Conns \cup {NoConn}, authed : BOOLEAN, out : Seq(Int), lost : BOOLEAN]
Bounds == [down : 0..MaxDown, drops : Nat, restarts : Nat, stops : {0, 1}]

Types ==
    /\ conn \in [Conns -> Conn] /\ worker \in Client /\ entry \in Registration
    /\ phase \in {"adopting", "serving"} /\ budget \in Bounds
    /\ got \in Seq(Int) /\ heard \in Seq(Int)

\* The two ends of a connection, as the worker and the server know them.
EndsOK(c) ==
    /\ conn[c].w = IF worker.sock = c THEN worker.state ELSE "closed"
    /\ conn[c].s = "bound" <=> entry.sock = c
    /\ conn[c].w = "closed" => conn[c] = Dead \/ (conn[c].s # "closed" /\ conn[c].cut)
    /\ conn[c].cut \/ conn[c].w # "open" => conn[c].up = <<>>
    /\ conn[c].cut => conn[c].down = <<>>
    /\ conn[c].s = "asked" => conn[c].down = <<>>
    /\ conn[c].s = "bound" => IF entry.authed THEN conn[c].w # "opening" ELSE conn[c].down = <<>>

Ends ==
    /\ worker.sock # NoConn <=> worker.state \in {"opening", "open"}
    /\ entry.authed => entry.sock # NoConn /\ entry.out = <<>>
    /\ Len(entry.out) <= MaxBuffer
    /\ phase = "adopting" => entry = NoEntry
    /\ \A c \in Conns : EndsOK(c)

Elems(s) == {s[i] : i \in DOMAIN s}
Below(s, t) == \A a \in Elems(s), b \in Elems(t) : a < b

\* On its way to the server: what was given comes before what is in flight or
\* buffered.  On a connection the token is first, then the hello.
UpOK(c) ==
    /\ Increasing(conn[c].up) /\ Elems(conn[c].up) \subseteq Token..worker.sent
    /\ \A a \in Elems(got), b \in Elems(conn[c].up) : b > Hello => a < b
    /\ entry.sock = c /\ entry.authed => Token \notin Elems(conn[c].up)
Upward ==
    /\ Increasing(got) /\ Elems(got) \subseteq 1..worker.sent
    /\ Increasing(worker.out) /\ Elems(worker.out) \subseteq 1..worker.sent
    /\ worker.state = "open" => worker.out = <<>>
    /\ Below(got, worker.out)
    /\ \A c \in Conns : UpOK(c)

\* On its way to the worker.
Sent == MaxDown - budget.down
DownOK(c) ==
    /\ Increasing(conn[c].down) /\ Elems(conn[c].down) \subseteq 1..Sent
    /\ Below(heard, conn[c].down) /\ Below(conn[c].down, entry.out)
Downward ==
    /\ Increasing(heard) /\ Elems(heard) \subseteq 1..Sent
    /\ Increasing(entry.out) /\ Elems(entry.out) \subseteq 1..Sent
    /\ Below(heard, entry.out)
    /\ \A c \in Conns : DownOK(c)

\* A server that adopts no more has forgotten a worker only because it was told
\* to, and turns away as unknown no other.
Knowledge ==
    /\ budget.stops = 0 => ~entry.known
    /\ phase = "serving" /\ ~entry.known => budget.stops = 0
    /\ \A c \in Conns : conn[c].code = "unknown" => budget.stops = 0

IInv == Types /\ Ends /\ Upward /\ Downward /\ Knowledge

-----------------------------------------------------------------------------
(* Sequences *)

\* The first element and the rest.
LEMMA TailFacts ==
  ASSUME NEW s \in Seq(Int), s # <<>>
  PROVE  /\ Tail(s) \in Seq(Int) /\ Head(s) \in Elems(s) /\ Head(s) \in Int
         /\ Elems(Tail(s)) \subseteq Elems(s)
         /\ Increasing(s) => Increasing(Tail(s)) /\ \A a \in Elems(Tail(s)) : Head(s) < a
<1>1. /\ Len(s) \in Nat /\ Len(s) >= 1 /\ DOMAIN s = 1..Len(s) /\ Tail(s) \in Seq(Int)
      /\ DOMAIN Tail(s) = 1..(Len(s) - 1) /\ \A i \in 1..(Len(s) - 1) : Tail(s)[i] = s[i + 1]
      /\ Head(s) = s[1] /\ 1 \in DOMAIN s /\ Head(s) \in Int
    OBVIOUS
<1>2. Head(s) \in Elems(s)
    BY <1>1 DEF Elems
<1>3. Elems(Tail(s)) \subseteq Elems(s)
    BY <1>1 DEF Elems
<1>4. ASSUME Increasing(s), NEW i \in DOMAIN Tail(s), NEW j \in DOMAIN Tail(s), i < j
      PROVE  Tail(s)[i] < Tail(s)[j]
  <2>1. i + 1 \in DOMAIN s /\ j + 1 \in DOMAIN s /\ i + 1 < j + 1
      BY <1>1, <1>4
  <2>2. s[i + 1] < s[j + 1]
      BY <1>4, <2>1 DEF Increasing
  <2> QED BY <1>1, <2>2
<1>5. ASSUME Increasing(s), NEW a \in Elems(Tail(s)) PROVE Head(s) < a
  <2>1. PICK i \in DOMAIN Tail(s) : a = Tail(s)[i]
      BY DEF Elems
  <2>2. i + 1 \in DOMAIN s /\ 1 < i + 1 /\ a = s[i + 1]
      BY <1>1, <2>1
  <2> QED BY <1>1, <1>5, <2>2 DEF Increasing
<1> QED BY <1>1, <1>2, <1>3, <1>4, <1>5 DEF Increasing

\* Two sequences, one after the other.
LEMMA ConcatFacts ==
  ASSUME NEW s \in Seq(Int), NEW t \in Seq(Int)
  PROVE  /\ s \o t \in Seq(Int) /\ Elems(s \o t) = Elems(s) \cup Elems(t)
         /\ Increasing(s) /\ Increasing(t) /\ Below(s, t) => Increasing(s \o t)
<1>1. /\ s \o t \in Seq(Int) /\ Len(s) \in Nat /\ Len(t) \in Nat
      /\ DOMAIN s = 1..Len(s) /\ DOMAIN t = 1..Len(t) /\ DOMAIN (s \o t) = 1..(Len(s) + Len(t))
      /\ \A i \in DOMAIN (s \o t) : (s \o t)[i] = IF i <= Len(s) THEN s[i] ELSE t[i - Len(s)]
    OBVIOUS
<1>2. ASSUME NEW a \in Elems(s \o t) PROVE a \in Elems(s) \cup Elems(t)
  <2>1. PICK i \in DOMAIN (s \o t) : a = (s \o t)[i]
      BY DEF Elems
  <2>2. CASE i <= Len(s)
      BY <1>1, <2>1, <2>2 DEF Elems
  <2>3. CASE i > Len(s)
    <3>1. i - Len(s) \in DOMAIN t /\ a = t[i - Len(s)]
        BY <1>1, <2>1, <2>3
    <3> QED BY <3>1 DEF Elems
  <2> QED BY <1>1, <2>2, <2>3
<1>3. ASSUME NEW a \in Elems(s) PROVE a \in Elems(s \o t)
    BY <1>1 DEF Elems
<1>4. ASSUME NEW a \in Elems(t) PROVE a \in Elems(s \o t)
  <2>1. PICK i \in DOMAIN t : a = t[i]
      BY DEF Elems
  <2>2. i + Len(s) \in DOMAIN (s \o t) /\ ~(i + Len(s) <= Len(s)) /\ (i + Len(s)) - Len(s) = i
      BY <1>1
  <2>3. (s \o t)[i + Len(s)] = a
      BY <1>1, <2>1, <2>2
  <2> QED BY <2>2, <2>3 DEF Elems
<1>5. ASSUME Increasing(s), Increasing(t), Below(s, t),
             NEW i \in DOMAIN (s \o t), NEW j \in DOMAIN (s \o t), i < j
      PROVE  (s \o t)[i] < (s \o t)[j]
  <2>1. CASE j <= Len(s)
    <3>1. i \in DOMAIN s /\ j \in DOMAIN s /\ (s \o t)[i] = s[i] /\ (s \o t)[j] = s[j]
        BY <1>1, <1>5, <2>1
    <3> QED BY <1>5, <3>1 DEF Increasing
  <2>2. CASE i <= Len(s) /\ j > Len(s)
    <3>1. i \in DOMAIN s /\ j - Len(s) \in DOMAIN t /\ (s \o t)[i] = s[i] /\ (s \o t)[j] = t[j - Len(s)]
        BY <1>1, <1>5, <2>2
    <3>2. s[i] \in Elems(s) /\ t[j - Len(s)] \in Elems(t)
        BY <3>1 DEF Elems
    <3> QED BY <1>5, <3>1, <3>2 DEF Below
  <2>3. CASE i > Len(s)
    <3>1. /\ i - Len(s) \in DOMAIN t /\ j - Len(s) \in DOMAIN t /\ i - Len(s) < j - Len(s)
          /\ (s \o t)[i] = t[i - Len(s)] /\ (s \o t)[j] = t[j - Len(s)]
        BY <1>1, <1>5, <2>3
    <3> QED BY <1>5, <3>1 DEF Increasing
  <2>4. i \in Int /\ j \in Int /\ Len(s) \in Int
      BY <1>1
  <2>5. j <= Len(s) \/ (i <= Len(s) /\ j > Len(s)) \/ i > Len(s)
      BY <2>4
  <2> QED BY <2>1, <2>2, <2>3, <2>5
<1> QED BY <1>1, <1>2, <1>3, <1>4, <1>5 DEF Increasing

\* The short sequences.
LEMMA ShortFacts ==
  /\ <<>> \in Seq(Int) /\ Elems(<<>>) = {} /\ Increasing(<<>>)
  /\ \A n \in Int : <<n>> \in Seq(Int) /\ Elems(<<n>>) = {n} /\ Increasing(<<n>>)
<1>1. <<>> \in Seq(Int) /\ Elems(<<>>) = {} /\ Increasing(<<>>)
    BY DEF Elems, Increasing
<1>2. ASSUME NEW n \in Int PROVE <<n>> \in Seq(Int) /\ Elems(<<n>>) = {n} /\ Increasing(<<n>>)
    BY DEF Elems, Increasing
<1> QED BY <1>1, <1>2

\* One more element.
LEMMA AppendFacts ==
  ASSUME NEW s \in Seq(Int), NEW n \in Int
  PROVE  /\ Append(s, n) \in Seq(Int) /\ Elems(Append(s, n)) = Elems(s) \cup {n}
         /\ Len(Append(s, n)) = Len(s) + 1
         /\ Increasing(s) /\ (\A a \in Elems(s) : a < n) => Increasing(Append(s, n))
<1>1. Append(s, n) = s \o <<n>> /\ Len(Append(s, n)) = Len(s) + 1
    OBVIOUS
<1>2. <<n>> \in Seq(Int) /\ Elems(<<n>>) = {n} /\ Increasing(<<n>>)
    BY ShortFacts
<1>3. /\ s \o <<n>> \in Seq(Int) /\ Elems(s \o <<n>>) = Elems(s) \cup {n}
      /\ Increasing(s) /\ Below(s, <<n>>) => Increasing(s \o <<n>>)
    BY <1>2, ConcatFacts
<1>4. (\A a \in Elems(s) : a < n) => Below(s, <<n>>)
    BY <1>2 DEF Below
<1> QED BY <1>1, <1>3, <1>4

\* The elements of a sequence.
LEMMA ElemsFacts ==
  ASSUME NEW s \in Seq(Int)
  PROVE  Elems(s) \subseteq Int
BY DEF Elems

-----------------------------------------------------------------------------
(* What the actions do to a connection *)

\* The fields of a connection and of what is closed.
LEMMA ConnFacts ==
  ASSUME Types, NEW c \in Conns
  PROVE  /\ conn[c] \in Conn /\ conn[c].up \in Seq(Int) /\ conn[c].down \in Seq(Int) /\ conn[c].code \in Codes
         /\ conn[c].w \in {"closed", "opening", "open"} /\ conn[c].s \in {"closed", "asked", "bound"}
         /\ conn[c].cut \in BOOLEAN
<1>1. conn[c] \in Conn
    BY DEF Types
<1> QED BY <1>1 DEF Conn

LEMMA DeadFacts ==
  /\ Dead \in Conn /\ Dead.w = "closed" /\ Dead.s = "closed" /\ Dead.cut = FALSE
  /\ Dead.up = <<>> /\ Dead.down = <<>> /\ Dead.code = "none"
<1>1. <<>> \in Seq(Int)
    OBVIOUS
<1> QED BY <1>1 DEF Dead, Conn, Codes

\* One connection is changed to r.
Becomes(c, r) ==
    /\ conn' \in [Conns -> Conn] /\ conn'[c] = r
    /\ \A x \in Conns : x # c => conn'[x] = conn[x]
LEMMA PutFacts ==
  ASSUME Types, NEW c \in Conns, NEW r \in Conn, conn' = [conn EXCEPT ![c] = r]
  PROVE  Becomes(c, r)
BY DEF Types, Becomes

\* closeSocket: only the server's end, what the worker sent and the code change.
LEMMA ShutFacts ==
  ASSUME Types, NEW c \in Conns, EndsOK(c), NEW code \in Codes
  PROVE  LET r == Shut(c, code) IN
         /\ r \in Conn /\ r.w = conn[c].w /\ r.s = "closed" /\ r.up = <<>> /\ r.down = conn[c].down
         /\ r.code \in {code, "none"} /\ (r.w = "closed" => r = Dead)
         /\ r.cut => conn[c].cut
<1>1. CASE conn[c].w = "closed"
  <2>1. Shut(c, code) = Dead /\ conn[c].down = <<>>
      BY <1>1, DeadFacts DEF Shut, EndsOK
  <2> QED BY <1>1, <2>1, DeadFacts
<1>2. CASE conn[c].w # "closed"
  <2>1. Shut(c, code) = [conn[c] EXCEPT !.s = "closed", !.up = <<>>, !.code = code]
      BY <1>2 DEF Shut
  <2>2. conn[c] \in Conn /\ <<>> \in Seq(Int)
      BY DEF Types
  <2>3. Shut(c, code) \in Conn
      BY <2>1, <2>2 DEF Conn
  <2> QED BY <1>2, <2>1, <2>2, <2>3 DEF Conn
<1> QED BY <1>1, <1>2

\* What is written to a connection.
LEMMA CastFacts ==
  ASSUME NEW c, NEW s \in Seq(Int), NEW t \in Seq(Int)
  PROVE  /\ Cast(c, s, t) \in Seq(Int) /\ Elems(Cast(c, s, t)) \subseteq Elems(s) \cup Elems(t)
         /\ Increasing(s) /\ Increasing(t) /\ Below(s, t) => Increasing(Cast(c, s, t))
         /\ conn[c].cut => Cast(c, s, t) = s
BY ConcatFacts DEF Cast

\* Drop.
LEMMA DropFacts ==
  ASSUME IInv, NEW c \in Conns, Drop(c)
  PROVE  /\ Becomes(c, [conn[c] EXCEPT !.cut = TRUE, !.up = <<>>, !.down = <<>>])
         /\ UNCHANGED <<worker, entry, phase, got, heard>>
         /\ budget' \in Bounds /\ budget'.down = budget.down /\ budget'.stops = budget.stops
<1> DEFINE r == [conn[c] EXCEPT !.cut = TRUE, !.up = <<>>, !.down = <<>>]
<1>1. Types /\ conn[c] \in Conn /\ <<>> \in Seq(Int) /\ conn \in [Conns -> Conn]
    BY DEF IInv, Types
<1>2. r \in Conn
    BY <1>1 DEF Conn
<1>3. conn' = [conn EXCEPT ![c] = r]
    BY <1>1 DEF Drop
<1>4. Becomes(c, r)
    BY <1>1, <1>2, <1>3, PutFacts
<1>5. budget' = [budget EXCEPT !.drops = budget.drops - 1] /\ budget.drops - 1 \in Nat
    BY <1>1 DEF Drop, Types, Bounds
<1>6. budget' \in Bounds /\ budget'.down = budget.down /\ budget'.stops = budget.stops
    BY <1>1, <1>5 DEF Types, Bounds
<1> QED BY <1>4, <1>6 DEF Drop

\* Connect.
LEMMA ConnectFacts ==
  ASSUME IInv, NEW c \in Conns, Connect(c)
  PROVE  /\ Becomes(c, [Dead EXCEPT !.w = "opening", !.s = "asked"])
         /\ conn[c] = Dead /\ worker.state = "waiting"
         /\ worker' \in Client /\ worker'.state = "opening" /\ worker'.sock = c
         /\ worker'.out = worker.out /\ worker'.sent = worker.sent
         /\ UNCHANGED <<entry, phase, got, heard, budget>>
<1> DEFINE r == [Dead EXCEPT !.w = "opening", !.s = "asked"]
<1>1. Types /\ worker \in Client
    BY DEF IInv, Types
<1>2. r \in Conn
    BY DeadFacts DEF Conn
<1>3. conn' = [conn EXCEPT ![c] = r]
    BY DEF Connect
<1>4. Becomes(c, r)
    BY <1>1, <1>2, <1>3, PutFacts
<1>5. worker' = [worker EXCEPT !.state = "opening", !.sock = c]
    BY DEF Connect
<1>6. /\ worker' \in Client /\ worker'.state = "opening" /\ worker'.sock = c
      /\ worker'.out = worker.out /\ worker'.sent = worker.sent
    BY <1>1, <1>5 DEF Client, States
<1> QED BY <1>4, <1>6 DEF Connect

\* Open.
LEMMA OpenFacts ==
  ASSUME IInv, NEW c \in Conns, Open(c)
  PROVE  /\ \E up \in Seq(Int) :
              /\ Becomes(c, [conn[c] EXCEPT !.w = "open", !.up = up])
              /\ conn[c].cut => up = <<>>
              /\ Increasing(up) /\ Elems(up) \subseteq {Token, Hello} \cup Elems(worker.out)
         /\ worker.sock = c /\ worker.state = "opening" /\ conn[c].w = "opening" /\ conn[c].s # "asked"
         /\ worker' \in Client /\ worker'.state = "open" /\ worker'.sock = c
         /\ worker'.out = <<>> /\ worker'.sent = worker.sent
         /\ UNCHANGED <<entry, phase, got, heard, budget>>
<1>1. /\ Types /\ conn[c] \in Conn /\ conn \in [Conns -> Conn] /\ worker \in Client /\ <<>> \in Seq(Int)
      /\ worker.out \in Seq(Int)
    BY DEF IInv, Types, Client
<1>2. worker.sock = c /\ conn[c].w = "opening" /\ conn[c].s # "asked" /\ worker.state = "opening" /\ conn[c].up = <<>>
    BY DEF Open, IInv, Ends, EndsOK
<1>3. /\ <<Token>> \in Seq(Int) /\ Elems(<<Token>>) = {Token} /\ Increasing(<<Token>>)
      /\ <<Hello>> \in Seq(Int) /\ Elems(<<Hello>>) = {Hello} /\ Increasing(<<Hello>>)
      /\ Elems(<<>>) = {} /\ Increasing(<<>>) /\ Token < Hello /\ Token = -1 /\ Hello = 0
    BY ShortFacts DEF Token, Hello
<1> DEFINE h == IF worker.opened THEN <<Hello>> ELSE <<>>
           g == <<Token>> \o h
           msgs == g \o worker.out
           up == Cast(c, conn[c].up, msgs)
<1>4. h \in Seq(Int) /\ Elems(h) \subseteq {Hello} /\ Increasing(h) /\ Below(<<Token>>, h)
    BY <1>1, <1>3 DEF Below
<1>5. g \in Seq(Int) /\ Elems(g) \subseteq {Token, Hello} /\ Increasing(g)
  <2> HIDE DEF h
  <2>1. /\ g \in Seq(Int) /\ Elems(g) = Elems(<<Token>>) \cup Elems(h)
        /\ Increasing(<<Token>>) /\ Increasing(h) /\ Below(<<Token>>, h) => Increasing(g)
      BY <1>3, <1>4, ConcatFacts
  <2> HIDE DEF g
  <2> QED BY <1>3, <1>4, <2>1
<1>6. Increasing(worker.out) /\ Elems(worker.out) \subseteq 1..worker.sent
    BY DEF IInv, Upward
<1>7. msgs \in Seq(Int) /\ Elems(msgs) \subseteq {Token, Hello} \cup Elems(worker.out) /\ Increasing(msgs)
  <2> HIDE DEF g
  <2>1. Below(g, worker.out)
      BY <1>3, <1>5, <1>6 DEF Below
  <2> QED BY <1>1, <1>5, <1>6, <2>1, ConcatFacts
<1>8. /\ up \in Seq(Int) /\ Elems(up) \subseteq {Token, Hello} \cup Elems(worker.out)
      /\ Increasing(up) /\ (conn[c].cut => up = <<>>)
  <2> HIDE DEF msgs
  <2>1. Below(<<>>, msgs)
      BY <1>3 DEF Below
  <2>2. /\ up \in Seq(Int) /\ Elems(up) \subseteq Elems(conn[c].up) \cup Elems(msgs)
        /\ Increasing(conn[c].up) /\ Increasing(msgs) /\ Below(conn[c].up, msgs) => Increasing(up)
        /\ conn[c].cut => up = conn[c].up
      BY <1>1, <1>2, <1>7, CastFacts
  <2> HIDE DEF up
  <2> QED BY <1>2, <1>3, <1>7, <2>1, <2>2
<1>9. conn' = [conn EXCEPT ![c].w = "open", ![c].up = up]
    BY <1>1, SMT DEF Open
<1> HIDE DEF up
<1>10. [conn[c] EXCEPT !.w = "open", !.up = up] \in Conn
    BY <1>1, <1>8 DEF Conn
<1>11. conn' = [conn EXCEPT ![c] = [conn[c] EXCEPT !.w = "open", !.up = up]]
    BY <1>1, <1>9
<1>12. Becomes(c, [conn[c] EXCEPT !.w = "open", !.up = up])
    BY <1>1, <1>10, <1>11, PutFacts
<1>13. worker' = [worker EXCEPT !.state = "open", !.opened = TRUE, !.out = <<>>]
    BY DEF Open
<1>14. /\ worker' \in Client /\ worker'.state = "open" /\ worker'.sock = c
       /\ worker'.out = <<>> /\ worker'.sent = worker.sent
    BY <1>1, <1>2, <1>13 DEF Client, States
<1> QED BY <1>2, <1>8, <1>12, <1>14 DEF Open

\* WorkerSends.
LEMMA WorkerSendsFacts ==
  ASSUME IInv, WorkerSends
  PROVE  /\ worker' \in Client /\ worker'.state = worker.state /\ worker'.sock = worker.sock
         /\ worker'.sent = worker.sent + 1 /\ worker.sent \in Nat
         /\ UNCHANGED <<entry, phase, got, heard, budget>>
         /\ \/ /\ worker.state # "open" /\ worker'.out = Append(worker.out, worker.sent + 1)
               /\ conn' = conn
            \/ /\ worker.state = "open" /\ worker'.out = worker.out
               /\ worker.sock \in Conns
               /\ \E up \in Seq(Int) :
                    /\ Becomes(worker.sock, [conn[worker.sock] EXCEPT !.up = up])
                    /\ conn[worker.sock].cut => up = conn[worker.sock].up
                    /\ Elems(up) \subseteq Elems(conn[worker.sock].up) \cup {worker.sent + 1}
                    /\ Increasing(up)
<1> DEFINE n == worker.sent + 1
           c == worker.sock
<1>1. /\ Types /\ worker \in Client /\ worker.out \in Seq(Int) /\ worker.sent \in Nat /\ n \in Nat /\ n \in Int
      /\ conn \in [Conns -> Conn]
    BY DEF IInv, Types, Client
<1>2. CASE worker.state # "open"
  <2>1. worker' = [worker EXCEPT !.sent = n, !.out = Append(worker.out, n)] /\ conn' = conn
      BY <1>2 DEF WorkerSends
  <2>2. Append(worker.out, n) \in Seq(Int)
      BY <1>1
  <2> QED BY <1>1, <1>2, <2>1, <2>2 DEF WorkerSends, Client
<1>3. CASE worker.state = "open"
  <2>1. c \in Conns
      BY <1>1, <1>3 DEF IInv, Ends, Client
  <2>2. conn[c] \in Conn /\ conn[c].up \in Seq(Int)
      BY <1>1, <2>1, ConnFacts
  <2> DEFINE up == Cast(c, conn[c].up, <<n>>)
  <2>3. conn' = [conn EXCEPT ![c].up = up] /\ worker' = [worker EXCEPT !.sent = n]
      BY <1>1, <1>3 DEF WorkerSends
  <2>4. <<n>> \in Seq(Int) /\ Elems(<<n>>) = {n} /\ Increasing(<<n>>)
      BY <1>1, ShortFacts
  <2>11. Increasing(conn[c].up) /\ Elems(conn[c].up) \subseteq Token..worker.sent /\ Token = -1
      BY <2>1 DEF IInv, Upward, UpOK, Token
  <2>5. Increasing(conn[c].up) /\ Below(conn[c].up, <<n>>)
      BY <1>1, <2>4, <2>11 DEF Below
  <2>6. /\ up \in Seq(Int) /\ (conn[c].cut => up = conn[c].up)
        /\ Elems(up) \subseteq Elems(conn[c].up) \cup {n} /\ Increasing(up)
      BY <2>2, <2>4, <2>5, CastFacts
  <2> HIDE DEF up
  <2>7. [conn[c] EXCEPT !.up = up] \in Conn
      BY <2>2, <2>6 DEF Conn
  <2>8. conn' = [conn EXCEPT ![c] = [conn[c] EXCEPT !.up = up]]
      BY <1>1, <2>1, <2>3
  <2>9. Becomes(c, [conn[c] EXCEPT !.up = up])
      BY <1>1, <2>1, <2>7, <2>8, PutFacts
  <2>10. /\ worker' \in Client /\ worker'.state = worker.state /\ worker'.sock = worker.sock
         /\ worker'.sent = worker.sent + 1 /\ worker'.out = worker.out
      BY <1>1, <2>3 DEF Client
  <2> QED BY <1>1, <1>3, <2>1, <2>6, <2>9, <2>10 DEF WorkerSends
<1> QED BY <1>2, <1>3

\* WorkerHears.
LEMMA WorkerHearsFacts ==
  ASSUME IInv, NEW c \in Conns, WorkerHears(c)
  PROVE  /\ Becomes(c, [conn[c] EXCEPT !.down = Tail(conn[c].down)])
         /\ conn[c].down \in Seq(Int) /\ conn[c].down # <<>> /\ worker.sock = c /\ conn[c].w = "open"
         /\ heard' = Append(heard, Head(conn[c].down))
         /\ UNCHANGED <<worker, entry, phase, got, budget>>
<1>1. Types /\ conn[c] \in Conn /\ conn \in [Conns -> Conn] /\ conn[c].down \in Seq(Int)
    BY ConnFacts DEF IInv, Types
<1>2. Tail(conn[c].down) \in Seq(Int)
    BY <1>1, TailFacts DEF WorkerHears
<1>3. [conn[c] EXCEPT !.down = Tail(conn[c].down)] \in Conn
    BY <1>1, <1>2 DEF Conn
<1>4. conn' = [conn EXCEPT ![c] = [conn[c] EXCEPT !.down = Tail(conn[c].down)]]
    BY <1>1 DEF WorkerHears
<1> QED BY <1>1, <1>3, <1>4, PutFacts DEF WorkerHears

\* WorkerSeesClose.
LEMMA WorkerSeesCloseFacts ==
  ASSUME IInv, NEW c \in Conns, WorkerSeesClose(c)
  PROVE  /\ \/ conn[c].s = "closed" /\ Becomes(c, Dead)
            \/ conn[c].s # "closed" /\ conn[c].cut /\ Becomes(c, [conn[c] EXCEPT !.w = "closed"])
         /\ worker.sock = c
         /\ worker' \in Client /\ worker'.state \in {"failed", "waiting"} /\ worker'.sock = NoConn
         /\ worker'.out = worker.out /\ worker'.sent = worker.sent
         /\ worker'.state = "failed" => conn[c].code \in Final
         /\ UNCHANGED <<entry, phase, got, heard, budget>>
<1>1. Types /\ conn[c] \in Conn /\ conn \in [Conns -> Conn] /\ worker \in Client
    BY DEF IInv, Types
<1>2. CASE conn[c].s = "closed"
  <2>1. conn' = [conn EXCEPT ![c] = Dead]
      BY <1>1, <1>2 DEF WorkerSeesClose
  <2>2. Becomes(c, Dead)
      BY <1>1, <2>1, DeadFacts, PutFacts
  <2> QED
    <3>1. worker' = [worker EXCEPT !.sock = NoConn,
                       !.state = IF conn[c].code \in Final /\ ~conn[c].cut THEN "failed" ELSE "waiting"]
        BY DEF WorkerSeesClose
    <3>2. /\ worker' \in Client /\ worker'.state \in {"failed", "waiting"} /\ worker'.sock = NoConn
          /\ worker'.out = worker.out /\ worker'.sent = worker.sent
          /\ worker'.state = "failed" => conn[c].code \in Final
        BY <1>1, <3>1 DEF Client, States
    <3> QED BY <1>2, <2>2, <3>2 DEF WorkerSeesClose
<1>3. CASE conn[c].s # "closed"
  <2>1. conn' = [conn EXCEPT ![c] = [conn[c] EXCEPT !.w = "closed"]] /\ conn[c].cut
      BY <1>1, <1>3 DEF WorkerSeesClose
  <2>2. [conn[c] EXCEPT !.w = "closed"] \in Conn
      BY <1>1 DEF Conn
  <2>3. Becomes(c, [conn[c] EXCEPT !.w = "closed"])
      BY <1>1, <2>1, <2>2, PutFacts
  <2>4. worker' = [worker EXCEPT !.sock = NoConn,
                     !.state = IF conn[c].code \in Final /\ ~conn[c].cut THEN "failed" ELSE "waiting"]
      BY DEF WorkerSeesClose
  <2>5. /\ worker' \in Client /\ worker'.state \in {"failed", "waiting"} /\ worker'.sock = NoConn
        /\ worker'.out = worker.out /\ worker'.sent = worker.sent
        /\ worker'.state = "failed" => conn[c].code \in Final
      BY <1>1, <2>4 DEF Client, States
  <2> QED BY <1>3, <2>1, <2>3, <2>5 DEF WorkerSeesClose
<1> QED BY <1>2, <1>3

\* The server shuts the connections X.
Shuts(X, code) ==
    /\ conn' \in [Conns -> Conn]
    /\ \A x \in Conns : conn'[x] = IF x \in X THEN Shut(x, code) ELSE conn[x]
\* What the registration of the worker becomes then.
Loses(X) ==
    /\ entry' \in Registration
    /\ \A x \in Conns : entry'.sock = x <=> entry.sock = x /\ x \notin X
    /\ entry'.sock # NoConn => entry'.authed = entry.authed
    /\ entry'.authed => entry'.sock # NoConn
    /\ entry'.out = entry.out \/ entry'.out = <<>>
    /\ phase' = "adopting" => entry' = NoEntry
\* A step that does nothing but shut the connections X.
Refuses(X, code) ==
    /\ Shuts(X, code) /\ Loses(X) /\ UNCHANGED <<worker, phase, got, heard>>
    /\ budget' \in Bounds /\ budget'.down <= budget.down

LEMMA ShutsFacts ==
  ASSUME Types, Ends, NEW X, NEW code \in Codes,
         conn' = [x \in Conns |-> IF x \in X THEN Shut(x, code) ELSE conn[x]]
  PROVE  Shuts(X, code)
<1>1. \A x \in Conns : Shut(x, code) \in Conn
    BY ShutFacts DEF Ends
<1> QED BY <1>1 DEF Shuts, Types

LEMMA EntryFacts ==
  ASSUME IInv
  PROVE  /\ entry \in Registration /\ NoEntry \in Registration /\ Unbound \in Registration
         /\ Unbound.sock = NoConn /\ Unbound.authed = FALSE /\ Unbound.out = entry.out /\ Unbound.known = entry.known
         /\ NoEntry.sock = NoConn /\ NoEntry.authed = FALSE /\ NoEntry.out = <<>> /\ NoEntry.known = FALSE
         /\ entry.sock # NoConn => entry # NoEntry /\ phase = "serving" /\ entry.sock \in Conns
         /\ entry.known => phase = "serving"
         /\ \A c \in Conns : c # NoConn /\ EndsOK(c)
<1>1. entry \in Registration /\ phase \in {"adopting", "serving"} /\ (phase = "adopting" => entry = NoEntry)
    BY DEF IInv, Types, Ends
<1>2. <<>> \in Seq(Int) /\ NoEntry = [known |-> FALSE, sock |-> NoConn, authed |-> FALSE, out |-> <<>>, lost |-> FALSE]
    BY DEF NoEntry
<1>3. NoEntry \in Registration /\ NoEntry.sock = NoConn /\ NoEntry.authed = FALSE /\ NoEntry.out = <<>> /\ NoEntry.known = FALSE
    BY <1>2 DEF Registration
<1>4. /\ Unbound \in Registration /\ Unbound.sock = NoConn /\ Unbound.authed = FALSE
      /\ Unbound.out = entry.out /\ Unbound.known = entry.known
    BY <1>1 DEF Unbound, Registration
<1>5. entry.sock # NoConn => entry.sock \in Conns
    BY <1>1 DEF Registration
<1>6. \A c \in Conns : c # NoConn /\ EndsOK(c)
    BY LinkAssumption DEF IInv, Ends
<1> QED BY <1>1, <1>3, <1>4, <1>5, <1>6

\* Bind, when the worker is turned away.
LEMMA BindRefusedFacts ==
  ASSUME IInv, NEW c \in Conns, Bind(c), ~entry.known \/ entry.authed
  PROVE  /\ \E code \in Codes : /\ Refuses({c}, code)
                                /\ code = "unknown" => phase = "serving" /\ ~entry.known
         /\ UNCHANGED <<entry, budget>>
<1>1. Types /\ Ends /\ conn[c].s = "asked" /\ entry.sock # c
    BY DEF IInv, Bind, Ends, EndsOK
<1>2. PICK code \in Codes : /\ conn' = [conn EXCEPT ![c] = Shut(c, code)]
                            /\ code = "unknown" => phase = "serving" /\ ~entry.known
  <2>1. CASE ~entry.known /\ phase = "adopting"
    <3>1. conn' = [conn EXCEPT ![c] = Shut(c, "retry adoption")]
        BY <2>1 DEF Bind
    <3>2. "retry adoption" \in Codes /\ "retry adoption" # "unknown"
        BY DEF Codes
    <3> QED BY <3>1, <3>2, Zenon
  <2>2. CASE ~entry.known /\ phase # "adopting"
    <3>1. conn' = [conn EXCEPT ![c] = Shut(c, "unknown")] /\ phase = "serving"
        BY <1>1, <2>2 DEF Bind, Types
    <3> QED BY <2>2, <3>1 DEF Codes, Final
  <2>3. CASE entry.known /\ entry.authed
    <3>1. conn' = [conn EXCEPT ![c] = Shut(c, "already bound")]
        BY <2>3 DEF Bind
    <3>2. "already bound" \in Codes /\ "already bound" # "unknown"
        BY DEF Codes, Final
    <3> QED BY <3>1, <3>2, Zenon
  <2> QED BY <2>1, <2>2, <2>3
<1>3. UNCHANGED <<entry, worker, phase, got, heard, budget>>
    BY DEF Bind
<1>4. conn' = [x \in Conns |-> IF x \in {c} THEN Shut(x, code) ELSE conn[x]]
    BY <1>1, <1>2 DEF Types
<1>5. Shuts({c}, code)
    BY <1>1, <1>4, ShutsFacts
<1>6. Loses({c})
    BY <1>1, <1>3 DEF Loses, Types, Ends
<1>7. budget \in Bounds /\ budget.down <= budget.down
    BY <1>1, LinkAssumption DEF Types, Bounds
<1>8. Refuses({c}, code)
    BY <1>3, <1>5, <1>6, <1>7 DEF Refuses
<1> QED BY <1>2, <1>3, <1>8

\* AuthTimesOut.
LEMMA AuthTimesOutFacts ==
  ASSUME IInv, NEW c \in Conns, AuthTimesOut(c)
  PROVE  Refuses({c}, "authentication timed out") /\ entry'.known = entry.known /\ UNCHANGED budget
<1>1. Types /\ Ends /\ entry.sock = c /\ entry' = Unbound /\ phase = "serving" /\ c # NoConn
    BY EntryFacts DEF IInv, AuthTimesOut
<1>2. UNCHANGED <<worker, phase, got, heard, budget>>
    BY DEF AuthTimesOut
<1>3. conn' = [x \in Conns |-> IF x \in {c} THEN Shut(x, "authentication timed out") ELSE conn[x]]
    BY <1>1 DEF AuthTimesOut, Types
<1>4. Shuts({c}, "authentication timed out")
    BY <1>1, <1>3, ShutsFacts DEF Codes, Final
<1>5. Loses({c}) /\ entry'.known = entry.known
    BY <1>1, <1>2, EntryFacts DEF Loses
<1>6. budget \in Bounds /\ budget.down <= budget.down
    BY <1>1, LinkAssumption DEF Types, Bounds
<1> QED BY <1>2, <1>4, <1>5, <1>6 DEF Refuses

\* ServerSeesClose.
LEMMA ServerSeesCloseFacts ==
  ASSUME IInv, NEW c \in Conns, ServerSeesClose(c)
  PROVE  Refuses({c}, "abnormal") /\ entry'.known = entry.known /\ UNCHANGED budget
<1>1. Types /\ Ends
    BY DEF IInv
<1>2. UNCHANGED <<worker, phase, got, heard, budget>>
    BY DEF ServerSeesClose
<1>3. conn' = [x \in Conns |-> IF x \in {c} THEN Shut(x, "abnormal") ELSE conn[x]]
    BY <1>1 DEF ServerSeesClose, Types
<1>4. Shuts({c}, "abnormal")
    BY <1>1, <1>3, ShutsFacts DEF Codes
<1>5. Loses({c}) /\ entry'.known = entry.known
  <2>1. CASE entry.sock = c
    <3>1. entry' = Unbound /\ phase = "serving"
        BY <2>1, EntryFacts DEF ServerSeesClose
    <3> QED BY <1>2, <2>1, <3>1, EntryFacts DEF Loses
  <2>2. CASE entry.sock # c
    <3>1. entry' = entry
        BY <2>2 DEF ServerSeesClose
    <3> QED BY <1>1, <1>2, <2>2, <3>1 DEF Loses, Types, Ends
  <2> QED BY <2>1, <2>2
<1>6. budget \in Bounds /\ budget.down <= budget.down
    BY <1>1, LinkAssumption DEF Types, Bounds
<1> QED BY <1>2, <1>4, <1>5, <1>6 DEF Refuses

\* Unregister.
LEMMA UnregisterFacts ==
  ASSUME IInv, Unregister
  PROVE  Refuses({entry.sock}, "unregistered") /\ entry' = NoEntry /\ budget'.stops = 0
<1>1. Types /\ Ends /\ budget \in Bounds
    BY DEF IInv, Types
<1>2. UNCHANGED <<worker, phase, got, heard>> /\ entry' = NoEntry
    BY DEF Unregister
<1>3. conn' = [x \in Conns |-> IF x \in {entry.sock} THEN Shut(x, "unregistered") ELSE conn[x]]
    BY <1>1 DEF Unregister
<1>4. Shuts({entry.sock}, "unregistered")
    BY <1>1, <1>3, ShutsFacts DEF Codes
<1>5. Loses({entry.sock})
    BY <1>2, EntryFacts DEF Loses
<1>6. budget' = [budget EXCEPT !.stops = 0] /\ budget.down \in Int
    BY <1>1, LinkAssumption DEF Unregister, Bounds
<1>7. budget' \in Bounds /\ budget'.down = budget.down /\ budget'.stops = 0
    BY <1>1, <1>6 DEF Bounds
<1>8. budget'.down <= budget.down
    BY <1>6, <1>7
<1> QED BY <1>2, <1>4, <1>5, <1>7, <1>8 DEF Refuses

\* Bind, when the worker is accepted: a connection that did not authenticate
\* gives way.
LEMMA BindAcceptedFacts ==
  ASSUME IInv, NEW c \in Conns, Bind(c), entry.known, ~entry.authed
  PROVE  /\ conn' \in [Conns -> Conn] /\ conn'[c] = [conn[c] EXCEPT !.s = "bound"]
         /\ \A x \in Conns : x # c => conn'[x] = IF x = entry.sock THEN Shut(x, "authentication timed out") ELSE conn[x]
         /\ conn[c].s = "asked" /\ conn[c].w # "closed" /\ entry.sock # c /\ phase = "serving"
         /\ entry' \in Registration /\ entry'.sock = c /\ entry'.authed = FALSE /\ entry'.out = entry.out
         /\ entry'.known = entry.known /\ UNCHANGED <<worker, phase, got, heard, budget>>
<1>1. /\ Types /\ Ends /\ conn[c].s = "asked" /\ conn[c].w # "closed" /\ entry.sock # c /\ conn[c] \in Conn
      /\ phase = "serving" /\ entry \in Registration
    BY EntryFacts DEF IInv, Bind, Ends, EndsOK, Types
<1>2. [conn[c] EXCEPT !.s = "bound"] \in Conn /\ \A x \in Conns : Shut(x, "authentication timed out") \in Conn
    BY <1>1, ShutFacts, EntryFacts DEF Conn, Codes, Final
<1>3. conn' = [x \in Conns |-> IF x = c THEN [conn[c] EXCEPT !.s = "bound"]
                               ELSE IF x = entry.sock THEN Shut(x, "authentication timed out") ELSE conn[x]]
    BY DEF Bind
<1>4. /\ conn' \in [Conns -> Conn] /\ conn'[c] = [conn[c] EXCEPT !.s = "bound"]
      /\ \A x \in Conns : x # c => conn'[x] = IF x = entry.sock THEN Shut(x, "authentication timed out") ELSE conn[x]
    BY <1>1, <1>2, <1>3 DEF Types
<1>5. entry' = [entry EXCEPT !.sock = c]
    BY DEF Bind
<1>6. /\ entry' \in Registration /\ entry'.sock = c /\ entry'.authed = entry.authed /\ entry'.out = entry.out
      /\ entry'.known = entry.known
    BY <1>1, <1>5 DEF Registration
<1>7. entry'.authed = FALSE
    BY <1>1, <1>6 DEF Registration
<1> QED BY <1>1, <1>4, <1>6, <1>7 DEF Bind

\* ServerHears, on an authenticated connection.
LEMMA ServerHearsFacts ==
  ASSUME IInv, NEW c \in Conns, ServerHears(c), entry.authed
  PROVE  /\ Becomes(c, [conn[c] EXCEPT !.up = Tail(conn[c].up)])
         /\ conn[c].up \in Seq(Int) /\ conn[c].up # <<>> /\ conn[c].s = "bound"
         /\ got' = IF Head(conn[c].up) = Hello THEN got ELSE Append(got, Head(conn[c].up))
         /\ UNCHANGED <<worker, entry, phase, heard, budget>>
<1>1. Types /\ conn[c] \in Conn /\ conn \in [Conns -> Conn] /\ conn[c].up \in Seq(Int)
    BY ConnFacts DEF IInv, Types
<1>2. conn[c].up # <<>> /\ conn[c].s = "bound"
    BY DEF ServerHears
<1>3. Tail(conn[c].up) \in Seq(Int)
    BY <1>1, <1>2, TailFacts
<1>4. [conn[c] EXCEPT !.up = Tail(conn[c].up)] \in Conn
    BY <1>1, <1>3 DEF Conn
<1>5. conn' = [conn EXCEPT ![c] = [conn[c] EXCEPT !.up = Tail(conn[c].up)]]
    BY <1>1 DEF ServerHears
<1>6. Becomes(c, [conn[c] EXCEPT !.up = Tail(conn[c].up)])
    BY <1>1, <1>4, <1>5, PutFacts
<1> QED BY <1>1, <1>2, <1>6 DEF ServerHears

\* ServerHears, the token: the buffer is sent.
LEMMA TokenFacts ==
  ASSUME IInv, NEW c \in Conns, ServerHears(c), ~entry.authed
  PROVE  /\ \E down \in Seq(Int) :
              /\ Becomes(c, [conn[c] EXCEPT !.up = Tail(conn[c].up), !.down = down])
              /\ (conn[c].cut => down = <<>>) /\ Increasing(down) /\ Elems(down) \subseteq Elems(entry.out)
         /\ conn[c].up \in Seq(Int) /\ conn[c].up # <<>> /\ conn[c].s = "bound" /\ conn[c].w = "open" /\ entry.sock = c
         /\ Head(conn[c].up) = Token /\ conn[c].down = <<>>
         /\ entry' \in Registration /\ entry'.sock = entry.sock /\ entry'.authed = TRUE /\ entry'.out = <<>>
         /\ entry'.known = entry.known /\ UNCHANGED <<worker, phase, got, heard, budget>>
<1>1. /\ Types /\ conn[c] \in Conn /\ conn \in [Conns -> Conn] /\ conn[c].up \in Seq(Int) /\ entry \in Registration
      /\ entry.out \in Seq(Int) /\ <<>> \in Seq(Int)
    BY ConnFacts DEF IInv, Types, Registration
<1>2. conn[c].up # <<>> /\ conn[c].s = "bound" /\ Head(conn[c].up) = Token
    BY DEF ServerHears
<1>3. conn[c].w = "open" /\ entry.sock = c /\ conn[c].down = <<>>
    BY <1>2 DEF IInv, Ends, EndsOK
<1>4. Tail(conn[c].up) \in Seq(Int)
    BY <1>1, <1>2, TailFacts
<1> DEFINE up == Tail(conn[c].up)
           down == Cast(c, conn[c].down, entry.out)
<1>5. Increasing(entry.out) /\ Elems(<<>>) = {} /\ Increasing(<<>>)
    BY ShortFacts DEF IInv, Downward
<1>6. Below(<<>>, entry.out)
    BY <1>5 DEF Below
<1>7. /\ down \in Seq(Int) /\ Elems(down) \subseteq Elems(conn[c].down) \cup Elems(entry.out)
      /\ Increasing(conn[c].down) /\ Increasing(entry.out) /\ Below(conn[c].down, entry.out) => Increasing(down)
      /\ conn[c].cut => down = conn[c].down
    BY <1>1, <1>3, CastFacts
<1>8. conn' = [conn EXCEPT ![c].up = up, ![c].down = down]
    BY <1>1 DEF ServerHears
<1> HIDE DEF up, down
<1>9. conn' = [conn EXCEPT ![c] = [conn[c] EXCEPT !.up = up, !.down = down]]
    BY <1>1, <1>8
<1>10. up \in Seq(Int)
    BY <1>4 DEF up
<1>11. [conn[c] EXCEPT !.up = up, !.down = down] \in Conn
    BY <1>1, <1>7, <1>10 DEF Conn
<1>12. Becomes(c, [conn[c] EXCEPT !.up = up, !.down = down])
    BY <1>1, <1>9, <1>11, PutFacts
<1>13. Becomes(c, [conn[c] EXCEPT !.up = Tail(conn[c].up), !.down = down])
    BY <1>12 DEF up
<1>14. (conn[c].cut => down = <<>>) /\ Increasing(down) /\ Elems(down) \subseteq Elems(entry.out)
    BY <1>3, <1>5, <1>6, <1>7
<1>15. entry' = [entry EXCEPT !.authed = TRUE, !.out = <<>>]
    BY DEF ServerHears
<1>16. /\ entry' \in Registration /\ entry'.sock = entry.sock /\ entry'.authed = TRUE /\ entry'.out = <<>>
       /\ entry'.known = entry.known
    BY <1>1, <1>15 DEF Registration
<1> QED BY <1>1, <1>2, <1>3, <1>7, <1>13, <1>14, <1>16 DEF ServerHears

\* What the server has sent so far.
LEMMA SentFacts ==
  ASSUME IInv
  PROVE  budget \in Bounds /\ budget.down \in 0..MaxDown /\ Sent \in Nat /\ MaxDown \in Nat
<1>1. budget \in Bounds /\ MaxDown \in Nat
    BY LinkAssumption DEF IInv, Types
<1>2. budget.down \in 0..MaxDown
    BY <1>1 DEF Bounds
<1> QED BY <1>1, <1>2 DEF Sent

\* ServerSends.
LEMMA ServerSendsFacts ==
  ASSUME IInv, ServerSends
  PROVE  /\ budget' \in Bounds /\ budget'.down = budget.down - 1 /\ budget'.stops = budget.stops
         /\ Sent' = Sent + 1 /\ entry'.known = entry.known
         /\ UNCHANGED <<worker, phase, got, heard>>
         /\ \/ /\ entry.authed /\ entry' = entry /\ entry.sock \in Conns
               /\ \E down \in Seq(Int) :
                    /\ Becomes(entry.sock, [conn[entry.sock] EXCEPT !.down = down])
                    /\ conn[entry.sock].cut => down = conn[entry.sock].down
                    /\ Increasing(down) /\ Elems(down) \subseteq Elems(conn[entry.sock].down) \cup {Sent + 1}
            \/ Refuses({entry.sock}, "overflow")
            \/ /\ ~entry.authed /\ conn' = conn /\ phase = "serving"
               /\ entry' \in Registration /\ entry'.sock = entry.sock /\ entry'.authed = FALSE
               /\ entry'.out = Append(entry.out, Sent + 1) /\ Len(entry.out) < MaxBuffer
<1>0. Types /\ Ends /\ entry \in Registration /\ entry.out \in Seq(Int) /\ conn \in [Conns -> Conn] /\ phase = "serving"
    BY EntryFacts DEF IInv, Types, Registration, ServerSends
<1>1. budget' = [budget EXCEPT !.down = budget.down - 1] /\ budget.down > 0 /\ UNCHANGED <<worker, phase, got, heard>>
    BY DEF ServerSends
<1>2. budget.down - 1 \in 0..MaxDown /\ budget.down \in Int
    BY <1>1, SentFacts
<1>3. budget' \in Bounds /\ budget'.down = budget.down - 1 /\ budget'.stops = budget.stops
    BY <1>1, <1>2, SentFacts DEF Bounds
<1>4. Sent' = Sent + 1 /\ Sent + 1 = MaxDown - budget.down + 1 /\ Sent + 1 \in Int /\ budget'.down <= budget.down
    BY <1>2, <1>3, SentFacts DEF Sent
<1>5. CASE entry.authed
  <2> DEFINE c == entry.sock
             n == Sent + 1
             down == Cast(c, conn[c].down, <<n>>)
  <2>1. c \in Conns /\ entry' = entry
      BY <1>0, <1>5, EntryFacts DEF Ends, ServerSends
  <2>2. conn[c] \in Conn /\ conn[c].down \in Seq(Int)
      BY <1>0, <2>1, ConnFacts
  <2>3. conn' = [conn EXCEPT ![c].down = down]
      BY <1>0, <1>4, <1>5 DEF ServerSends
  <2>4. <<n>> \in Seq(Int) /\ Elems(<<n>>) = {n} /\ Increasing(<<n>>)
      BY <1>4, ShortFacts
  <2>5. Increasing(conn[c].down) /\ Elems(conn[c].down) \subseteq 1..Sent
      BY <2>1 DEF IInv, Downward, DownOK
  <2>6. Below(conn[c].down, <<n>>)
      BY <2>4, <2>5, SentFacts DEF Below
  <2>7. /\ down \in Seq(Int) /\ Elems(down) \subseteq Elems(conn[c].down) \cup Elems(<<n>>)
        /\ Increasing(down) /\ (conn[c].cut => down = conn[c].down)
      BY <2>2, <2>4, <2>5, <2>6, CastFacts
  <2> HIDE DEF down
  <2>8. [conn[c] EXCEPT !.down = down] \in Conn
      BY <2>2, <2>7 DEF Conn
  <2>9. conn' = [conn EXCEPT ![c] = [conn[c] EXCEPT !.down = down]]
      BY <1>0, <2>1, <2>3
  <2>10. Becomes(c, [conn[c] EXCEPT !.down = down])
      BY <1>0, <2>1, <2>8, <2>9, PutFacts
  <2> QED BY <1>1, <1>3, <1>4, <1>5, <2>1, <2>4, <2>7, <2>10
<1>6. CASE ~entry.authed /\ Len(entry.out) >= MaxBuffer
  <2>1. /\ entry' = [Unbound EXCEPT !.out = <<>>, !.lost = TRUE]
        /\ conn' = [x \in Conns |-> IF x \in {entry.sock} THEN Shut(x, "overflow") ELSE conn[x]]
      BY <1>6 DEF ServerSends
  <2>2. Shuts({entry.sock}, "overflow")
      BY <1>0, <2>1, ShutsFacts DEF Codes
  <2>3. <<>> \in Seq(Int)
      OBVIOUS
  <2>4. /\ entry' \in Registration /\ entry'.sock = NoConn /\ entry'.authed = FALSE /\ entry'.out = <<>>
        /\ entry'.known = entry.known
      BY <2>1, <2>3, EntryFacts DEF Registration
  <2>5. Loses({entry.sock})
      BY <1>0, <1>1, <2>4, EntryFacts DEF Loses
  <2> QED BY <1>1, <1>3, <1>4, <2>2, <2>4, <2>5 DEF Refuses
<1>7. CASE ~entry.authed /\ ~(Len(entry.out) >= MaxBuffer)
  <2>1. entry' = [entry EXCEPT !.out = Append(entry.out, Sent + 1)] /\ conn' = conn
      BY <1>4, <1>7 DEF ServerSends
  <2>2. Append(entry.out, Sent + 1) \in Seq(Int) /\ Len(entry.out) < MaxBuffer
      BY <1>0, <1>4, <1>7, LinkAssumption
  <2>3. entry.authed = FALSE
      BY <1>0, <1>7 DEF Registration
  <2>4. /\ entry' \in Registration /\ entry'.sock = entry.sock /\ entry'.authed = FALSE
        /\ entry'.out = Append(entry.out, Sent + 1) /\ entry'.known = entry.known
      BY <1>0, <2>1, <2>2, <2>3 DEF Registration
  <2> QED BY <1>0, <1>1, <1>3, <1>4, <1>7, <2>1, <2>2, <2>4
<1> QED BY <1>5, <1>6, <1>7

\* ServerRestarts: every connection the server had is cut.
LEMMA RestartFacts ==
  ASSUME IInv, ServerRestarts
  PROVE  /\ conn' \in [Conns -> Conn]
         /\ \A c \in Conns : \/ conn[c].s = "closed" /\ conn'[c] = conn[c]
                             \/ conn[c].s # "closed" /\ conn[c].w = "closed" /\ conn'[c] = Dead
                             \/ /\ conn'[c].w = conn[c].w /\ conn[c].w # "closed" /\ conn'[c].s = "closed" /\ conn'[c].cut
                                /\ conn'[c].up = <<>> /\ conn'[c].down = <<>> /\ conn'[c].code # "unknown"
         /\ entry' = NoEntry /\ phase' = "adopting" /\ UNCHANGED <<worker, got, heard>>
         /\ budget' \in Bounds /\ budget'.down = budget.down /\ budget'.stops = budget.stops
<1>1. Types /\ conn \in [Conns -> Conn] /\ budget \in Bounds
    BY DEF IInv, Types
<1> DEFINE S(c) == [Shut(c, "abnormal") EXCEPT !.cut = TRUE, !.down = <<>>]
<1>2. ASSUME NEW c \in Conns
      PROVE  /\ S(c) \in Conn /\ S(c).w = conn[c].w /\ S(c).s = "closed" /\ S(c).cut
             /\ S(c).up = <<>> /\ S(c).down = <<>> /\ S(c).code # "unknown"
  <2> DEFINE r == Shut(c, "abnormal")
  <2>1. r \in Conn /\ r.w = conn[c].w /\ r.s = "closed" /\ r.up = <<>> /\ r.code \in {"abnormal", "none"}
      BY <1>1, ShutFacts, EntryFacts DEF Codes
  <2>2. <<>> \in Seq(Int)
      OBVIOUS
  <2> HIDE DEF r
  <2>3. [r EXCEPT !.cut = TRUE, !.down = <<>>] \in Conn
      BY <2>1, <2>2 DEF Conn
  <2>4. /\ [r EXCEPT !.cut = TRUE, !.down = <<>>].w = conn[c].w
        /\ [r EXCEPT !.cut = TRUE, !.down = <<>>].s = "closed"
        /\ [r EXCEPT !.cut = TRUE, !.down = <<>>].cut
        /\ [r EXCEPT !.cut = TRUE, !.down = <<>>].up = <<>>
        /\ [r EXCEPT !.cut = TRUE, !.down = <<>>].down = <<>>
        /\ [r EXCEPT !.cut = TRUE, !.down = <<>>].code # "unknown"
      BY <2>1 DEF Conn
  <2> QED BY <2>3, <2>4 DEF r
<1>3. conn' = [c \in Conns |-> IF conn[c].s = "closed" THEN conn[c] ELSE IF conn[c].w = "closed" THEN Dead ELSE S(c)]
    BY DEF ServerRestarts
<1> HIDE DEF S
<1>4. conn' \in [Conns -> Conn]
    BY <1>1, <1>2, <1>3, DeadFacts
<1>5. \A c \in Conns : \/ conn[c].s = "closed" /\ conn'[c] = conn[c]
                       \/ conn[c].s # "closed" /\ conn[c].w = "closed" /\ conn'[c] = Dead
                       \/ conn[c].s # "closed" /\ conn[c].w # "closed" /\ conn'[c] = S(c)
    BY <1>3
<1>8. budget' = [budget EXCEPT !.restarts = budget.restarts - 1] /\ budget.restarts > 0
    BY DEF ServerRestarts
<1>9. budget.restarts \in Nat
    BY <1>1 DEF Bounds
<1>6. budget' = [budget EXCEPT !.restarts = budget.restarts - 1] /\ budget.restarts - 1 \in Nat
    BY <1>8, <1>9
<1>7. budget' \in Bounds /\ budget'.down = budget.down /\ budget'.stops = budget.stops
    BY <1>1, <1>6 DEF Bounds
<1> QED BY <1>2, <1>4, <1>5, <1>7, ZenonT(60) DEF ServerRestarts

-----------------------------------------------------------------------------
(* The conjuncts of the invariant after a step *)

\* The kinds of step.
LEMMA StepCases ==
  ASSUME IInv, Next
  PROVE  \/ \E c \in Conns : \/ Drop(c) \/ Connect(c) \/ Open(c) \/ WorkerHears(c) \/ WorkerSeesClose(c)
                             \/ (Bind(c) /\ entry.known /\ ~entry.authed)
                             \/ ServerHears(c)
         \/ WorkerSends \/ (ServerSends /\ ~Refuses({entry.sock}, "overflow"))
         \/ \E X \in SUBSET (Conns \cup {NoConn}), code \in Codes : Refuses(X, code)
         \/ ServerRestarts \/ AdoptionEnds
<1>1. entry.sock \in Conns \cup {NoConn}
    BY EntryFacts DEF Registration
<1>2. "overflow" \in Codes /\ "abnormal" \in Codes /\ "unregistered" \in Codes /\ "authentication timed out" \in Codes
    BY DEF Codes, Final
<1>3. ASSUME NEW c \in Conns PROVE {c} \in SUBSET (Conns \cup {NoConn})
    OBVIOUS
<1>4. {entry.sock} \in SUBSET (Conns \cup {NoConn})
    BY <1>1
<1>5. ASSUME NEW c \in Conns, Bind(c), ~(entry.known /\ ~entry.authed)
      PROVE  \E X \in SUBSET (Conns \cup {NoConn}), code \in Codes : Refuses(X, code)
    BY <1>3, <1>5, BindRefusedFacts
<1>6. ASSUME NEW c \in Conns, AuthTimesOut(c) \/ ServerSeesClose(c)
      PROVE  \E X \in SUBSET (Conns \cup {NoConn}), code \in Codes : Refuses(X, code)
    BY <1>2, <1>3, <1>6, AuthTimesOutFacts, ServerSeesCloseFacts
<1>7. ASSUME Unregister \/ Refuses({entry.sock}, "overflow")
      PROVE  \E X \in SUBSET (Conns \cup {NoConn}), code \in Codes : Refuses(X, code)
    BY <1>2, <1>4, <1>7, UnregisterFacts
<1> QED BY <1>5, <1>6, <1>7 DEF Next, Network

\* Types.
LEMMA TypesStep ==
  ASSUME IInv, Next
  PROVE  Types'
<1>1. Types /\ heard \in Seq(Int) /\ got \in Seq(Int)
    BY DEF IInv, Types
<1>2. ASSUME NEW c \in Conns, Drop(c) \/ Connect(c) \/ Open(c) \/ WorkerSeesClose(c) PROVE Types'
    BY <1>1, <1>2, DropFacts, ConnectFacts, OpenFacts, WorkerSeesCloseFacts DEF Types, Becomes
<1>3. ASSUME NEW c \in Conns, WorkerHears(c) PROVE Types'
  <2>1. Append(heard, Head(conn[c].down)) \in Seq(Int)
      BY <1>1, <1>3, WorkerHearsFacts, TailFacts, AppendFacts
  <2> QED BY <1>1, <1>3, <2>1, WorkerHearsFacts DEF Types, Becomes
<1>4. ASSUME NEW c \in Conns, Bind(c), entry.known, ~entry.authed PROVE Types'
    BY <1>1, <1>4, BindAcceptedFacts DEF Types
<1>5. ASSUME NEW c \in Conns, ServerHears(c) PROVE Types'
  <2>1. CASE entry.authed
    <3>1. conn[c].up \in Seq(Int) /\ conn[c].up # <<>>
        BY <1>5, <2>1, ServerHearsFacts
    <3>2. Head(conn[c].up) \in Int
        BY <3>1, TailFacts
    <3>3. Append(got, Head(conn[c].up)) \in Seq(Int)
        BY <1>1, <3>2, AppendFacts
    <3>4. got' \in Seq(Int)
        BY <1>1, <1>5, <2>1, <3>3, ServerHearsFacts
    <3> QED BY <1>1, <1>5, <2>1, <3>4, ServerHearsFacts DEF Types, Becomes
  <2>2. CASE ~entry.authed
      BY <1>1, <1>5, <2>2, TokenFacts DEF Types, Becomes
  <2> QED BY <2>1, <2>2
<1>6. CASE WorkerSends
    BY <1>1, <1>6, WorkerSendsFacts DEF Types, Becomes
<1>7. CASE ServerSends
    BY <1>1, <1>7, ServerSendsFacts DEF Types, Becomes, Refuses, Shuts, Loses
<1>8. ASSUME NEW X, NEW code, Refuses(X, code) PROVE Types'
    BY <1>1, <1>8 DEF Types, Refuses, Shuts, Loses
<1>9. CASE ServerRestarts
    BY <1>1, <1>9, RestartFacts, EntryFacts DEF Types
<1>10. CASE AdoptionEnds
  <2>1. entry' = [NoEntry EXCEPT !.known = budget.stops > 0]
      BY <1>10 DEF AdoptionEnds
  <2>2. (budget.stops > 0) \in BOOLEAN
      OBVIOUS
  <2>3. entry' \in Registration
      BY <2>1, <2>2, EntryFacts DEF Registration
  <2> QED BY <1>1, <1>10, <2>3 DEF AdoptionEnds, Types
<1> QED BY <1>2, <1>3, <1>4, <1>5, <1>6, <1>7, <1>8, <1>9, <1>10, StepCases

\* AdoptionEnds, the registration.
LEMMA AdoptedFacts ==
  ASSUME IInv, AdoptionEnds
  PROVE  /\ entry'.sock = NoConn /\ entry'.authed = FALSE /\ entry'.out = <<>> /\ entry.sock = NoConn
         /\ entry'.known = (budget.stops > 0) /\ phase' = "serving"
         /\ UNCHANGED <<conn, worker, got, heard, budget>>
<1>1. entry' = [NoEntry EXCEPT !.known = budget.stops > 0] /\ entry = NoEntry
    BY DEF AdoptionEnds, IInv, Ends
<1>2. entry'.sock = NoConn /\ entry'.authed = FALSE /\ entry'.out = <<>> /\ entry'.known = (budget.stops > 0)
    BY <1>1, EntryFacts DEF NoEntry, Registration
<1> QED BY <1>1, <1>2, EntryFacts DEF AdoptionEnds

\* The ends of a connection that a step leaves alone.
LEMMA EndsStay ==
  ASSUME NEW x \in Conns, EndsOK(x), conn'[x] = conn[x],
         worker'.sock = x <=> worker.sock = x, worker.sock = x => worker'.state = worker.state,
         entry'.sock = x <=> entry.sock = x, entry.sock = x => entry'.authed = entry.authed
  PROVE  EndsOK(x)'
BY DEF EndsOK

\* The ends of the connections.
LEMMA RefusesEnds ==
  ASSUME IInv, NEW X, NEW code \in Codes, Refuses(X, code)
  PROVE  Ends'
<1>1. Types /\ Ends /\ \A c \in Conns : c # NoConn
    BY EntryFacts DEF IInv
<1>2. ASSUME NEW x \in Conns PROVE EndsOK(x)'
  <2>1. worker' = worker /\ (entry'.sock = x <=> entry.sock = x /\ x \notin X) /\ EndsOK(x)
      BY <1>1 DEF Refuses, Loses, Ends
  <2>2. CASE x \in X
    <3>1. conn'[x] = Shut(x, code)
        BY <2>2 DEF Refuses, Shuts
    <3>2. /\ conn'[x].w = conn[x].w /\ conn'[x].s = "closed" /\ conn'[x].up = <<>> /\ conn'[x].down = conn[x].down
          /\ (conn'[x].w = "closed" => conn'[x] = Dead)
          /\ conn'[x].cut => conn[x].cut
        BY <1>1, <2>1, <3>1, ShutFacts
    <3> QED BY <2>1, <2>2, <3>2 DEF EndsOK
  <2>3. CASE x \notin X
    <3>1. conn'[x] = conn[x]
        BY <2>3 DEF Refuses, Shuts
    <3>2. entry'.sock = x => entry'.authed = entry.authed
        BY <1>1 DEF Refuses, Loses
    <3> QED BY <2>1, <2>3, <3>1, <3>2 DEF EndsOK
  <2> QED BY <2>2, <2>3
<1>3. Len(entry'.out) <= MaxBuffer
    BY <1>1, LinkAssumption DEF Refuses, Loses, Ends
<1>4. entry'.authed => entry'.out = <<>>
  <2>1. ASSUME entry'.authed PROVE entry.authed
      BY <2>1 DEF Refuses, Loses
  <2> QED BY <1>1, <2>1 DEF Refuses, Loses, Ends
<1> QED BY <1>1, <1>2, <1>3, <1>4 DEF Refuses, Loses, Ends

LEMMA EndsStep ==
  ASSUME IInv, Next
  PROVE  Ends'
<1>1. Types /\ Ends /\ \A c \in Conns : c # NoConn /\ EndsOK(c)
    BY EntryFacts DEF IInv
<1>2. ASSUME NEW c \in Conns, Drop(c) PROVE Ends'
  <2>1. Becomes(c, [conn[c] EXCEPT !.cut = TRUE, !.up = <<>>, !.down = <<>>]) /\ UNCHANGED <<worker, entry, phase>>
      BY <1>2, DropFacts
  <2>2. /\ conn'[c].w = conn[c].w /\ conn'[c].s = conn[c].s /\ conn'[c].cut
        /\ conn'[c].up = <<>> /\ conn'[c].down = <<>> /\ conn[c].w # "closed"
      BY <1>1, <1>2, <2>1, ConnFacts DEF Becomes, Conn, Drop
  <2>3. ASSUME NEW x \in Conns PROVE EndsOK(x)'
    <3>1. CASE x # c
      <4>1. conn'[x] = conn[x]
          BY <1>1, <2>1, <2>2, <3>1 DEF Becomes
      <4> QED BY <1>1, <2>1, <2>2, <3>1, <4>1, EndsStay
    <3>2. CASE x = c
        BY <1>1, <2>1, <2>2, <3>2 DEF EndsOK
    <3> QED BY <3>1, <3>2
  <2> QED BY <1>1, <2>1, <2>3 DEF Ends
<1>3. ASSUME NEW c \in Conns, Connect(c) PROVE Ends'
  <2>1. /\ Becomes(c, [Dead EXCEPT !.w = "opening", !.s = "asked"]) /\ UNCHANGED <<entry, phase>> /\ conn[c] = Dead
        /\ worker.state = "waiting" /\ worker'.state = "opening" /\ worker'.sock = c
      BY <1>3, ConnectFacts
  <2>2. /\ conn'[c].w = "opening" /\ conn'[c].s = "asked" /\ conn'[c].up = <<>> /\ conn'[c].down = <<>>
        /\ conn[c].s = "closed"
      BY <2>1, DeadFacts DEF Becomes, Conn
  <2>3. worker.sock = NoConn
      BY <1>1, <2>1 DEF Ends
  <2>4. ASSUME NEW x \in Conns PROVE EndsOK(x)'
    <3>1. CASE x # c
      <4>1. conn'[x] = conn[x]
          BY <1>1, <2>1, <2>2, <2>3, <3>1 DEF Becomes
      <4> QED BY <1>1, <2>1, <2>2, <2>3, <3>1, <4>1, EndsStay
    <3>2. CASE x = c
        BY <1>1, <2>1, <2>2, <2>3, <3>2 DEF EndsOK
    <3> QED BY <3>1, <3>2
  <2> QED BY <1>1, <2>1, <2>4 DEF Ends
<1>4. ASSUME NEW c \in Conns, Open(c) PROVE Ends'
  <2>1. PICK up \in Seq(Int) : Becomes(c, [conn[c] EXCEPT !.w = "open", !.up = up]) /\ (conn[c].cut => up = <<>>)
      BY <1>4, OpenFacts
  <2>2. /\ worker.sock = c /\ worker'.state = "open" /\ worker'.sock = c /\ UNCHANGED <<entry, phase>>
        /\ conn[c].w = "opening" /\ conn[c].s # "asked"
      BY <1>4, OpenFacts
  <2>3. /\ conn'[c].w = "open" /\ conn'[c].s = conn[c].s /\ conn'[c].cut = conn[c].cut
        /\ conn'[c].up = up /\ conn'[c].down = conn[c].down
      BY <1>1, <2>1, ConnFacts DEF Becomes, Conn
  <2>4. ASSUME NEW x \in Conns PROVE EndsOK(x)'
    <3>1. CASE x # c
      <4>1. conn'[x] = conn[x]
          BY <1>1, <2>1, <2>2, <2>3, <3>1 DEF Becomes
      <4> QED BY <1>1, <2>1, <2>2, <2>3, <3>1, <4>1, EndsStay
    <3>2. CASE x = c
        BY <1>1, <2>1, <2>2, <2>3, <3>2 DEF EndsOK
    <3> QED BY <3>1, <3>2
  <2> QED BY <1>1, <2>2, <2>4 DEF Ends
<1>5. CASE WorkerSends
  <2>1. worker'.state = worker.state /\ worker'.sock = worker.sock /\ UNCHANGED <<entry, phase>>
      BY <1>5, WorkerSendsFacts
  <2>2. CASE conn' = conn
    <3>1. ASSUME NEW x \in Conns PROVE EndsOK(x)'
        BY <1>1, <2>1, <2>2, EndsStay
    <3> QED BY <1>1, <2>1, <3>1 DEF Ends
  <2>3. CASE conn' # conn
    <3> DEFINE c == worker.sock
    <3>1. PICK up \in Seq(Int) : Becomes(c, [conn[c] EXCEPT !.up = up]) /\ (conn[c].cut => up = conn[c].up)
        BY <1>5, <2>3, WorkerSendsFacts
    <3>2. worker.state = "open" /\ c \in Conns
        BY <1>5, <2>3, WorkerSendsFacts
    <3>3. /\ conn'[c].w = conn[c].w /\ conn'[c].s = conn[c].s /\ conn'[c].cut = conn[c].cut
          /\ conn'[c].up = up /\ conn'[c].down = conn[c].down
        BY <1>1, <3>1, <3>2, ConnFacts DEF Becomes, Conn
    <3>4. ASSUME NEW x \in Conns PROVE EndsOK(x)'
      <4>1. CASE x # c
        <5>1. conn'[x] = conn[x]
            BY <1>1, <2>1, <3>1, <3>2, <3>3, <4>1 DEF Becomes
        <5> QED BY <1>1, <2>1, <3>1, <3>2, <3>3, <4>1, <5>1, EndsStay
      <4>2. CASE x = c
          BY <1>1, <2>1, <3>1, <3>2, <3>3, <4>2 DEF EndsOK
      <4> QED BY <4>1, <4>2
    <3> QED BY <1>1, <2>1, <3>4 DEF Ends
  <2> QED BY <2>2, <2>3
<1>6. ASSUME NEW c \in Conns, WorkerHears(c) PROVE Ends'
  <2>1. /\ Becomes(c, [conn[c] EXCEPT !.down = Tail(conn[c].down)]) /\ UNCHANGED <<worker, entry, phase>>
        /\ worker.sock = c /\ conn[c].w = "open" /\ conn[c].down # <<>>
      BY <1>6, WorkerHearsFacts
  <2>2. /\ conn'[c].w = conn[c].w /\ conn'[c].s = conn[c].s /\ conn'[c].cut = conn[c].cut
        /\ conn'[c].up = conn[c].up /\ ~conn[c].cut
      BY <1>1, <2>1, ConnFacts DEF Becomes, Conn, EndsOK
  <2>3. ASSUME NEW x \in Conns PROVE EndsOK(x)'
    <3>1. CASE x # c
      <4>1. conn'[x] = conn[x]
          BY <1>1, <2>1, <2>2, <3>1 DEF Becomes
      <4> QED BY <1>1, <2>1, <2>2, <3>1, <4>1, EndsStay
    <3>2. CASE x = c
        BY <1>1, <2>1, <2>2, <3>2 DEF EndsOK
    <3> QED BY <3>1, <3>2
  <2> QED BY <1>1, <2>1, <2>3 DEF Ends
<1>7. ASSUME NEW c \in Conns, WorkerSeesClose(c) PROVE Ends'
  <2>1. /\ worker'.state \in {"failed", "waiting"} /\ worker'.sock = NoConn /\ worker.sock = c /\ UNCHANGED <<entry, phase>>
      BY <1>7, WorkerSeesCloseFacts
  <2>2. CASE conn[c].s = "closed"
    <3>1. Becomes(c, Dead)
        BY <1>7, <2>2, WorkerSeesCloseFacts
    <3>2. ASSUME NEW x \in Conns PROVE EndsOK(x)'
      <4>1. CASE x # c
        <5>1. conn'[x] = conn[x]
            BY <1>1, <2>1, <2>2, <3>1, DeadFacts, <4>1 DEF Becomes
        <5> QED BY <1>1, <2>1, <2>2, <3>1, DeadFacts, <4>1, <5>1, EndsStay
      <4>2. CASE x = c
        <5>1. conn'[x] = Dead /\ entry'.sock # x /\ worker'.sock # x
            BY <1>1, <2>1, <2>2, <3>1, <4>2 DEF Becomes, EndsOK
        <5> QED BY <5>1, DeadFacts DEF EndsOK
      <4> QED BY <4>1, <4>2
    <3> QED BY <1>1, <2>1, <3>2 DEF Ends
  <2>3. CASE conn[c].s # "closed"
    <3>1. Becomes(c, [conn[c] EXCEPT !.w = "closed"]) /\ conn[c].cut
        BY <1>7, <2>3, WorkerSeesCloseFacts
    <3>4. conn[c] \in Conn /\ conn'[c] = [conn[c] EXCEPT !.w = "closed"]
        BY <1>1, <3>1, ConnFacts DEF Becomes
    <3>2. /\ conn'[c].w = "closed" /\ conn'[c].s = conn[c].s /\ conn'[c].cut = conn[c].cut
          /\ conn'[c].up = conn[c].up /\ conn'[c].down = conn[c].down
        BY <3>4 DEF Conn
    <3>3. ASSUME NEW x \in Conns PROVE EndsOK(x)'
      <4>1. CASE x # c
        <5>1. conn'[x] = conn[x]
            BY <1>1, <2>1, <2>3, <3>1, <3>2, <4>1 DEF Becomes
        <5> QED BY <1>1, <2>1, <2>3, <3>1, <3>2, <4>1, <5>1, EndsStay
      <4>2. CASE x = c
          BY <1>1, <2>1, <2>3, <3>1, <3>2, <4>2, ZenonT(60) DEF EndsOK
      <4> QED BY <4>1, <4>2
    <3> QED BY <1>1, <2>1, <3>3 DEF Ends
  <2> QED BY <2>2, <2>3
<1>8. ASSUME NEW c \in Conns, Bind(c), entry.known, ~entry.authed PROVE Ends'
  <2>1. /\ conn'[c] = [conn[c] EXCEPT !.s = "bound"] /\ conn[c].s = "asked" /\ conn[c].w # "closed" /\ entry.sock # c
        /\ \A x \in Conns : x # c => conn'[x] = IF x = entry.sock THEN Shut(x, "authentication timed out") ELSE conn[x]
        /\ entry'.sock = c /\ entry'.authed = FALSE /\ entry'.out = entry.out /\ phase = "serving"
        /\ UNCHANGED <<worker, phase>>
      BY <1>8, BindAcceptedFacts
  <2>2. /\ conn'[c].w = conn[c].w /\ conn'[c].s = "bound" /\ conn'[c].cut = conn[c].cut
        /\ conn'[c].up = conn[c].up /\ conn'[c].down = conn[c].down
      BY <1>1, <2>1, ConnFacts DEF Conn
  <2>3. ASSUME NEW x \in Conns PROVE EndsOK(x)'
    <3>1. CASE x = c
      <4>1. /\ entry'.sock = c /\ entry'.authed = FALSE /\ worker' = worker /\ conn[c].s = "asked" /\ conn[c].w # "closed"
            /\ EndsOK(c)
          BY <1>1, <2>1
      <4> QED BY <2>2, <3>1, <4>1 DEF EndsOK
    <3>2. CASE x # c /\ x = entry.sock
      <4>1. conn'[x] = Shut(x, "authentication timed out") /\ "authentication timed out" \in Codes
          BY <2>1, <3>2 DEF Codes, Final
      <4>2. /\ conn'[x].w = conn[x].w /\ conn'[x].s = "closed" /\ conn'[x].up = <<>> /\ conn'[x].down = conn[x].down
            /\ (conn'[x].w = "closed" => conn'[x] = Dead)
            /\ conn'[x].cut => conn[x].cut
        <5> DEFINE r == Shut(x, "authentication timed out")
        <5>1. /\ r.w = conn[x].w /\ r.s = "closed" /\ r.up = <<>> /\ r.down = conn[x].down
              /\ (r.w = "closed" => r = Dead) /\ (r.cut => conn[x].cut)
            BY <1>1, <4>1, ShutFacts
        <5>2. conn'[x] = r
            BY <4>1
        <5> HIDE DEF r
        <5> QED BY <5>1, <5>2
      <4>3. entry'.sock # x /\ worker' = worker /\ EndsOK(x)
          BY <1>1, <2>1, <3>2
      <4> QED BY <4>2, <4>3 DEF EndsOK
    <3>3. CASE x # c /\ x # entry.sock
      <4>1. conn'[x] = conn[x] /\ entry'.sock # x /\ worker' = worker /\ EndsOK(x)
          BY <1>1, <2>1, <3>3
      <4> QED BY <3>3, <4>1, EndsStay
    <3> QED BY <3>1, <3>2, <3>3
  <2> QED BY <1>1, <2>1, <2>3 DEF Ends
<1>9. ASSUME NEW c \in Conns, ServerHears(c) PROVE Ends'
  <2>1. CASE entry.authed
    <3>1. /\ Becomes(c, [conn[c] EXCEPT !.up = Tail(conn[c].up)]) /\ UNCHANGED <<worker, entry, phase>>
          /\ conn[c].up # <<>>
        BY <1>9, <2>1, ServerHearsFacts
    <3>2. /\ conn'[c].w = conn[c].w /\ conn'[c].s = conn[c].s /\ conn'[c].cut = conn[c].cut
          /\ conn'[c].down = conn[c].down /\ ~conn[c].cut /\ conn[c].w = "open"
        BY <1>1, <3>1, ConnFacts DEF Becomes, Conn, EndsOK
    <3>3. ASSUME NEW x \in Conns PROVE EndsOK(x)'
      <4>1. CASE x # c
        <5>1. conn'[x] = conn[x]
            BY <1>1, <3>1, <3>2, <4>1 DEF Becomes
        <5> QED BY <1>1, <3>1, <3>2, <4>1, <5>1, EndsStay
      <4>2. CASE x = c
          BY <1>1, <3>1, <3>2, <4>2 DEF EndsOK
      <4> QED BY <4>1, <4>2
    <3> QED BY <1>1, <3>1, <3>3 DEF Ends
  <2>2. CASE ~entry.authed
    <3>1. PICK down \in Seq(Int) : Becomes(c, [conn[c] EXCEPT !.up = Tail(conn[c].up), !.down = down]) /\ (conn[c].cut => down = <<>>)
        BY <1>9, <2>2, TokenFacts
    <3>2. /\ conn[c].up # <<>> /\ conn[c].s = "bound" /\ conn[c].w = "open" /\ entry.sock = c /\ UNCHANGED <<worker, phase>>
          /\ entry'.sock = entry.sock /\ entry'.authed = TRUE /\ entry'.out = <<>> /\ phase = "serving"
        BY <1>1, <1>9, <2>2, TokenFacts, EntryFacts
    <3>3. /\ conn'[c].w = conn[c].w /\ conn'[c].s = conn[c].s /\ conn'[c].cut = conn[c].cut
          /\ conn'[c].down = down /\ ~conn[c].cut
        BY <1>1, <3>1, <3>2, ConnFacts DEF Becomes, Conn, EndsOK
    <3>4. ASSUME NEW x \in Conns PROVE EndsOK(x)'
      <4>1. CASE x # c
        <5>1. conn'[x] = conn[x]
            BY <1>1, <3>1, <3>2, <3>3, <4>1 DEF Becomes
        <5> QED BY <1>1, <3>1, <3>2, <3>3, <4>1, <5>1, EndsStay
      <4>2. CASE x = c
          BY <1>1, <3>1, <3>2, <3>3, <4>2 DEF EndsOK
      <4> QED BY <4>1, <4>2
    <3>5. Len(<<>>) <= MaxBuffer
        BY LinkAssumption
    <3> QED BY <1>1, <3>2, <3>4, <3>5 DEF Ends
  <2> QED BY <2>1, <2>2
<1>10. CASE ServerSends /\ ~Refuses({entry.sock}, "overflow")
  <2>1. CASE entry.authed
    <3> DEFINE c == entry.sock
    <3>1. PICK down \in Seq(Int) : Becomes(c, [conn[c] EXCEPT !.down = down]) /\ (conn[c].cut => down = conn[c].down)
        BY <1>10, <2>1, ServerSendsFacts
    <3>2. entry' = entry /\ c \in Conns /\ UNCHANGED <<worker, phase>>
        BY <1>10, <2>1, ServerSendsFacts
    <3>3. /\ conn'[c].w = conn[c].w /\ conn'[c].s = conn[c].s /\ conn'[c].cut = conn[c].cut
          /\ conn'[c].up = conn[c].up /\ conn'[c].down = down
        BY <1>1, <3>1, <3>2, ConnFacts DEF Becomes, Conn
    <3>4. conn[c].s = "bound" /\ conn[c].w # "opening" /\ conn[c] # Dead
        BY <1>1, <2>1, <3>2, DeadFacts DEF EndsOK
    <3>5. ASSUME NEW x \in Conns PROVE EndsOK(x)'
      <4>1. CASE x # c
        <5>1. conn'[x] = conn[x]
            BY <1>1, <2>1, <3>1, <3>2, <3>3, <3>4, <4>1 DEF Becomes
        <5> QED BY <1>1, <2>1, <3>1, <3>2, <3>3, <3>4, <4>1, <5>1, EndsStay
      <4>2. CASE x = c
          BY <1>1, <2>1, <3>1, <3>2, <3>3, <3>4, <4>2 DEF EndsOK
      <4> QED BY <4>1, <4>2
    <3> QED BY <1>1, <3>2, <3>5 DEF Ends
  <2>2. CASE ~entry.authed
    <3>1. /\ conn' = conn /\ phase = "serving" /\ entry'.sock = entry.sock /\ entry'.authed = FALSE
          /\ entry'.out = Append(entry.out, Sent + 1) /\ Len(entry.out) < MaxBuffer /\ UNCHANGED <<worker, phase>>
        BY <1>10, <2>2, ServerSendsFacts
    <3>2. entry.authed = FALSE /\ entry.out \in Seq(Int) /\ Sent + 1 \in Int
        BY <2>2, EntryFacts, SentFacts DEF Registration
    <3>3. Len(entry'.out) <= MaxBuffer
        BY <3>1, <3>2, AppendFacts, LinkAssumption
    <3>4. ASSUME NEW x \in Conns PROVE EndsOK(x)'
        BY <1>1, <2>2, <3>1, <3>2, EndsStay
    <3> QED BY <1>1, <3>1, <3>3, <3>4 DEF Ends
  <2> QED BY <2>1, <2>2
<1>11. CASE ServerRestarts
  <2>1. entry' = NoEntry /\ phase' = "adopting" /\ worker' = worker
      BY <1>11, RestartFacts
  <2>2. ASSUME NEW x \in Conns PROVE EndsOK(x)'
    <3>1. entry'.sock # x
        BY <1>1, <2>1, EntryFacts
    <3>2. CASE conn[x].s = "closed" /\ conn'[x] = conn[x]
        BY <1>1, <2>1, <3>1, <3>2 DEF EndsOK
    <3>3. CASE conn[x].w = "closed" /\ conn'[x] = Dead
        BY <1>1, <2>1, <3>1, <3>3, DeadFacts DEF EndsOK
    <3>4. CASE /\ conn'[x].w = conn[x].w /\ conn[x].w # "closed" /\ conn'[x].s = "closed" /\ conn'[x].cut
               /\ conn'[x].up = <<>> /\ conn'[x].down = <<>>
        BY <1>1, <2>1, <3>1, <3>4 DEF EndsOK
    <3> QED BY <1>11, <3>2, <3>3, <3>4, RestartFacts
  <2>3. Len(<<>>) <= MaxBuffer
      BY LinkAssumption
  <2> QED BY <1>1, <2>1, <2>2, <2>3, EntryFacts DEF Ends
<1>12. CASE AdoptionEnds
  <2>1. /\ entry'.sock = NoConn /\ entry'.authed = FALSE /\ entry'.out = <<>> /\ entry.sock = NoConn /\ phase' = "serving"
        /\ UNCHANGED <<conn, worker>>
      BY <1>12, AdoptedFacts
  <2>2. ASSUME NEW x \in Conns PROVE EndsOK(x)'
      BY <1>1, <2>1, EndsStay
  <2>3. Len(<<>>) <= MaxBuffer
      BY LinkAssumption
  <2> QED BY <1>1, <2>1, <2>2, <2>3 DEF Ends
<1> QED BY <1>2, <1>3, <1>4, <1>5, <1>6, <1>7, <1>8, <1>9, <1>10, <1>11, <1>12, RefusesEnds, StepCases

\* A step in which the worker and the server say nothing leaves what is on its
\* way to the server in order.
LEMMA UpwardQuiet ==
  ASSUME IInv, got' = got, worker'.sent = worker.sent, worker'.out = worker.out,
         worker'.state = "open" => worker.state = "open",
         \A x \in Conns : conn'[x].up = conn[x].up \/ conn'[x].up = <<>>,
         \A x \in Conns : entry'.sock = x /\ entry'.authed => entry.sock = x /\ entry.authed
  PROVE  Upward'
<1>1. Upward
    BY DEF IInv
<1>2. ASSUME NEW x \in Conns PROVE UpOK(x)'
  <2>1. UpOK(x)
      BY <1>1 DEF Upward
  <2>2. CASE conn'[x].up = <<>>
      BY <2>2, ShortFacts DEF UpOK
  <2>3. CASE conn'[x].up = conn[x].up
      BY <2>1, <2>3 DEF UpOK
  <2> QED BY <2>2, <2>3
<1> QED BY <1>1, <1>2 DEF Upward

\* What the worker sends stays above all that was given.
LEMMA SendsUpward ==
  ASSUME IInv, WorkerSends
  PROVE  Upward'
<1> DEFINE n == worker.sent + 1
<1>1. /\ Types /\ Upward /\ worker.sent \in Nat /\ n \in Int /\ worker'.sent = n /\ got' = got /\ entry' = entry
      /\ worker'.state = worker.state /\ worker.out \in Seq(Int) /\ got \in Seq(Int) /\ Token = -1 /\ Hello = 0
    BY WorkerSendsFacts DEF IInv, Types, Client, Token, Hello
<1>2. Elems(got) \subseteq 1..worker.sent /\ Elems(worker.out) \subseteq 1..worker.sent /\ Increasing(worker.out)
    BY <1>1 DEF Upward
<1>3. Elems(got) \subseteq 1..n /\ Elems(worker.out) \subseteq 1..n /\ n \in 1..n
    BY <1>1, <1>2
<1>4. ASSUME NEW x \in Conns, conn'[x].up = conn[x].up PROVE UpOK(x)'
  <2>1. UpOK(x) /\ Elems(conn[x].up) \subseteq Token..worker.sent
      BY <1>1 DEF Upward, UpOK
  <2>2. Elems(conn[x].up) \subseteq Token..n
      BY <1>1, <2>1
  <2> QED BY <1>1, <1>4, <2>1, <2>2 DEF UpOK
<1>5. CASE worker.state # "open"
  <2>1. conn' = conn /\ worker'.out = Append(worker.out, n)
      BY <1>5, WorkerSendsFacts
  <2>2. /\ Elems(Append(worker.out, n)) = Elems(worker.out) \cup {n}
        /\ Increasing(worker.out) /\ (\A a \in Elems(worker.out) : a < n) => Increasing(Append(worker.out, n))
      BY <1>1, AppendFacts
  <2>3. \A a \in Elems(worker.out) : a < n
      BY <1>1, <1>2
  <2>4. \A a \in Elems(got) : a < n
      BY <1>1, <1>2
  <2>5. Elems(worker'.out) = Elems(worker.out) \cup {n} /\ Increasing(worker'.out)
      BY <1>2, <2>1, <2>2, <2>3
  <2>6. Below(got, worker.out)
      BY <1>1 DEF Upward
  <2>7. Below(got, worker'.out)
      BY <2>4, <2>5, <2>6 DEF Below
  <2>8. \A x \in Conns : UpOK(x)'
      BY <1>4, <2>1
  <2>9. Elems(worker'.out) \subseteq 1..n
      BY <1>3, <2>5
  <2> QED BY <1>1, <1>3, <1>5, <2>5, <2>7, <2>8, <2>9 DEF Upward
<1>6. CASE worker.state = "open"
  <2> DEFINE c == worker.sock
  <2>1. c \in Conns /\ worker'.out = worker.out
      BY <1>6, WorkerSendsFacts
  <2>2. PICK up \in Seq(Int) : /\ Becomes(c, [conn[c] EXCEPT !.up = up])
                               /\ Elems(up) \subseteq Elems(conn[c].up) \cup {n} /\ Increasing(up)
      BY <1>6, WorkerSendsFacts
  <2>3. conn[c] \in Conn
      BY <1>1, <2>1, ConnFacts
  <2>4. conn'[c].up = up
      BY <2>2, <2>3 DEF Becomes, Conn
  <2>5. ASSUME NEW x \in Conns PROVE UpOK(x)'
    <3>1. CASE x # c
      <4>1. conn'[x] = conn[x]
          BY <2>2, <3>1 DEF Becomes
      <4> QED BY <1>4, <4>1
    <3>2. CASE x = c
      <4>1. /\ Elems(conn[c].up) \subseteq Token..worker.sent
            /\ \A a \in Elems(got), b \in Elems(conn[c].up) : b > Hello => a < b
            /\ entry.sock = c /\ entry.authed => Token \notin Elems(conn[c].up)
          BY <1>1, <2>1 DEF Upward, UpOK
      <4>2. Elems(up) \subseteq Token..n
          BY <1>1, <2>2, <4>1
      <4>3. \A a \in Elems(got) : a < n
          BY <1>1, <1>2
      <4>4. \A a \in Elems(got), b \in Elems(up) : b > Hello => a < b
          BY <2>2, <4>1, <4>3
      <4>5. Token # n
          BY <1>1
      <4>6. entry.sock = c /\ entry.authed => Token \notin Elems(up)
          BY <2>2, <4>1, <4>5
      <4> QED BY <1>1, <2>2, <2>4, <3>2, <4>2, <4>4, <4>6 DEF UpOK
    <3> QED BY <3>1, <3>2
  <2>6. worker.out = <<>> /\ Increasing(got) /\ Below(got, worker.out)
      BY <1>1, <1>6 DEF Upward
  <2> QED BY <1>1, <1>2, <1>3, <2>1, <2>5, <2>6 DEF Upward
<1>7. Increasing(got)
    BY <1>1 DEF Upward
<1> QED BY <1>5, <1>6

\* Only the worker's socket carries anything.
LEMMA OneSocket ==
  ASSUME IInv, NEW x \in Conns, worker.sock # x
  PROVE  conn[x].up = <<>> /\ conn[x].down = <<>>
<1>1. EndsOK(x)
    BY DEF IInv, Ends
<1> QED BY <1>1, DeadFacts DEF EndsOK

\* What the server is given.
LEMMA HearsUpward ==
  ASSUME IInv, NEW c \in Conns, ServerHears(c), entry.authed
  PROVE  Upward'
<1> DEFINE up == conn[c].up
           m == Head(up)
<1>1. /\ Types /\ Upward /\ EndsOK(c) /\ worker.sent \in Nat /\ got \in Seq(Int) /\ Token = -1 /\ Hello = 0
    BY DEF IInv, Types, Client, Token, Hello, Ends
<1>2. /\ Becomes(c, [conn[c] EXCEPT !.up = Tail(up)]) /\ up \in Seq(Int) /\ up # <<>> /\ conn[c].s = "bound"
      /\ got' = (IF m = Hello THEN got ELSE Append(got, m)) /\ worker' = worker /\ entry' = entry
    BY ServerHearsFacts
<1>3. entry.sock = c /\ conn[c].w = "open" /\ worker.sock = c /\ worker.state = "open"
    BY <1>1, <1>2 DEF EndsOK
<1>4. worker.out = <<>> /\ UpOK(c)
    BY <1>1, <1>3 DEF Upward
<1>5. /\ Increasing(up) /\ Elems(up) \subseteq Token..worker.sent /\ Token \notin Elems(up)
      /\ \A a \in Elems(got), b \in Elems(up) : b > Hello => a < b
    BY <1>3, <1>4 DEF UpOK
<1>6. conn[c] \in Conn
    BY <1>1, ConnFacts
<1>7. conn'[c].up = Tail(up)
    BY <1>2, <1>6 DEF Becomes, Conn
<1>8. /\ m \in Elems(up) /\ m \in Int /\ Elems(Tail(up)) \subseteq Elems(up) /\ Increasing(Tail(up))
      /\ \A a \in Elems(Tail(up)) : m < a
    BY <1>2, <1>5, TailFacts
<1>9. m \in Hello..worker.sent
    BY <1>1, <1>5, <1>8
<1>10. /\ Increasing(got') /\ Elems(got') \subseteq Elems(got) \cup {m}
       /\ m = Hello => Elems(got') = Elems(got)
  <2>1. CASE m = Hello
      BY <1>1, <1>2, <2>1 DEF Upward
  <2>2. CASE m # Hello
    <3>1. /\ Elems(Append(got, m)) = Elems(got) \cup {m}
          /\ Increasing(got) /\ (\A a \in Elems(got) : a < m) => Increasing(Append(got, m))
        BY <1>1, <1>8, AppendFacts
    <3>2. m > Hello
        BY <1>1, <1>9, <2>2
    <3>3. \A a \in Elems(got) : a < m
        BY <1>5, <1>8, <3>2
    <3>4. Increasing(got)
        BY <1>1 DEF Upward
    <3> QED BY <1>2, <2>2, <3>1, <3>3, <3>4
  <2> QED BY <2>1, <2>2
<1> HIDE DEF m, up
<1>11. Elems(got') \subseteq 1..worker.sent
  <2>1. Elems(got) \subseteq 1..worker.sent
      BY <1>1 DEF Upward
  <2>2. CASE m = Hello
      BY <1>10, <2>1, <2>2
  <2>3. CASE m # Hello
      BY <1>1, <1>9, <1>10, <2>1, <2>3
  <2> QED BY <2>2, <2>3
<1>12. ASSUME NEW x \in Conns PROVE UpOK(x)'
  <2>1. CASE x # c
    <3>1. conn'[x] = conn[x] /\ conn[x].up = <<>>
        BY <1>2, <1>3, <2>1, OneSocket DEF Becomes
    <3> QED BY <3>1, ShortFacts DEF UpOK
  <2>2. CASE x = c
    <3>1. \A a \in Elems(got'), b \in Elems(Tail(up)) : b > Hello => a < b
        BY <1>5, <1>8, <1>10
    <3>2. Elems(Tail(up)) \subseteq Token..worker.sent /\ Token \notin Elems(Tail(up))
        BY <1>5, <1>8
    <3> QED BY <1>2, <1>7, <1>8, <2>2, <3>1, <3>2 DEF UpOK
  <2> QED BY <2>1, <2>2
<1>13. Below(got', worker.out) /\ Increasing(worker.out) /\ Elems(worker.out) \subseteq 1..worker.sent
    BY <1>4, ShortFacts DEF Below
<1> QED BY <1>2, <1>4, <1>10, <1>11, <1>12, <1>13 DEF Upward

\* The token is given to nobody.
LEMMA TokenUpward ==
  ASSUME IInv, NEW c \in Conns, ServerHears(c), ~entry.authed
  PROVE  Upward'
<1> DEFINE up == conn[c].up
<1>1. Types /\ Upward /\ Token = -1
    BY DEF IInv, Token
<1>2. PICK down \in Seq(Int) : Becomes(c, [conn[c] EXCEPT !.up = Tail(up), !.down = down])
    BY TokenFacts
<1>3. /\ up \in Seq(Int) /\ up # <<>> /\ Head(up) = Token /\ entry.sock = c /\ entry'.sock = entry.sock
      /\ worker' = worker /\ got' = got
    BY TokenFacts
<1>4. conn[c] \in Conn
    BY <1>1, ConnFacts
<1>5. conn'[c].up = Tail(up)
    BY <1>2, <1>4 DEF Becomes, Conn
<1>6. /\ Increasing(up) /\ Elems(up) \subseteq Token..worker.sent
      /\ \A a \in Elems(got), b \in Elems(up) : b > Hello => a < b
    BY <1>1 DEF Upward, UpOK
<1>7. Elems(Tail(up)) \subseteq Elems(up) /\ Increasing(Tail(up)) /\ \A a \in Elems(Tail(up)) : Token < a
    BY <1>3, <1>6, TailFacts
<1>8. Token \notin Elems(Tail(up))
    BY <1>1, <1>7
<1>9. ASSUME NEW x \in Conns PROVE UpOK(x)'
  <2>1. CASE x # c
    <3>1. conn'[x] = conn[x] /\ UpOK(x) /\ entry'.sock # x
        BY <1>1, <1>2, <1>3, <2>1 DEF Becomes, Upward
    <3> QED BY <1>3, <3>1 DEF UpOK
  <2>2. CASE x = c
      BY <1>3, <1>5, <1>6, <1>7, <1>8, <2>2 DEF UpOK
  <2> QED BY <2>1, <2>2
<1> QED BY <1>1, <1>3, <1>9 DEF Upward

\* The hello and what was buffered come after the token.
LEMMA OpenUpward ==
  ASSUME IInv, NEW c \in Conns, Open(c)
  PROVE  Upward'
<1>1. /\ Types /\ Upward /\ EndsOK(c) /\ worker.sent \in Nat /\ Token = -1 /\ Hello = 0
    BY DEF IInv, Types, Client, Token, Hello, Ends
<1>2. PICK up \in Seq(Int) : /\ Becomes(c, [conn[c] EXCEPT !.w = "open", !.up = up])
                             /\ Increasing(up) /\ Elems(up) \subseteq {Token, Hello} \cup Elems(worker.out)
    BY OpenFacts
<1>3. /\ conn[c].w = "opening" /\ worker'.out = <<>> /\ worker'.sent = worker.sent /\ got' = got /\ entry' = entry
    BY OpenFacts
<1>4. conn[c] \in Conn
    BY <1>1, ConnFacts
<1>5. conn'[c].up = up
    BY <1>2, <1>4 DEF Becomes, Conn
<1>6. ~(entry.sock = c /\ entry.authed)
    BY <1>1, <1>3 DEF EndsOK
<1>7. Elems(worker.out) \subseteq 1..worker.sent /\ Below(got, worker.out)
    BY <1>1 DEF Upward
<1>8. Elems(up) \subseteq Token..worker.sent
    BY <1>1, <1>2, <1>7
<1>9. \A a \in Elems(got), b \in Elems(up) : b > Hello => a < b
    BY <1>1, <1>2, <1>7 DEF Below
<1>10. ASSUME NEW x \in Conns PROVE UpOK(x)'
  <2>1. CASE x # c
    <3>1. conn'[x] = conn[x] /\ UpOK(x)
        BY <1>1, <1>2, <2>1 DEF Becomes, Upward
    <3> QED BY <1>3, <3>1 DEF UpOK
  <2>2. CASE x = c
      BY <1>2, <1>3, <1>5, <1>6, <1>8, <1>9, <2>2 DEF UpOK
  <2> QED BY <2>1, <2>2
<1>11. Increasing(<<>>) /\ Elems(<<>>) = {}
    BY ShortFacts
<1> QED BY <1>1, <1>3, <1>10, <1>11 DEF Upward, Below

\* The streams of the connections, and the registration, after the other steps.
LEMMA QuietConns ==
  ASSUME IInv, NEW c \in Conns,
         Drop(c) \/ Connect(c) \/ WorkerSeesClose(c) \/ (Bind(c) /\ entry.known /\ ~entry.authed)
  PROVE  /\ \A x \in Conns : /\ conn'[x].up = conn[x].up \/ conn'[x].up = <<>>
                             /\ conn'[x].down = conn[x].down \/ conn'[x].down = <<>>
         /\ got' = got /\ heard' = heard /\ worker'.sent = worker.sent /\ worker'.out = worker.out
         /\ worker'.state = "open" => worker.state = "open"
         /\ entry'.authed => entry' = entry
         /\ entry'.out = entry.out /\ budget'.down = budget.down
<1>1. Types /\ conn[c] \in Conn /\ <<>> \in Seq(Int) /\ \A x \in Conns : EndsOK(x)
    BY ConnFacts DEF IInv, Types, Ends
<1> DEFINE Q(r) == /\ r.up = conn[c].up \/ r.up = <<>>
                   /\ r.down = conn[c].down \/ r.down = <<>>
<1>2. ASSUME NEW r, Becomes(c, r), Q(r)
      PROVE  \A x \in Conns : /\ conn'[x].up = conn[x].up \/ conn'[x].up = <<>>
                              /\ conn'[x].down = conn[x].down \/ conn'[x].down = <<>>
    BY <1>2 DEF Becomes
<1>3. CASE Drop(c)
  <2> DEFINE r == [conn[c] EXCEPT !.cut = TRUE, !.up = <<>>, !.down = <<>>]
  <2>1. Q(r)
      BY <1>1 DEF Conn
  <2>2. Becomes(c, r)
      BY <1>3, DropFacts
  <2> HIDE DEF r, Q
  <2> QED BY <1>2, <1>3, <2>1, <2>2, DropFacts
<1>4. CASE Connect(c)
  <2> DEFINE r == [Dead EXCEPT !.w = "opening", !.s = "asked"]
  <2>1. Q(r)
      BY DeadFacts DEF Conn
  <2>2. Becomes(c, r)
      BY <1>4, ConnectFacts
  <2> HIDE DEF r, Q
  <2> QED BY <1>2, <1>4, <2>1, <2>2, ConnectFacts
<1>5. CASE WorkerSeesClose(c)
  <2>1. Q(Dead) /\ Q([conn[c] EXCEPT !.w = "closed"])
      BY <1>1, DeadFacts DEF Conn
  <2> HIDE DEF Q
  <2>2. \A x \in Conns : /\ conn'[x].up = conn[x].up \/ conn'[x].up = <<>>
                         /\ conn'[x].down = conn[x].down \/ conn'[x].down = <<>>
      BY <1>2, <1>5, <2>1, WorkerSeesCloseFacts
  <2> QED BY <1>5, <2>2, WorkerSeesCloseFacts
<1>6. CASE Bind(c) /\ entry.known /\ ~entry.authed
  <2>1. /\ conn'[c] = [conn[c] EXCEPT !.s = "bound"]
        /\ \A x \in Conns : x # c => conn'[x] = IF x = entry.sock THEN Shut(x, "authentication timed out") ELSE conn[x]
      BY <1>6, BindAcceptedFacts
  <2>2. ASSUME NEW x \in Conns
        PROVE  /\ conn'[x].up = conn[x].up \/ conn'[x].up = <<>>
               /\ conn'[x].down = conn[x].down \/ conn'[x].down = <<>>
    <3>1. CASE x = c
        BY <1>1, <2>1, <3>1 DEF Conn
    <3>2. CASE x # c /\ x = entry.sock
      <4> DEFINE r == Shut(x, "authentication timed out")
      <4>1. r.up = <<>> /\ r.down = conn[x].down
          BY <1>1, ShutFacts DEF Codes, Final
      <4>2. conn'[x] = r
          BY <2>1, <3>2
      <4> HIDE DEF r
      <4> QED BY <4>1, <4>2
    <3>3. CASE x # c /\ x # entry.sock
        BY <2>1, <3>3
    <3> QED BY <3>1, <3>2, <3>3
  <2> QED BY <1>6, <2>2, BindAcceptedFacts
<1> QED BY <1>3, <1>4, <1>5, <1>6

LEMMA QuietServer ==
  ASSUME IInv, \/ \E X \in SUBSET (Conns \cup {NoConn}), code \in Codes : Refuses(X, code)
               \/ ServerRestarts \/ AdoptionEnds
  PROVE  /\ \A x \in Conns : /\ conn'[x].up = conn[x].up \/ conn'[x].up = <<>>
                             /\ conn'[x].down = conn[x].down \/ conn'[x].down = <<>>
         /\ got' = got /\ heard' = heard /\ worker' = worker
         /\ \A x \in Conns : entry'.sock = x /\ entry'.authed => entry.sock = x /\ entry.authed
         /\ entry'.out = entry.out \/ entry'.out = <<>>
         /\ budget' \in Bounds /\ budget'.down <= budget.down
<1>1. Types /\ budget \in Bounds /\ budget.down \in Int /\ \A x \in Conns : EndsOK(x) /\ x # NoConn
    BY EntryFacts, SentFacts DEF IInv
<1>2. ASSUME NEW X \in SUBSET (Conns \cup {NoConn}), NEW code \in Codes, Refuses(X, code)
      PROVE  \A x \in Conns : /\ conn'[x].up = conn[x].up \/ conn'[x].up = <<>>
                              /\ conn'[x].down = conn[x].down \/ conn'[x].down = <<>>
  <2> TAKE x \in Conns
  <2>1. CASE x \in X
    <3> DEFINE r == Shut(x, code)
    <3>1. r.up = <<>> /\ r.down = conn[x].down
        BY <1>1, ShutFacts
    <3>2. conn'[x] = r
        BY <1>2, <2>1 DEF Refuses, Shuts
    <3> HIDE DEF r
    <3> QED BY <3>1, <3>2
  <2>2. CASE x \notin X
      BY <1>2, <2>2 DEF Refuses, Shuts
  <2> QED BY <2>1, <2>2
<1>3. ASSUME NEW X \in SUBSET (Conns \cup {NoConn}), NEW code \in Codes, Refuses(X, code)
      PROVE  \A x \in Conns : entry'.sock = x /\ entry'.authed => entry.sock = x /\ entry.authed
    BY <1>1, <1>3 DEF Refuses, Loses
<1>4. CASE \E X \in SUBSET (Conns \cup {NoConn}), code \in Codes : Refuses(X, code)
    BY <1>2, <1>3, <1>4 DEF Refuses, Loses
<1>5. CASE ServerRestarts
  <2>1. \A x \in Conns : /\ conn'[x].up = conn[x].up \/ conn'[x].up = <<>>
                         /\ conn'[x].down = conn[x].down \/ conn'[x].down = <<>>
      BY <1>5, RestartFacts, DeadFacts
  <2>2. entry'.authed = FALSE /\ entry'.out = <<>>
      BY <1>5, RestartFacts, EntryFacts
  <2> QED BY <1>1, <1>5, <2>1, <2>2, RestartFacts
<1>6. CASE AdoptionEnds
    BY <1>1, <1>6, AdoptedFacts
<1> QED BY <1>4, <1>5, <1>6

\* Upward.
LEMMA UpwardStep ==
  ASSUME IInv, Next
  PROVE  Upward'
<1>1. Types /\ \A x \in Conns : x # NoConn
    BY EntryFacts DEF IInv
<1>2. ASSUME NEW c \in Conns, Drop(c) \/ Connect(c) \/ WorkerSeesClose(c) \/ (Bind(c) /\ entry.known /\ ~entry.authed)
      PROVE  Upward'
    BY <1>2, QuietConns, UpwardQuiet
<1>3. ASSUME NEW c \in Conns, WorkerHears(c) PROVE Upward'
  <2>1. Becomes(c, [conn[c] EXCEPT !.down = Tail(conn[c].down)]) /\ worker' = worker /\ entry' = entry /\ got' = got
      BY <1>3, WorkerHearsFacts
  <2>2. conn[c] \in Conn
      BY <1>1, ConnFacts
  <2>3. conn'[c].up = conn[c].up
      BY <2>1, <2>2 DEF Becomes, Conn
  <2>4. \A x \in Conns : conn'[x].up = conn[x].up
      BY <2>1, <2>3 DEF Becomes
  <2> QED BY <2>1, <2>4, UpwardQuiet
<1>4. CASE ServerSends /\ ~Refuses({entry.sock}, "overflow")
  <2>1. worker' = worker /\ got' = got
      BY <1>4, ServerSendsFacts
  <2>2. CASE entry.authed
    <3> DEFINE c == entry.sock
    <3>1. PICK down \in Seq(Int) : Becomes(c, [conn[c] EXCEPT !.down = down])
        BY <1>4, <2>2, ServerSendsFacts
    <3>2. entry' = entry /\ c \in Conns
        BY <1>4, <2>2, ServerSendsFacts
    <3>3. conn[c] \in Conn
        BY <1>1, <3>2, ConnFacts
    <3>4. conn'[c].up = conn[c].up
        BY <3>1, <3>3 DEF Becomes, Conn
    <3>5. \A x \in Conns : conn'[x].up = conn[x].up
        BY <3>1, <3>4 DEF Becomes
    <3> QED BY <2>1, <3>2, <3>5, UpwardQuiet
  <2>3. CASE ~entry.authed
    <3>1. conn' = conn /\ entry'.authed = FALSE
        BY <1>4, <2>3, ServerSendsFacts
    <3> QED BY <2>1, <3>1, UpwardQuiet
  <2> QED BY <2>2, <2>3
<1>5. CASE \/ \E X \in SUBSET (Conns \cup {NoConn}), code \in Codes : Refuses(X, code)
           \/ ServerRestarts \/ AdoptionEnds
    BY <1>5, QuietServer, UpwardQuiet
<1> QED BY <1>2, <1>3, <1>4, <1>5, StepCases, SendsUpward, HearsUpward, TokenUpward, OpenUpward

\* A step in which nothing more is on its way to the worker.
LEMMA DownwardQuiet ==
  ASSUME IInv, heard' = heard, budget' \in Bounds, budget'.down <= budget.down,
         entry'.out = entry.out \/ entry'.out = <<>>,
         \A x \in Conns : conn'[x].down = conn[x].down \/ conn'[x].down = <<>>
  PROVE  Downward'
<1>1. Downward /\ Sent \in Nat /\ Sent' \in Nat /\ Sent <= Sent'
  <2>1. budget'.down \in 0..MaxDown
      BY DEF Bounds
  <2> QED BY <2>1, SentFacts DEF IInv, Sent
<1>2. 1..Sent \subseteq 1..Sent' /\ Elems(<<>>) = {} /\ Increasing(<<>>)
    BY <1>1, ShortFacts
<1> DEFINE m == Sent
           n == Sent'
<1>3. ASSUME NEW x \in Conns PROVE DownOK(x)'
  <2>1. /\ Increasing(conn[x].down) /\ Elems(conn[x].down) \subseteq 1..Sent
        /\ Below(heard, conn[x].down) /\ Below(conn[x].down, entry.out)
      BY <1>1 DEF Downward, DownOK
  <2>2. Increasing(conn'[x].down) /\ Elems(conn'[x].down) \subseteq Elems(conn[x].down)
      BY <1>2, <2>1
  <2>3. Elems(entry'.out) \subseteq Elems(entry.out)
      BY <1>2
  <2>4. Below(heard, conn'[x].down) /\ Below(conn'[x].down, entry'.out)
      BY <2>1, <2>2, <2>3 DEF Below
  <2>5. Elems(conn'[x].down) \subseteq 1..Sent'
      BY <1>2, <2>1, <2>2
  <2> QED BY <2>2, <2>4, <2>5 DEF DownOK
<1>4. /\ Increasing(heard) /\ Elems(heard) \subseteq 1..Sent
      /\ Increasing(entry.out) /\ Elems(entry.out) \subseteq 1..Sent /\ Below(heard, entry.out)
    BY <1>1 DEF Downward
<1>5. Increasing(entry'.out) /\ Elems(entry'.out) \subseteq Elems(entry.out)
    BY <1>2, <1>4
<1>6. Below(heard, entry'.out)
    BY <1>4, <1>5 DEF Below
<1>7. Elems(heard) \subseteq 1..Sent' /\ Elems(entry'.out) \subseteq 1..Sent'
    BY <1>2, <1>4, <1>5
<1> QED BY <1>3, <1>4, <1>5, <1>6, <1>7 DEF Downward

\* What the worker is given.
LEMMA HearsDownward ==
  ASSUME IInv, NEW c \in Conns, WorkerHears(c)
  PROVE  Downward'
<1> DEFINE down == conn[c].down
           m == Head(down)
<1>1. Types /\ Downward /\ heard \in Seq(Int)
    BY DEF IInv, Types
<1>2. /\ Becomes(c, [conn[c] EXCEPT !.down = Tail(down)]) /\ down \in Seq(Int) /\ down # <<>> /\ worker.sock = c
      /\ heard' = Append(heard, m) /\ UNCHANGED <<entry, budget>>
    BY WorkerHearsFacts
<1>3. conn[c] \in Conn
    BY <1>1, ConnFacts
<1>4. conn'[c].down = Tail(down) /\ Sent' = Sent
    BY <1>2, <1>3 DEF Becomes, Conn, Sent
<1>5. Increasing(down) /\ Elems(down) \subseteq 1..Sent /\ Below(heard, down) /\ Below(down, entry.out)
    BY <1>1 DEF Downward, DownOK
<1>6. /\ m \in Elems(down) /\ m \in Int /\ Elems(Tail(down)) \subseteq Elems(down) /\ Increasing(Tail(down))
      /\ \A a \in Elems(Tail(down)) : m < a
    BY <1>2, <1>5, TailFacts
<1> HIDE DEF m, down
<1>7. \A a \in Elems(heard) : a < m
    BY <1>5, <1>6 DEF Below
<1>8. /\ Increasing(heard) /\ Elems(heard) \subseteq 1..Sent
      /\ Increasing(entry.out) /\ Elems(entry.out) \subseteq 1..Sent /\ Below(heard, entry.out)
    BY <1>1 DEF Downward
<1>9. /\ Elems(Append(heard, m)) = Elems(heard) \cup {m}
      /\ Increasing(heard) /\ (\A a \in Elems(heard) : a < m) => Increasing(Append(heard, m))
    BY <1>1, <1>6, AppendFacts
<1>10. Increasing(heard') /\ Elems(heard') = Elems(heard) \cup {m} /\ Elems(heard') \subseteq 1..Sent
    BY <1>2, <1>5, <1>6, <1>7, <1>8, <1>9
<1>11. Below(heard', entry.out)
    BY <1>5, <1>6, <1>8, <1>10 DEF Below
<1>12. ASSUME NEW x \in Conns PROVE DownOK(x)'
  <2>1. CASE x # c
    <3>1. conn'[x] = conn[x] /\ conn[x].down = <<>>
        BY <1>2, <2>1, OneSocket DEF Becomes
    <3> QED BY <3>1, ShortFacts DEF DownOK, Below
  <2>2. CASE x = c
    <3>1. Below(heard', Tail(down)) /\ Below(Tail(down), entry.out)
        BY <1>5, <1>6, <1>10 DEF Below
    <3>2. Elems(Tail(down)) \subseteq 1..Sent
        BY <1>5, <1>6
    <3> QED BY <1>2, <1>4, <1>6, <2>2, <3>1, <3>2 DEF DownOK
  <2> QED BY <2>1, <2>2
<1> QED BY <1>2, <1>4, <1>8, <1>10, <1>11, <1>12 DEF Downward

\* The buffer goes out when the worker has authenticated.
LEMMA TokenDownward ==
  ASSUME IInv, NEW c \in Conns, ServerHears(c), ~entry.authed
  PROVE  Downward'
<1>1. Types /\ Downward
    BY DEF IInv
<1>2. PICK down \in Seq(Int) : /\ Becomes(c, [conn[c] EXCEPT !.up = Tail(conn[c].up), !.down = down])
                               /\ Increasing(down) /\ Elems(down) \subseteq Elems(entry.out)
    BY TokenFacts
<1>3. heard' = heard /\ budget' = budget /\ entry'.out = <<>> /\ conn[c].up \in Seq(Int) /\ conn[c].up # <<>>
    BY TokenFacts
<1>4. conn[c] \in Conn
    BY <1>1, ConnFacts
<1>5. conn'[c].down = down /\ Sent' = Sent
    BY <1>2, <1>3, <1>4 DEF Becomes, Conn, Sent
<1>6. /\ Increasing(heard) /\ Elems(heard) \subseteq 1..Sent /\ Elems(entry.out) \subseteq 1..Sent /\ Below(heard, entry.out)
    BY <1>1 DEF Downward
<1>7. Elems(<<>>) = {} /\ Increasing(<<>>)
    BY ShortFacts
<1>8. ASSUME NEW x \in Conns PROVE DownOK(x)'
  <2>1. CASE x # c
    <3>1. conn'[x] = conn[x] /\ DownOK(x)
        BY <1>1, <1>2, <2>1 DEF Becomes, Downward
    <3> QED BY <1>3, <1>5, <1>7, <3>1 DEF DownOK, Below
  <2>2. CASE x = c
    <3>1. Below(heard, down) /\ Below(down, <<>>)
        BY <1>2, <1>6, <1>7 DEF Below
    <3>2. Elems(down) \subseteq 1..Sent
        BY <1>2, <1>6
    <3> QED BY <1>2, <1>3, <1>5, <2>2, <3>1, <3>2 DEF DownOK
  <2> QED BY <2>1, <2>2
<1>9. Below(heard, <<>>)
    BY <1>7 DEF Below
<1> QED BY <1>3, <1>5, <1>6, <1>7, <1>8, <1>9 DEF Downward

\* What the server sends stays above all that was given.
LEMMA SendsDownward ==
  ASSUME IInv, ServerSends, ~Refuses({entry.sock}, "overflow")
  PROVE  Downward'
<1> DEFINE n == Sent + 1
<1>0. Sent \in Nat /\ Sent' = n /\ heard' = heard
    BY SentFacts, ServerSendsFacts
<1>1. Types /\ Downward /\ Sent \in Nat /\ n \in Int /\ entry.out \in Seq(Int) /\ Sent' = n /\ heard' = heard
    BY <1>0, EntryFacts DEF IInv, Registration
<1>2. /\ Increasing(heard) /\ Elems(heard) \subseteq 1..Sent
      /\ Increasing(entry.out) /\ Elems(entry.out) \subseteq 1..Sent /\ Below(heard, entry.out)
    BY <1>1 DEF Downward
<1>3. 1..Sent \subseteq 1..n /\ n \in 1..n /\ \A a \in 1..Sent : a < n
    BY <1>1
<1>4. \A x \in Conns : /\ Increasing(conn[x].down) /\ Elems(conn[x].down) \subseteq 1..Sent
                       /\ Below(heard, conn[x].down) /\ Below(conn[x].down, entry.out)
    BY <1>1 DEF Downward, DownOK
<1> HIDE DEF n
<1>5. CASE entry.authed
  <2> DEFINE c == entry.sock
  <2>1. PICK down \in Seq(Int) : /\ Becomes(c, [conn[c] EXCEPT !.down = down])
                                 /\ Increasing(down) /\ Elems(down) \subseteq Elems(conn[c].down) \cup {n}
      BY <1>5, ServerSendsFacts DEF n
  <2>2. entry' = entry /\ c \in Conns /\ entry.out = <<>>
      BY <1>5, ServerSendsFacts DEF IInv, Ends
  <2>3. conn[c] \in Conn
      BY <1>1, <2>2, ConnFacts
  <2>4. conn'[c].down = down
      BY <2>1, <2>3 DEF Becomes, Conn
  <2>5. ASSUME NEW x \in Conns PROVE DownOK(x)'
    <3>1. CASE x # c
      <4>1. conn'[x] = conn[x]
          BY <2>1, <3>1 DEF Becomes
      <4>2. Elems(conn[x].down) \subseteq 1..n
          BY <1>3, <1>4
      <4> QED BY <1>1, <1>4, <2>2, <4>1, <4>2 DEF DownOK
    <3>2. CASE x = c
      <4>1. Below(heard, down)
          BY <1>2, <1>3, <1>4, <2>1, <2>2 DEF Below
      <4>2. Below(down, entry.out)
          BY <2>2, ShortFacts DEF Below
      <4>3. Elems(down) \subseteq 1..n
          BY <1>3, <1>4, <2>1, <2>2
      <4> QED BY <1>1, <2>1, <2>2, <2>4, <3>2, <4>1, <4>2, <4>3 DEF DownOK
    <3> QED BY <3>1, <3>2
  <2>6. Elems(heard) \subseteq 1..n /\ Elems(entry.out) \subseteq 1..n
      BY <1>2, <1>3
  <2> QED BY <1>1, <1>2, <2>2, <2>5, <2>6 DEF Downward
<1>6. CASE ~entry.authed
  <2>1. conn' = conn /\ entry'.out = Append(entry.out, n)
      BY <1>6, ServerSendsFacts DEF n
  <2>2. /\ Elems(Append(entry.out, n)) = Elems(entry.out) \cup {n}
        /\ Increasing(entry.out) /\ (\A a \in Elems(entry.out) : a < n) => Increasing(Append(entry.out, n))
      BY <1>1, AppendFacts
  <2>3. Increasing(entry'.out) /\ Elems(entry'.out) = Elems(entry.out) \cup {n}
      BY <1>2, <1>3, <2>1, <2>2
  <2>4. ASSUME NEW x \in Conns PROVE DownOK(x)'
    <3>1. Below(conn[x].down, entry'.out)
        BY <1>3, <1>4, <2>3 DEF Below
    <3>2. Elems(conn[x].down) \subseteq 1..n
        BY <1>3, <1>4
    <3> QED BY <1>1, <1>4, <2>1, <3>1, <3>2 DEF DownOK
  <2>5. Below(heard, entry'.out)
      BY <1>2, <1>3, <2>3 DEF Below
  <2>6. Elems(heard) \subseteq 1..n /\ Elems(entry'.out) \subseteq 1..n
      BY <1>2, <1>3, <2>3
  <2> QED BY <1>1, <1>2, <2>3, <2>4, <2>5, <2>6 DEF Downward
<1> QED BY <1>5, <1>6

\* Downward.
LEMMA DownwardStep ==
  ASSUME IInv, Next
  PROVE  Downward'
<1>1. Types /\ budget \in Bounds /\ budget.down \in Int /\ budget.down <= budget.down
    BY SentFacts DEF IInv
<1>2. ASSUME NEW c \in Conns, Drop(c) \/ Connect(c) \/ WorkerSeesClose(c) \/ (Bind(c) /\ entry.known /\ ~entry.authed)
      PROVE  Downward'
  <2>1. Types'
      BY TypesStep
  <2> QED BY <1>1, <1>2, <2>1, QuietConns, DownwardQuiet DEF Types
<1>3. ASSUME NEW c \in Conns, Open(c) PROVE Downward'
  <2>1. PICK up \in Seq(Int) : Becomes(c, [conn[c] EXCEPT !.w = "open", !.up = up])
      BY <1>3, OpenFacts
  <2>2. conn[c] \in Conn
      BY <1>1, ConnFacts
  <2>3. conn'[c].down = conn[c].down
      BY <2>1, <2>2 DEF Becomes, Conn
  <2>4. \A x \in Conns : conn'[x].down = conn[x].down
      BY <2>1, <2>3 DEF Becomes
  <2> QED BY <1>1, <1>3, <2>4, OpenFacts, DownwardQuiet
<1>4. CASE WorkerSends
  <2>1. \A x \in Conns : conn'[x].down = conn[x].down
    <3>1. CASE conn' = conn
        BY <3>1
    <3>2. CASE conn' # conn
      <4> DEFINE c == worker.sock
      <4>1. PICK up \in Seq(Int) : Becomes(c, [conn[c] EXCEPT !.up = up])
          BY <1>4, <3>2, WorkerSendsFacts
      <4>2. c \in Conns
          BY <1>4, <3>2, WorkerSendsFacts
      <4>3. conn[c] \in Conn
          BY <1>1, <4>2, ConnFacts
      <4>4. conn'[c].down = conn[c].down
          BY <4>1, <4>3 DEF Becomes, Conn
      <4> QED BY <4>1, <4>4 DEF Becomes
    <3> QED BY <3>1, <3>2
  <2> QED BY <1>1, <1>4, <2>1, WorkerSendsFacts, DownwardQuiet
<1>5. ASSUME NEW c \in Conns, ServerHears(c), entry.authed PROVE Downward'
  <2>1. Becomes(c, [conn[c] EXCEPT !.up = Tail(conn[c].up)]) /\ UNCHANGED <<entry, heard, budget>>
      BY <1>5, ServerHearsFacts
  <2>2. conn[c] \in Conn
      BY <1>1, ConnFacts
  <2>3. conn'[c].down = conn[c].down
      BY <2>1, <2>2 DEF Becomes, Conn
  <2>4. \A x \in Conns : conn'[x].down = conn[x].down
      BY <2>1, <2>3 DEF Becomes
  <2> QED BY <1>1, <2>1, <2>4, DownwardQuiet
<1>6. CASE \/ \E X \in SUBSET (Conns \cup {NoConn}), code \in Codes : Refuses(X, code)
           \/ ServerRestarts \/ AdoptionEnds
    BY <1>6, QuietServer, DownwardQuiet
<1> QED BY <1>2, <1>3, <1>4, <1>5, <1>6, StepCases, HearsDownward, TokenDownward, SendsDownward

\* A worker that was turned away as unknown was unregistered before.
LEMMA KnowledgeQuiet ==
  ASSUME IInv, entry'.known = entry.known, phase' = phase, budget'.stops = budget.stops,
         \A x \in Conns : conn'[x].code = "unknown" => conn[x].code = "unknown" \/ budget.stops = 0
  PROVE  Knowledge'
BY DEF IInv, Knowledge

\* The codes of connections that are shut.
LEMMA ShutsCodes ==
  ASSUME IInv, NEW X, NEW code \in Codes, Shuts(X, code), NEW x \in Conns, conn'[x].code = "unknown"
  PROVE  conn[x].code = "unknown" \/ code = "unknown"
<1>1. CASE x \in X
  <2> DEFINE r == Shut(x, code)
  <2>1. r.code \in {code, "none"}
      BY ShutFacts, EntryFacts DEF IInv
  <2>2. conn'[x] = r
      BY <1>1 DEF Shuts
  <2> HIDE DEF r
  <2> QED BY <2>1, <2>2
<1>2. CASE x \notin X
    BY <1>2 DEF Shuts
<1> QED BY <1>1, <1>2

LEMMA RefusesKnowledge ==
  ASSUME IInv, NEW X, NEW code \in Codes, Refuses(X, code), code = "unknown" => phase = "serving" /\ ~entry.known,
         entry'.known = entry.known, budget'.stops = budget.stops
  PROVE  Knowledge'
<1>1. code = "unknown" => budget.stops = 0
    BY DEF IInv, Knowledge
<1>2. \A x \in Conns : conn'[x].code = "unknown" => conn[x].code = "unknown" \/ budget.stops = 0
    BY <1>1, ShutsCodes DEF Refuses
<1> QED BY <1>2, KnowledgeQuiet DEF Refuses

\* The code of a connection that is not shut.
LEMMA CodeStays ==
  ASSUME IInv, NEW c \in Conns, NEW r, Becomes(c, r), r.code = conn[c].code \/ r.code = "none"
  PROVE  \A x \in Conns : conn'[x].code = "unknown" => conn[x].code = "unknown"
BY DEF Becomes

LEMMA CodesStay ==
  ASSUME IInv, NEW c \in Conns, NEW up, NEW down
  PROVE  /\ [conn[c] EXCEPT !.cut = TRUE, !.up = <<>>, !.down = <<>>].code = conn[c].code
         /\ [Dead EXCEPT !.w = "opening", !.s = "asked"].code = "none"
         /\ [conn[c] EXCEPT !.w = "open", !.up = up].code = conn[c].code
         /\ [conn[c] EXCEPT !.up = up].code = conn[c].code
         /\ [conn[c] EXCEPT !.down = down].code = conn[c].code
         /\ [conn[c] EXCEPT !.w = "closed"].code = conn[c].code
         /\ [conn[c] EXCEPT !.s = "bound"].code = conn[c].code
         /\ [conn[c] EXCEPT !.up = up, !.down = down].code = conn[c].code
<1>1. conn[c] \in Conn /\ Dead \in Conn /\ Dead.code = "none"
    BY ConnFacts, DeadFacts DEF IInv
<1> QED BY <1>1 DEF Conn

\* Knowledge.
LEMMA KnowledgeStep ==
  ASSUME IInv, Next
  PROVE  Knowledge'
<1>1. Types /\ Knowledge
    BY DEF IInv
<1>2. ASSUME NEW c \in Conns, Drop(c) PROVE Knowledge'
  <2>1. \A x \in Conns : conn'[x].code = "unknown" => conn[x].code = "unknown"
      BY <1>2, DropFacts, CodeStays, CodesStay
  <2> QED BY <1>2, <2>1, DropFacts, KnowledgeQuiet
<1>3. ASSUME NEW c \in Conns, Connect(c) PROVE Knowledge'
  <2>1. \A x \in Conns : conn'[x].code = "unknown" => conn[x].code = "unknown"
      BY <1>3, ConnectFacts, CodeStays, CodesStay
  <2> QED BY <1>3, <2>1, ConnectFacts, KnowledgeQuiet
<1>4. ASSUME NEW c \in Conns, Open(c) PROVE Knowledge'
  <2>1. PICK up \in Seq(Int) : Becomes(c, [conn[c] EXCEPT !.w = "open", !.up = up])
      BY <1>4, OpenFacts
  <2>2. \A x \in Conns : conn'[x].code = "unknown" => conn[x].code = "unknown"
      BY <2>1, CodeStays, CodesStay
  <2> QED BY <1>4, <2>2, OpenFacts, KnowledgeQuiet
<1>5. ASSUME NEW c \in Conns, WorkerHears(c) PROVE Knowledge'
  <2>1. \A x \in Conns : conn'[x].code = "unknown" => conn[x].code = "unknown"
    <3>1. Becomes(c, [conn[c] EXCEPT !.down = Tail(conn[c].down)])
        BY <1>5, WorkerHearsFacts
    <3>2. [conn[c] EXCEPT !.down = Tail(conn[c].down)].code = conn[c].code
        BY CodesStay
    <3> QED BY <3>1, <3>2, CodeStays
  <2> QED BY <1>5, <2>1, WorkerHearsFacts, KnowledgeQuiet
<1>6. ASSUME NEW c \in Conns, WorkerSeesClose(c) PROVE Knowledge'
  <2>1. \A x \in Conns : conn'[x].code = "unknown" => conn[x].code = "unknown"
      BY <1>6, WorkerSeesCloseFacts, CodeStays, CodesStay, DeadFacts
  <2> QED BY <1>6, <2>1, WorkerSeesCloseFacts, KnowledgeQuiet
<1>7. ASSUME NEW c \in Conns, Bind(c) PROVE Knowledge'
  <2>1. CASE ~entry.known \/ entry.authed
      BY <1>7, <2>1, BindRefusedFacts, RefusesKnowledge
  <2>2. CASE entry.known /\ ~entry.authed
    <3>1. /\ conn'[c] = [conn[c] EXCEPT !.s = "bound"]
          /\ \A x \in Conns : x # c => conn'[x] = IF x = entry.sock THEN Shut(x, "authentication timed out") ELSE conn[x]
        BY <1>7, <2>2, BindAcceptedFacts
    <3>2. ASSUME NEW x \in Conns, conn'[x].code = "unknown" PROVE conn[x].code = "unknown"
      <4>1. CASE x = c
          BY <3>1, <3>2, <4>1, CodesStay
      <4>2. CASE x # c /\ x = entry.sock
        <5> DEFINE r == Shut(x, "authentication timed out")
        <5>1. r.code \in {"authentication timed out", "none"}
            BY <1>1, ShutFacts, EntryFacts DEF Codes, Final
        <5>2. conn'[x] = r
            BY <3>1, <4>2
        <5> HIDE DEF r
        <5> QED BY <3>2, <5>1, <5>2
      <4>3. CASE x # c /\ x # entry.sock
          BY <3>1, <3>2, <4>3
      <4> QED BY <4>1, <4>2, <4>3
    <3> QED BY <1>7, <2>2, <3>2, BindAcceptedFacts, KnowledgeQuiet
  <2> QED BY <2>1, <2>2
<1>8. ASSUME NEW c \in Conns, ServerHears(c) PROVE Knowledge'
  <2>1. CASE entry.authed
    <3>1. \A x \in Conns : conn'[x].code = "unknown" => conn[x].code = "unknown"
      <4>1. Becomes(c, [conn[c] EXCEPT !.up = Tail(conn[c].up)])
          BY <1>8, <2>1, ServerHearsFacts
      <4>2. [conn[c] EXCEPT !.up = Tail(conn[c].up)].code = conn[c].code
          BY CodesStay
      <4> QED BY <4>1, <4>2, CodeStays
    <3> QED BY <1>8, <2>1, <3>1, ServerHearsFacts, KnowledgeQuiet
  <2>2. CASE ~entry.authed
    <3>1. PICK down \in Seq(Int) : Becomes(c, [conn[c] EXCEPT !.up = Tail(conn[c].up), !.down = down])
        BY <1>8, <2>2, TokenFacts
    <3>2. \A x \in Conns : conn'[x].code = "unknown" => conn[x].code = "unknown"
      <4>1. [conn[c] EXCEPT !.up = Tail(conn[c].up), !.down = down].code = conn[c].code
          BY CodesStay
      <4> QED BY <3>1, <4>1, CodeStays
    <3> QED BY <1>8, <2>2, <3>2, TokenFacts, KnowledgeQuiet
  <2> QED BY <2>1, <2>2
<1>9. ASSUME NEW c \in Conns, ServerSeesClose(c) \/ AuthTimesOut(c) PROVE Knowledge'
  <2>1. PICK code \in {"abnormal", "authentication timed out"} : Refuses({c}, code)
      BY <1>9, ServerSeesCloseFacts, AuthTimesOutFacts
  <2>2. code \in Codes /\ code # "unknown" /\ entry'.known = entry.known /\ budget' = budget
      BY <1>9, <2>1, ServerSeesCloseFacts, AuthTimesOutFacts DEF Codes, Final
  <2> QED BY <2>1, <2>2, RefusesKnowledge
<1>10. CASE WorkerSends
  <2>1. \A x \in Conns : conn'[x].code = "unknown" => conn[x].code = "unknown"
    <3>1. CASE conn' = conn
        BY <3>1
    <3>2. CASE conn' # conn
      <4>1. PICK up \in Seq(Int) : Becomes(worker.sock, [conn[worker.sock] EXCEPT !.up = up])
          BY <1>10, <3>2, WorkerSendsFacts
      <4>2. worker.sock \in Conns
          BY <1>10, <3>2, WorkerSendsFacts
      <4> QED BY <4>1, <4>2, CodeStays, CodesStay
    <3> QED BY <3>1, <3>2
  <2> QED BY <1>10, <2>1, WorkerSendsFacts, KnowledgeQuiet
<1>11. CASE ServerSends
  <2>1. entry'.known = entry.known /\ phase' = phase /\ budget'.stops = budget.stops
      BY <1>11, ServerSendsFacts
  <2>2. CASE Refuses({entry.sock}, "overflow")
    <3>1. "overflow" \in Codes /\ "overflow" # "unknown"
        BY DEF Codes
    <3> QED BY <2>1, <2>2, <3>1, RefusesKnowledge
  <2>3. CASE ~Refuses({entry.sock}, "overflow")
    <3>1. CASE conn' = conn
        BY <2>1, <3>1, KnowledgeQuiet
    <3>2. CASE conn' # conn
      <4>1. PICK down \in Seq(Int) : Becomes(entry.sock, [conn[entry.sock] EXCEPT !.down = down])
          BY <1>11, <2>3, <3>2, ServerSendsFacts
      <4>2. entry.sock \in Conns
          BY <1>11, <2>3, <3>2, ServerSendsFacts
      <4>3. \A x \in Conns : conn'[x].code = "unknown" => conn[x].code = "unknown"
          BY <4>1, <4>2, CodeStays, CodesStay
      <4> QED BY <2>1, <4>3, KnowledgeQuiet
    <3> QED BY <3>1, <3>2
  <2> QED BY <2>2, <2>3
<1>12. CASE Unregister
  <2>1. entry'.known = FALSE /\ budget'.stops = 0
      BY <1>12, UnregisterFacts, EntryFacts
  <2> QED BY <2>1 DEF Knowledge
<1>13. CASE ServerRestarts
  <2>1. entry'.known = FALSE /\ phase' = "adopting" /\ budget'.stops = budget.stops
      BY <1>13, RestartFacts, EntryFacts
  <2>2. \A x \in Conns : conn'[x].code = "unknown" => conn[x].code = "unknown"
      BY <1>13, RestartFacts, DeadFacts
  <2> QED BY <1>1, <2>1, <2>2 DEF Knowledge
<1>14. CASE AdoptionEnds
  <2>1. entry'.known = (budget.stops > 0) /\ budget' = budget /\ conn' = conn
      BY <1>14, AdoptedFacts
  <2>2. budget.stops \in {0, 1}
      BY SentFacts DEF Bounds
  <2>3. budget'.stops = 0 <=> ~entry'.known
    <3>1. CASE budget.stops = 0
      <4>1. (budget.stops > 0) = FALSE
          BY <3>1
      <4> QED BY <2>1, <3>1, <4>1
    <3>2. CASE budget.stops = 1
      <4>1. (budget.stops > 0) = TRUE
          BY <3>2
      <4>2. entry'.known = TRUE
          BY <2>1, <4>1, Zenon
      <4>3. budget'.stops = 1
          BY <2>1, <3>2, Zenon
      <4> QED BY <4>2, <4>3
    <3> QED BY <2>2, <3>1, <3>2
  <2> QED BY <1>1, <2>1, <2>3 DEF Knowledge
<1> QED BY <1>2, <1>3, <1>4, <1>5, <1>6, <1>7, <1>8, <1>9, <1>10, <1>11, <1>12, <1>13, <1>14 DEF Next, Network

-----------------------------------------------------------------------------
(* The theorems *)

LEMMA InitIInv == Init => IInv
<1> SUFFICES ASSUME Init PROVE IInv
    OBVIOUS
<1>1. /\ <<>> \in Seq(Int) /\ Elems(<<>>) = {} /\ Increasing(<<>>) /\ Len(<<>>) = 0
    BY ShortFacts
<1>2. /\ MaxBuffer \in Nat /\ MaxDown \in Nat /\ MaxDrops \in Nat /\ MaxRestarts \in Nat /\ NoConn \notin Conns
      /\ MaxDown \in 0..MaxDown
    BY LinkAssumption
<1>3. /\ worker = [state |-> "waiting", sock |-> NoConn, opened |-> FALSE, out |-> <<>>, sent |-> 0]
      /\ entry = [known |-> TRUE, sock |-> NoConn, authed |-> FALSE, out |-> <<>>, lost |-> FALSE]
      /\ phase = "serving" /\ got = <<>> /\ heard = <<>>
      /\ budget = [down |-> MaxDown, drops |-> MaxDrops, restarts |-> MaxRestarts, stops |-> 1]
      /\ conn = [c \in Conns |-> Dead]
    BY DEF Init, NoEntry
<1>4. worker \in Client
    BY <1>1, <1>3 DEF Client, States
<1>5. entry \in Registration
    BY <1>1, <1>3 DEF Registration
<1>6. budget \in Bounds
    BY <1>2, <1>3 DEF Bounds
<1>7. Types
    BY <1>1, <1>3, <1>4, <1>5, <1>6, DeadFacts DEF Types
<1>8. Sent = 0
    BY <1>2, <1>3 DEF Sent
<1>9. \A c \in Conns : EndsOK(c)
    BY <1>2, <1>3, DeadFacts DEF EndsOK
<1>10. Ends
    BY <1>1, <1>2, <1>3, <1>9 DEF Ends
<1>11. \A c \in Conns : conn[c].up = <<>> /\ conn[c].down = <<>> /\ conn[c].code = "none"
    BY <1>3, DeadFacts
<1>12. worker.out = <<>> /\ entry.out = <<>> /\ entry.authed = FALSE
    BY <1>3
<1>13. Upward
    BY <1>1, <1>3, <1>11, <1>12 DEF Upward, UpOK, Below
<1>14. Downward
    BY <1>1, <1>3, <1>11, <1>12 DEF Downward, DownOK, Below
<1>15. Knowledge
    BY <1>3, <1>11 DEF Knowledge
<1> QED BY <1>7, <1>10, <1>13, <1>14, <1>15 DEF IInv

LEMMA StutterIInv == IInv /\ UNCHANGED vars => IInv'
BY DEF IInv, vars, Types, Ends, EndsOK, Upward, UpOK, Downward, DownOK, Sent, Knowledge, Wanted

\* The inductive invariant holds in every state.
LEMMA Invariance == Spec => []IInv
<1>1. IInv /\ [Next]_vars => IInv'
  <2>1. IInv /\ Next => IInv'
      BY TypesStep, EndsStep, UpwardStep, DownwardStep, KnowledgeStep DEF IInv
  <2> QED BY <2>1, StutterIInv
<1> QED BY <1>1, InitIInv, PTL DEF Spec

\* However often the connection is cut, the server restarts or the worker's
\* socket is replaced, both ends agree on the socket that counts, at most
\* maxBufferedMessages wait for an absent worker, and each side is given what
\* the other sent in order and nothing twice.
THEOREM LinkIsConsistent == Spec => []LinkInvariant
<1>1. IInv => LinkInvariant
  <2> SUFFICES ASSUME IInv PROVE LinkInvariant
      OBVIOUS
  <2>1. worker.state \in States /\ phase \in {"adopting", "serving"}
      BY DEF IInv, Types, Client
  <2>2. (worker.sock # NoConn <=> worker.state \in {"opening", "open"}) /\ Len(entry.out) <= MaxBuffer
      BY DEF IInv, Ends
  <2>3. \A c \in Conns : conn[c].s = "bound" <=> entry.sock = c
      BY DEF IInv, Ends, EndsOK
  <2>4. entry.authed => entry.sock \in Conns /\ conn[entry.sock].s = "bound" /\ entry.out = <<>>
      BY <2>3, EntryFacts DEF IInv, Ends
  <2>5. LinkTypeOK
      BY <2>1, <2>2, <2>3, <2>4 DEF LinkTypeOK, States
  <2>6. InOrder
      BY DEF IInv, Upward, Downward, InOrder
  <2> QED BY <2>5, <2>6 DEF LinkInvariant
<1> QED BY <1>1, Invariance, PTL

\* A worker gives up only when its server does not want it any more, or turned
\* its socket away because of another one or for want of a token in time.
THEOREM WantedWorkersComeBack == Spec => OnlyUnwantedWorkersGiveUp
<1> DEFINE GivesUp == worker.state # "failed" /\ worker'.state = "failed"
           Excused == ~Wanted \/ conn[worker.sock].code \in {"already bound", "authentication timed out"}
<1>1. ASSUME IInv, Next, GivesUp PROVE Excused
  <2>1. PICK c \in Conns : WorkerSeesClose(c)
    <3>1. ASSUME NEW c \in Conns, \/ Drop(c) \/ Connect(c) \/ Open(c) \/ WorkerHears(c)
                                  \/ Bind(c) \/ ServerHears(c)
          PROVE  worker'.state # "failed" \/ worker' = worker
        BY <1>1, <3>1, ConnectFacts, OpenFacts DEF Drop, WorkerHears, Bind, ServerHears
    <3>2. ASSUME \/ WorkerSends \/ ServerSends \/ ServerRestarts \/ AdoptionEnds
          PROVE  worker'.state = worker.state
        BY <1>1, <3>2, WorkerSendsFacts DEF ServerSends, ServerRestarts, AdoptionEnds
    <3>3. ASSUME NEW X, NEW code, Refuses(X, code) PROVE worker' = worker
        BY <3>3 DEF Refuses
    <3> QED BY <1>1, <3>1, <3>2, <3>3, StepCases
  <2>2. conn[c].code \in Final /\ worker.sock = c
      BY <1>1, <2>1, WorkerSeesCloseFacts
  <2>3. CASE conn[c].code = "unknown"
    <3>1. budget.stops = 0 /\ ~entry.known
        BY <1>1, <2>3 DEF IInv, Knowledge
    <3>2. ~(budget.stops > 0)
        BY <3>1
    <3>3. ~Wanted
        BY <3>1, <3>2, Zenon DEF Wanted
    <3> QED BY <3>3
  <2> QED BY <2>2, <2>3 DEF Final
<1>2. IInv /\ [Next]_vars => [GivesUp => Excused]_vars
    BY <1>1
<1> QED BY <1>2, Invariance, PTL DEF Spec, OnlyUnwantedWorkersGiveUp

=============================================================================
