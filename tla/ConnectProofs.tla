--------------------------- MODULE ConnectProofs ---------------------------
(***************************************************************************)
(* Proofs about Connect, for any number of kills: every socket is labelled *)
(* with the role at its other end, and when all processes are ready every  *)
(* socket is paired or one of its ends is gone.                            *)
(*                                                                         *)
(* The port of a connection says who its ends are and which of their       *)
(* sockets it is; the counts of kills say whether both still live.         *)
(***************************************************************************)
EXTENDS Connect, SequenceTheorems, TLAPS

\* Who listens on a port, who calls there, and which of r's sockets it gives.
Server(port) == IF port \in {9000, 9001} THEN "P2" ELSE "P0"
Client(port) == IF port = 9000 THEN "P0" ELSE "P1"
Nth(r, port) ==
  IF port \in {9000, 12000} THEN 1
  ELSE IF port = 9001 THEN (IF r = "P2" THEN 2 ELSE 1) ELSE 2
Used == IF setup = "ot_tests" THEN {12000} ELSE {9000, 9001, 9100}

\* The sockets that r has, and the ports on which it listens, before each step
\* of its script and after the last.
Counts(r) ==
  IF setup = "ot_tests"
  THEN IF r = "P0" THEN <<0, 0, 1, 1>> ELSE IF r = "P1" THEN <<0, 1>> ELSE <<0>>
  ELSE IF r = "P0" THEN <<0, 1, 1, 2, 2>>
  ELSE IF r = "P1" THEN <<0, 1, 2>>
  ELSE IF setup = "main" THEN <<0, 0, 0, 1, 2>> ELSE <<0, 0, 1, 1, 1, 2, 2>>
Listens(r) ==
  IF setup = "ot_tests"
  THEN IF r = "P0" THEN <<{}, {12000}, {12000}, {}>> ELSE IF r = "P1" THEN <<{}, {}>> ELSE <<{}>>
  ELSE IF r = "P0" THEN <<{}, {}, {9100}, {9100}, {}>>
  ELSE IF r = "P1" THEN <<{}, {}, {}>>
  ELSE IF setup = "main" THEN <<{}, {9000}, {9000, 9001}, {9000, 9001}, {9000, 9001}>>
  ELSE <<{}, {9000}, {9000}, {}, {9001}, {9001}, {}>>

Conn == [client : Roles, cinc : Nat, server : Roles, sinc : Nat, port : Ports]

\* A connection between the roles of its port; neither end is from the future.
Sound(c) ==
  /\ c \in Conn /\ c.port \in Used /\ c.client = Client(c.port) /\ c.server = Server(c.port)
  /\ c.cinc <= inc[c.client] /\ c.sinc <= inc[c.server]

\* c is an element of sequence s; s has no element twice.
In(s, c) == \E i \in 1 .. Len(s) : s[i] = c
Distinct(s) == \A i, j \in 1 .. Len(s) : s[i] = s[j] => i = j

Has(r, c) == In(socks[r], c)
Waits(c) == In(backlog[c.port], c)

\* A connection one of whose ends was killed is dead.
Current(c) == c.cinc = inc[c.client] /\ c.sinc = inc[c.server]

Types ==
  /\ setup \in Setups
  /\ up \in [Roles -> BOOLEAN] /\ asleep \in [Roles -> BOOLEAN]
  /\ inc \in [Roles -> 0 .. MaxKills] /\ step \in [Roles -> Nat]
  /\ owner \in [Ports -> Roles \cup {"nobody"}]
  /\ backlog \in [Ports -> Seq(Conn)] /\ socks \in [Roles -> Seq(Conn)]

\* Where a process stands in its script says what it has.
Places ==
  \A r \in Roles :
    /\ step[r] \in 1 .. (Len(Script(r)) + 1) /\ (~up[r] => step[r] = 1)
    /\ Len(socks[r]) = Counts(r)[step[r]]
    /\ \A port \in Ports : owner[port] = r <=> port \in Listens(r)[step[r]]

\* Sockets and backlogs hold connections of the right port and incarnation.
Socket(r, i, c) ==
  /\ Sound(c) /\ r \in {c.client, c.server} /\ Nth(r, c.port) = i
  /\ r = c.client => c.cinc = inc[r]
  /\ r = c.server => c.sinc = inc[r]
Sockets == \A r \in Roles : \A i \in 1 .. Len(socks[r]) : Socket(r, i, socks[r][i])

Backlog(port, c) == Sound(c) /\ c.port = port /\ c.sinc = inc[c.server] /\ ~Has(c.server, c)
Backlogs ==
  \A port \in Ports :
    /\ owner[port] = "nobody" => backlog[port] = <<>>
    /\ Distinct(backlog[port])
    /\ \A c \in Conn : In(backlog[port], c) => Backlog(port, c)

\* The other end of a socket of r, and of a connection that waits.
HasEnd(r, c) ==
  Has(r, c) => /\ r = c.server => c.cinc < inc[c.client] \/ Has(c.client, c)
               /\ r = c.client => c \in dead \/ Waits(c) \/ Has(c.server, c)
               /\ ~Current(c) => c \in dead
WaitEnd(c) ==
  Waits(c) => /\ c.cinc < inc[c.client] \/ Has(c.client, c)
              /\ ~Current(c) => c \in dead
Ends == \A c \in Conn : WaitEnd(c) /\ \A r \in Roles : HasEnd(r, c)

ConnectInv == Types /\ Places /\ Sockets /\ Backlogs /\ Ends

-----------------------------------------------------------------------------
(* The scripts, spelt out.                                                 *)

\* When a sequence is the concatenation of two.
LEMMA Joined ==
  ASSUME NEW S, NEW s \in Seq(S), NEW t \in Seq(S), NEW w \in Seq(S),
         Len(w) = Len(s) + Len(t),
         \A i \in 1 .. Len(s) : w[i] = s[i],
         \A i \in 1 .. Len(t) : w[Len(s) + i] = t[i]
  PROVE  s \o t = w
<1>1. s \o t \in Seq(S) /\ Len(s \o t) = Len(s) + Len(t)
  BY ConcatProperties
<1>2. \A i \in 1 .. Len(s \o t) : (s \o t)[i] = IF i <= Len(s) THEN s[i] ELSE t[i - Len(s)]
  BY ConcatProperties
<1>3. Len(s) \in Nat /\ Len(t) \in Nat
  OBVIOUS
<1>4. ASSUME NEW i \in 1 .. Len(s \o t) PROVE (s \o t)[i] = w[i]
  <2>1. CASE i <= Len(s)
    BY <1>1, <1>2, <1>3, <1>4, <2>1
  <2>2. CASE ~(i <= Len(s))
    <3>1. i - Len(s) \in 1 .. Len(t) /\ Len(s) + (i - Len(s)) = i
      BY <1>1, <1>3, <2>2
    <3> QED
      BY <3>1, <1>2, <2>2
  <2> QED
    BY <2>1, <2>2
<1> QED
  BY <1>1, <1>4, SeqEqual

\* The concatenations in the scripts.
LEMMA Join11 ==
  ASSUME NEW a, NEW b
  PROVE  <<a>> \o <<b>> = <<a, b>>
<1>1. PICK S, s, t, w : /\ S = {a, b} /\ s = <<a>> /\ t = <<b>>
                        /\ w = <<a, b>>
  OBVIOUS
<1>2. s \in Seq(S) /\ t \in Seq(S) /\ w \in Seq(S)
  BY <1>1
<1>3. /\ Len(w) = 2 /\ Len(s) = 1 /\ Len(t) = 1
      /\ \A i \in 1 .. 1 : w[i] = s[i]
      /\ \A i \in 1 .. 1 : w[1 + i] = t[i]
  BY <1>1
<1>4. /\ Len(w) = Len(s) + Len(t)
      /\ \A i \in 1 .. Len(s) : w[i] = s[i]
      /\ \A i \in 1 .. Len(t) : w[Len(s) + i] = t[i]
  BY <1>3
<1>5. s \o t = w
  BY <1>2, <1>4, Joined, Zenon
<1> QED
  BY <1>1, <1>5, Zenon

\* The same for two and one.
LEMMA Join21 ==
  ASSUME NEW a, NEW b, NEW c
  PROVE  <<a, b>> \o <<c>> = <<a, b, c>>
<1>1. PICK S, s, t, w : /\ S = {a, b, c} /\ s = <<a, b>> /\ t = <<c>>
                        /\ w = <<a, b, c>>
  OBVIOUS
<1>2. s \in Seq(S) /\ t \in Seq(S) /\ w \in Seq(S)
  BY <1>1
<1>3. /\ Len(w) = 3 /\ Len(s) = 2 /\ Len(t) = 1
      /\ \A i \in 1 .. 2 : w[i] = s[i]
      /\ \A i \in 1 .. 1 : w[2 + i] = t[i]
  BY <1>1
<1>4. /\ Len(w) = Len(s) + Len(t)
      /\ \A i \in 1 .. Len(s) : w[i] = s[i]
      /\ \A i \in 1 .. Len(t) : w[Len(s) + i] = t[i]
  BY <1>3
<1>5. s \o t = w
  BY <1>2, <1>4, Joined, Zenon
<1> QED
  BY <1>1, <1>5, Zenon

\* The same for three and one.
LEMMA Join31 ==
  ASSUME NEW a, NEW b, NEW c, NEW d
  PROVE  <<a, b, c>> \o <<d>> = <<a, b, c, d>>
<1>1. PICK S, s, t, w : /\ S = {a, b, c, d} /\ s = <<a, b, c>> /\ t = <<d>>
                        /\ w = <<a, b, c, d>>
  OBVIOUS
<1>2. s \in Seq(S) /\ t \in Seq(S) /\ w \in Seq(S)
  BY <1>1
<1>3. /\ Len(w) = 4 /\ Len(s) = 3 /\ Len(t) = 1
      /\ \A i \in 1 .. 3 : w[i] = s[i]
      /\ \A i \in 1 .. 1 : w[3 + i] = t[i]
  BY <1>1
<1>4. /\ Len(w) = Len(s) + Len(t)
      /\ \A i \in 1 .. Len(s) : w[i] = s[i]
      /\ \A i \in 1 .. Len(t) : w[Len(s) + i] = t[i]
  BY <1>3
<1>5. s \o t = w
  BY <1>2, <1>4, Joined, Zenon
<1> QED
  BY <1>1, <1>5, Zenon

\* The same for one and three.
LEMMA Join13 ==
  ASSUME NEW a, NEW b, NEW c, NEW d
  PROVE  <<a>> \o <<b, c, d>> = <<a, b, c, d>>
<1>1. PICK S, s, t, w : /\ S = {a, b, c, d} /\ s = <<a>> /\ t = <<b, c, d>>
                        /\ w = <<a, b, c, d>>
  OBVIOUS
<1>2. s \in Seq(S) /\ t \in Seq(S) /\ w \in Seq(S)
  BY <1>1
<1>3. /\ Len(w) = 4 /\ Len(s) = 1 /\ Len(t) = 3
      /\ \A i \in 1 .. 1 : w[i] = s[i]
      /\ \A i \in 1 .. 3 : w[1 + i] = t[i]
  BY <1>1
<1>4. /\ Len(w) = Len(s) + Len(t)
      /\ \A i \in 1 .. Len(s) : w[i] = s[i]
      /\ \A i \in 1 .. Len(t) : w[Len(s) + i] = t[i]
  BY <1>3
<1>5. s \o t = w
  BY <1>2, <1>4, Joined, Zenon
<1> QED
  BY <1>1, <1>5, Zenon

\* The same for three and three.
LEMMA Join33 ==
  ASSUME NEW a, NEW b, NEW c, NEW d, NEW e, NEW f
  PROVE  <<a, b, c>> \o <<d, e, f>> = <<a, b, c, d, e, f>>
<1>1. PICK S, s, t, w : /\ S = {a, b, c, d, e, f} /\ s = <<a, b, c>> /\ t = <<d, e, f>>
                        /\ w = <<a, b, c, d, e, f>>
  OBVIOUS
<1>2. s \in Seq(S) /\ t \in Seq(S) /\ w \in Seq(S)
  BY <1>1
<1>3. /\ Len(w) = 6 /\ Len(s) = 3 /\ Len(t) = 3
      /\ \A i \in 1 .. 3 : w[i] = s[i]
      /\ \A i \in 1 .. 3 : w[3 + i] = t[i]
  BY <1>1
<1>4. /\ Len(w) = Len(s) + Len(t)
      /\ \A i \in 1 .. Len(s) : w[i] = s[i]
      /\ \A i \in 1 .. Len(t) : w[Len(s) + i] = t[i]
  BY <1>3
<1>5. s \o t = w
  BY <1>2, <1>4, Joined, Zenon
<1> QED
  BY <1>1, <1>5, Zenon

I(o, n) == [op |-> o, port |-> n]

\* make_server.
LEMMA ServerSteps ==
  ASSUME NEW n
  PROVE  make_server(n) = <<I("bind", n), I("accept", n), I("close", n)>>
<1>1. /\ bind(n) = <<I("bind", n)>> /\ accept(n) = <<I("accept", n)>>
      /\ close(n) = <<I("close", n)>>
  BY DEF bind, accept, close, I
<1>2. bind(n) \o accept(n) = <<I("bind", n), I("accept", n)>>
  BY <1>1, Join11, Zenon
<1>3. (bind(n) \o accept(n)) \o close(n) = <<I("bind", n), I("accept", n), I("close", n)>>
  BY <1>1, <1>2, Join21, Zenon
<1> QED
  BY <1>3 DEF make_server

\* The other concatenations.
LEMMA Pieces ==
  /\ \A m, n : connect(m) \o make_server(n)
                 = <<I("connect", m), I("bind", n), I("accept", n), I("close", n)>>
  /\ \A m, n : connect(m) \o connect(n) = <<I("connect", m), I("connect", n)>>
  /\ \A n : connect(n) = <<I("connect", n)>>
  /\ \A m, n : bind(m) \o bind(n) \o accept(m) \o accept(n)
                 = <<I("bind", m), I("bind", n), I("accept", m), I("accept", n)>>
  /\ \A m, n : make_server(m) \o make_server(n)
                 = <<I("bind", m), I("accept", m), I("close", m),
                     I("bind", n), I("accept", n), I("close", n)>>
<1>1. ASSUME NEW n
      PROVE  /\ connect(n) = <<I("connect", n)>> /\ bind(n) = <<I("bind", n)>>
             /\ accept(n) = <<I("accept", n)>>
  BY DEF connect, bind, accept, I
<1>2. ASSUME NEW m, NEW n
      PROVE  connect(m) \o make_server(n)
               = <<I("connect", m), I("bind", n), I("accept", n), I("close", n)>>
  BY <1>1, ServerSteps, Join13, Zenon
<1>3. ASSUME NEW m, NEW n
      PROVE  connect(m) \o connect(n) = <<I("connect", m), I("connect", n)>>
  BY <1>1, Join11, Zenon
<1>4. ASSUME NEW m, NEW n
      PROVE  bind(m) \o bind(n) \o accept(m) \o accept(n)
               = <<I("bind", m), I("bind", n), I("accept", m), I("accept", n)>>
  <2>1. bind(m) \o bind(n) = <<I("bind", m), I("bind", n)>>
    BY <1>1, Join11, Zenon
  <2>2. bind(m) \o bind(n) \o accept(m) = <<I("bind", m), I("bind", n), I("accept", m)>>
    BY <1>1, <2>1, Join21, Zenon
  <2> QED
    BY <1>1, <2>2, Join31, Zenon
<1>5. ASSUME NEW m, NEW n
      PROVE  make_server(m) \o make_server(n)
               = <<I("bind", m), I("accept", m), I("close", m),
                   I("bind", n), I("accept", n), I("close", n)>>
  <2>1. /\ make_server(m) = <<I("bind", m), I("accept", m), I("close", m)>>
        /\ make_server(n) = <<I("bind", n), I("accept", n), I("close", n)>>
    BY ServerSteps, Zenon
  <2>2. <<I("bind", m), I("accept", m), I("close", m)>>
          \o <<I("bind", n), I("accept", n), I("close", n)>>
          = <<I("bind", m), I("accept", m), I("close", m),
              I("bind", n), I("accept", n), I("close", n)>>
    <3>1. PICK a, b, c, d, e, f :
            /\ a = I("bind", m) /\ b = I("accept", m) /\ c = I("close", m)
            /\ d = I("bind", n) /\ e = I("accept", n) /\ f = I("close", n)
      BY Zenon
    <3>2. <<a, b, c>> \o <<d, e, f>> = <<a, b, c, d, e, f>>
      BY Join33
    <3> QED
      BY <3>1, <3>2, Zenon
  <2> QED
    BY <2>1, <2>2, Zenon
<1> QED
  BY <1>1, <1>2, <1>3, <1>4, <1>5, Zenon

\* What each role of each program does.
LEMMA Scripts ==
  ASSUME setup \in {"mpcops_test", "main", "ot_tests"}
  PROVE  /\ setup = "ot_tests" =>
              /\ Script("P0") = <<I("bind", 12000), I("accept", 12000), I("close", 12000)>>
              /\ Script("P1") = <<I("connect", 12000)>>
              /\ Script("P2") = <<>>
         /\ setup # "ot_tests" =>
              /\ Script("P0") = <<I("connect", 9000), I("bind", 9100), I("accept", 9100),
                                  I("close", 9100)>>
              /\ Script("P1") = <<I("connect", 9001), I("connect", 9100)>>
         /\ setup = "main" =>
              Script("P2") = <<I("bind", 9000), I("bind", 9001), I("accept", 9000),
                               I("accept", 9001)>>
         /\ setup = "mpcops_test" =>
              Script("P2") = <<I("bind", 9000), I("accept", 9000), I("close", 9000),
                               I("bind", 9001), I("accept", 9001), I("close", 9001)>>
<1>1. Script("P0") = run_p0 /\ Script("P1") = run_p1 /\ Script("P2") = run_p2
  BY DEF Script
<1>2. CASE setup = "ot_tests"
  <2>1. /\ run_p0 = make_server(12000) /\ run_p1 = connect(12000) /\ run_p2 = <<>>
    BY <1>2 DEF run_p0, run_p1, run_p2
  <2>2. make_server(12000) = <<I("bind", 12000), I("accept", 12000), I("close", 12000)>>
    BY ServerSteps
  <2>3. connect(12000) = <<I("connect", 12000)>>
    BY Pieces
  <2> QED
    BY <1>1, <1>2, <2>1, <2>2, <2>3
<1>3. ASSUME setup # "ot_tests"
      PROVE  /\ Script("P0") = <<I("connect", 9000), I("bind", 9100), I("accept", 9100),
                                 I("close", 9100)>>
             /\ Script("P1") = <<I("connect", 9001), I("connect", 9100)>>
  <2>1. run_p0 = connect(9000) \o make_server(9100) /\ run_p1 = connect(9001) \o connect(9100)
    BY <1>3 DEF run_p0, run_p1
  <2>2. PICK a, b, c : a = 9000 /\ b = 9001 /\ c = 9100
    OBVIOUS
  <2>3. /\ run_p0 = connect(a) \o make_server(c) /\ run_p1 = connect(b) \o connect(c)
    BY <2>1, <2>2
  <2>4. /\ Script("P0") = <<I("connect", a), I("bind", c), I("accept", c), I("close", c)>>
        /\ Script("P1") = <<I("connect", b), I("connect", c)>>
    BY <1>1, <2>3, Pieces, Zenon
  <2> QED
    BY <2>2, <2>4
<1>4. CASE setup = "main"
  <2>1. run_p2 = bind(9000) \o bind(9001) \o accept(9000) \o accept(9001)
    BY <1>4 DEF run_p2
  <2>2. PICK a, b : a = 9000 /\ b = 9001
    OBVIOUS
  <2>3. run_p2 = bind(a) \o bind(b) \o accept(a) \o accept(b)
    BY <2>1, <2>2
  <2>4. Script("P2") = <<I("bind", a), I("bind", b), I("accept", a), I("accept", b)>>
    BY <1>1, <2>3, Pieces, Zenon
  <2>5. Script("P2") = <<I("bind", 9000), I("bind", 9001), I("accept", 9000), I("accept", 9001)>>
    BY <2>2, <2>4
  <2> QED
    BY <1>3, <1>4, <2>5
<1>5. CASE setup = "mpcops_test"
  <2>1. run_p2 = make_server(9000) \o make_server(9001)
    BY <1>5 DEF run_p2
  <2>2. PICK a, b : a = 9000 /\ b = 9001
    OBVIOUS
  <2>3. run_p2 = make_server(a) \o make_server(b)
    BY <2>1, <2>2
  <2>4. Script("P2") = <<I("bind", a), I("accept", a), I("close", a),
                         I("bind", b), I("accept", b), I("close", b)>>
    BY <1>1, <2>3, Pieces, Zenon
  <2>5. Script("P2") = <<I("bind", 9000), I("accept", 9000), I("close", 9000),
                         I("bind", 9001), I("accept", 9001), I("close", 9001)>>
    BY <2>2, <2>4
  <2> QED
    BY <1>3, <1>5, <2>5
<1> QED
  BY <1>2, <1>4, <1>5

\* What a step of a script does to the sockets and the ports of its process.
Row(r, k) ==
  LET o == Script(r)[k].op
      n == Script(r)[k].port
      same == Counts(r)[k + 1] = Counts(r)[k]
      more == Counts(r)[k + 1] = Counts(r)[k] + 1 /\ Nth(r, n) = Counts(r)[k] + 1
  IN  /\ o \in {"connect", "bind", "accept", "close"} /\ n \in Used /\ n \in Ports
      /\ o = "connect" => more /\ Client(n) = r /\ Listens(r)[k + 1] = Listens(r)[k]
      /\ o = "bind" => same /\ Server(n) = r /\ Listens(r)[k + 1] = Listens(r)[k] \cup {n}
      /\ o = "accept" => /\ more /\ Server(n) = r /\ Listens(r)[k + 1] = Listens(r)[k]
                         /\ n \in Listens(r)[k]
      /\ o = "close" => /\ same /\ Server(n) = r /\ Listens(r)[k + 1] = Listens(r)[k] \ {n}
                        /\ n \in Listens(r)[k]

\* What holds before every step and after the last.
Standing(r, k) ==
  /\ Counts(r)[k] \in Nat /\ Listens(r)[k] \subseteq Used
  /\ \A n \in Listens(r)[k] : Server(n) = r
  /\ k = 1 => Counts(r)[k] = 0 /\ Listens(r)[k] = {}
  /\ k = Len(Script(r)) + 1 => /\ setup # "main" \/ r # "P2" => Listens(r)[k] = {}
                               /\ setup = "main" /\ r = "P2" => Counts(r)[k] = 2

\* The table of the scripts, row by row.
LEMMA Table ==
  ASSUME setup \in {"mpcops_test", "main", "ot_tests"}, NEW r \in Roles
  PROVE  /\ Len(Script(r)) \in Nat /\ DOMAIN Script(r) = 1 .. Len(Script(r))
         /\ \A k \in 1 .. Len(Script(r)) : Row(r, k)
         /\ \A k \in 1 .. (Len(Script(r)) + 1) : Standing(r, k)
<1>1. CASE setup = "ot_tests" /\ r = "P0"
  <2>1. /\ Len(Script(r)) = 3 /\ DOMAIN Script(r) = 1 .. 3
        /\ Script(r)[1].op = "bind" /\ Script(r)[1].port = 12000
        /\ Script(r)[2].op = "accept" /\ Script(r)[2].port = 12000
        /\ Script(r)[3].op = "close" /\ Script(r)[3].port = 12000
    BY <1>1, Scripts DEF I
  <2>2. /\ Counts(r)[1] = 0 /\ Listens(r)[1] = {}
        /\ Counts(r)[2] = 0 /\ Listens(r)[2] = {12000}
        /\ Counts(r)[3] = 1 /\ Listens(r)[3] = {12000}
        /\ Counts(r)[4] = 1 /\ Listens(r)[4] = {}
    BY <1>1 DEF Counts, Listens
  <2>3. Used = {12000}
    BY <1>1 DEF Used
  <2>4. Row(r, 1)
    BY <1>1, <2>1, <2>2, <2>3 DEF Row, Ports, Client, Server, Nth
  <2>5. Row(r, 2)
    BY <1>1, <2>1, <2>2, <2>3 DEF Row, Ports, Client, Server, Nth
  <2>6. Row(r, 3)
    BY <1>1, <2>1, <2>2, <2>3 DEF Row, Ports, Client, Server, Nth
  <2>20. \A k \in 1 .. 4 : Standing(r, k)
    <3>1. Standing(r, 1)
      BY <1>1, <2>1, <2>2, <2>3 DEF Standing, Server
    <3>2. Standing(r, 2)
      BY <1>1, <2>1, <2>2, <2>3 DEF Standing, Server
    <3>3. Standing(r, 3)
      BY <1>1, <2>1, <2>2, <2>3 DEF Standing, Server
    <3>4. Standing(r, 4)
      BY <1>1, <2>1, <2>2, <2>3 DEF Standing, Server
    <3> QED
      BY <3>1, <3>2, <3>3, <3>4
  <2> QED
    BY <2>1, <2>20, <2>4, <2>5, <2>6
<1>2. CASE setup = "ot_tests" /\ r = "P1"
  <2>1. /\ Len(Script(r)) = 1 /\ DOMAIN Script(r) = 1 .. 1
        /\ Script(r)[1].op = "connect" /\ Script(r)[1].port = 12000
    BY <1>2, Scripts DEF I
  <2>2. /\ Counts(r)[1] = 0 /\ Listens(r)[1] = {}
        /\ Counts(r)[2] = 1 /\ Listens(r)[2] = {}
    BY <1>2 DEF Counts, Listens
  <2>3. Used = {12000}
    BY <1>2 DEF Used
  <2>4. Row(r, 1)
    BY <1>2, <2>1, <2>2, <2>3 DEF Row, Ports, Client, Server, Nth
  <2>20. \A k \in 1 .. 2 : Standing(r, k)
    <3>1. Standing(r, 1)
      BY <1>2, <2>1, <2>2, <2>3 DEF Standing, Server
    <3>2. Standing(r, 2)
      BY <1>2, <2>1, <2>2, <2>3 DEF Standing, Server
    <3> QED
      BY <3>1, <3>2
  <2> QED
    BY <2>1, <2>20, <2>4
<1>3. CASE setup = "ot_tests" /\ r = "P2"
  <2>1. /\ Len(Script(r)) = 0 /\ DOMAIN Script(r) = 1 .. 0
    BY <1>3, Scripts DEF I
  <2>2. /\ Counts(r)[1] = 0 /\ Listens(r)[1] = {}
    BY <1>3 DEF Counts, Listens
  <2>3. Used = {12000}
    BY <1>3 DEF Used
  <2>20. \A k \in 1 .. 1 : Standing(r, k)
    <3>1. Standing(r, 1)
      BY <1>3, <2>1, <2>2, <2>3 DEF Standing, Server
    <3> QED
      BY <3>1
  <2> QED
    BY <2>1, <2>20
<1>4. CASE setup # "ot_tests" /\ r = "P0"
  <2>1. /\ Len(Script(r)) = 4 /\ DOMAIN Script(r) = 1 .. 4
        /\ Script(r)[1].op = "connect" /\ Script(r)[1].port = 9000
        /\ Script(r)[2].op = "bind" /\ Script(r)[2].port = 9100
        /\ Script(r)[3].op = "accept" /\ Script(r)[3].port = 9100
        /\ Script(r)[4].op = "close" /\ Script(r)[4].port = 9100
    BY <1>4, Scripts DEF I
  <2>2. /\ Counts(r)[1] = 0 /\ Listens(r)[1] = {}
        /\ Counts(r)[2] = 1 /\ Listens(r)[2] = {}
        /\ Counts(r)[3] = 1 /\ Listens(r)[3] = {9100}
        /\ Counts(r)[4] = 2 /\ Listens(r)[4] = {9100}
        /\ Counts(r)[5] = 2 /\ Listens(r)[5] = {}
    BY <1>4 DEF Counts, Listens
  <2>3. Used = {9000, 9001, 9100}
    BY <1>4 DEF Used
  <2>4. Row(r, 1)
    BY <1>4, <2>1, <2>2, <2>3 DEF Row, Ports, Client, Server, Nth
  <2>5. Row(r, 2)
    BY <1>4, <2>1, <2>2, <2>3 DEF Row, Ports, Client, Server, Nth
  <2>6. Row(r, 3)
    BY <1>4, <2>1, <2>2, <2>3 DEF Row, Ports, Client, Server, Nth
  <2>7. Row(r, 4)
    BY <1>4, <2>1, <2>2, <2>3 DEF Row, Ports, Client, Server, Nth
  <2>20. \A k \in 1 .. 5 : Standing(r, k)
    <3>1. Standing(r, 1)
      BY <1>4, <2>1, <2>2, <2>3 DEF Standing, Server
    <3>2. Standing(r, 2)
      BY <1>4, <2>1, <2>2, <2>3 DEF Standing, Server
    <3>3. Standing(r, 3)
      BY <1>4, <2>1, <2>2, <2>3 DEF Standing, Server
    <3>4. Standing(r, 4)
      BY <1>4, <2>1, <2>2, <2>3 DEF Standing, Server
    <3>5. Standing(r, 5)
      BY <1>4, <2>1, <2>2, <2>3 DEF Standing, Server
    <3> QED
      BY <3>1, <3>2, <3>3, <3>4, <3>5
  <2> QED
    BY <2>1, <2>20, <2>4, <2>5, <2>6, <2>7
<1>5. CASE setup # "ot_tests" /\ r = "P1"
  <2>1. /\ Len(Script(r)) = 2 /\ DOMAIN Script(r) = 1 .. 2
        /\ Script(r)[1].op = "connect" /\ Script(r)[1].port = 9001
        /\ Script(r)[2].op = "connect" /\ Script(r)[2].port = 9100
    BY <1>5, Scripts DEF I
  <2>2. /\ Counts(r)[1] = 0 /\ Listens(r)[1] = {}
        /\ Counts(r)[2] = 1 /\ Listens(r)[2] = {}
        /\ Counts(r)[3] = 2 /\ Listens(r)[3] = {}
    BY <1>5 DEF Counts, Listens
  <2>3. Used = {9000, 9001, 9100}
    BY <1>5 DEF Used
  <2>4. Row(r, 1)
    BY <1>5, <2>1, <2>2, <2>3 DEF Row, Ports, Client, Server, Nth
  <2>5. Row(r, 2)
    BY <1>5, <2>1, <2>2, <2>3 DEF Row, Ports, Client, Server, Nth
  <2>20. \A k \in 1 .. 3 : Standing(r, k)
    <3>1. Standing(r, 1)
      BY <1>5, <2>1, <2>2, <2>3 DEF Standing, Server
    <3>2. Standing(r, 2)
      BY <1>5, <2>1, <2>2, <2>3 DEF Standing, Server
    <3>3. Standing(r, 3)
      BY <1>5, <2>1, <2>2, <2>3 DEF Standing, Server
    <3> QED
      BY <3>1, <3>2, <3>3
  <2> QED
    BY <2>1, <2>20, <2>4, <2>5
<1>6. CASE setup = "main" /\ r = "P2"
  <2>1. /\ Len(Script(r)) = 4 /\ DOMAIN Script(r) = 1 .. 4
        /\ Script(r)[1].op = "bind" /\ Script(r)[1].port = 9000
        /\ Script(r)[2].op = "bind" /\ Script(r)[2].port = 9001
        /\ Script(r)[3].op = "accept" /\ Script(r)[3].port = 9000
        /\ Script(r)[4].op = "accept" /\ Script(r)[4].port = 9001
    BY <1>6, Scripts DEF I
  <2>2. /\ Counts(r)[1] = 0 /\ Listens(r)[1] = {}
        /\ Counts(r)[2] = 0 /\ Listens(r)[2] = {9000}
        /\ Counts(r)[3] = 0 /\ Listens(r)[3] = {9000, 9001}
        /\ Counts(r)[4] = 1 /\ Listens(r)[4] = {9000, 9001}
        /\ Counts(r)[5] = 2 /\ Listens(r)[5] = {9000, 9001}
    BY <1>6 DEF Counts, Listens
  <2>3. Used = {9000, 9001, 9100}
    BY <1>6 DEF Used
  <2>4. Row(r, 1)
    BY <1>6, <2>1, <2>2, <2>3 DEF Row, Ports, Client, Server, Nth
  <2>5. Row(r, 2)
    BY <1>6, <2>1, <2>2, <2>3 DEF Row, Ports, Client, Server, Nth
  <2>6. Row(r, 3)
    BY <1>6, <2>1, <2>2, <2>3 DEF Row, Ports, Client, Server, Nth
  <2>7. Row(r, 4)
    <3>1. Nth(r, 9001) = 2 /\ Server(9001) = r /\ 9001 \in Ports
      BY <1>6 DEF Nth, Server, Ports
    <3> QED
      BY <1>6, <3>1, <2>1, <2>2, <2>3 DEF Row
  <2>20. \A k \in 1 .. 5 : Standing(r, k)
    <3>1. Standing(r, 1)
      BY <1>6, <2>1, <2>2, <2>3 DEF Standing, Server
    <3>2. Standing(r, 2)
      BY <1>6, <2>1, <2>2, <2>3 DEF Standing, Server
    <3>3. Standing(r, 3)
      BY <1>6, <2>1, <2>2, <2>3 DEF Standing, Server
    <3>4. Standing(r, 4)
      BY <1>6, <2>1, <2>2, <2>3 DEF Standing, Server
    <3>5. Standing(r, 5)
      BY <1>6, <2>1, <2>2, <2>3 DEF Standing, Server
    <3> QED
      BY <3>1, <3>2, <3>3, <3>4, <3>5
  <2> QED
    BY <2>1, <2>20, <2>4, <2>5, <2>6, <2>7
<1>7. CASE setup = "mpcops_test" /\ r = "P2"
  <2>1. /\ Len(Script(r)) = 6 /\ DOMAIN Script(r) = 1 .. 6
        /\ Script(r)[1].op = "bind" /\ Script(r)[1].port = 9000
        /\ Script(r)[2].op = "accept" /\ Script(r)[2].port = 9000
        /\ Script(r)[3].op = "close" /\ Script(r)[3].port = 9000
        /\ Script(r)[4].op = "bind" /\ Script(r)[4].port = 9001
        /\ Script(r)[5].op = "accept" /\ Script(r)[5].port = 9001
        /\ Script(r)[6].op = "close" /\ Script(r)[6].port = 9001
    BY <1>7, Scripts DEF I
  <2>2. /\ Counts(r)[1] = 0 /\ Listens(r)[1] = {}
        /\ Counts(r)[2] = 0 /\ Listens(r)[2] = {9000}
        /\ Counts(r)[3] = 1 /\ Listens(r)[3] = {9000}
        /\ Counts(r)[4] = 1 /\ Listens(r)[4] = {}
        /\ Counts(r)[5] = 1 /\ Listens(r)[5] = {9001}
        /\ Counts(r)[6] = 2 /\ Listens(r)[6] = {9001}
        /\ Counts(r)[7] = 2 /\ Listens(r)[7] = {}
    BY <1>7 DEF Counts, Listens
  <2>3. Used = {9000, 9001, 9100}
    BY <1>7 DEF Used
  <2>4. Row(r, 1)
    BY <1>7, <2>1, <2>2, <2>3 DEF Row, Ports, Client, Server, Nth
  <2>5. Row(r, 2)
    BY <1>7, <2>1, <2>2, <2>3 DEF Row, Ports, Client, Server, Nth
  <2>6. Row(r, 3)
    BY <1>7, <2>1, <2>2, <2>3 DEF Row, Ports, Client, Server, Nth
  <2>7. Row(r, 4)
    BY <1>7, <2>1, <2>2, <2>3 DEF Row, Ports, Client, Server, Nth
  <2>8. Row(r, 5)
    <3>1. Nth(r, 9001) = 2 /\ Server(9001) = r /\ 9001 \in Ports
      BY <1>7 DEF Nth, Server, Ports
    <3>2. /\ Script(r)[5].op = "accept" /\ Script(r)[5].port = 9001 /\ 5 + 1 = 6
          /\ Counts(r)[5] = 1 /\ Counts(r)[6] = 2
          /\ Listens(r)[5] = {9001} /\ Listens(r)[6] = {9001} /\ 9001 \in Used
      BY <2>1, <2>2, <2>3
    <3> QED
      BY <3>1, <3>2 DEF Row
  <2>9. Row(r, 6)
    BY <1>7, <2>1, <2>2, <2>3 DEF Row, Ports, Client, Server, Nth
  <2>20. \A k \in 1 .. 7 : Standing(r, k)
    <3>1. Standing(r, 1)
      BY <1>7, <2>1, <2>2, <2>3 DEF Standing, Server
    <3>2. Standing(r, 2)
      BY <1>7, <2>1, <2>2, <2>3 DEF Standing, Server
    <3>3. Standing(r, 3)
      BY <1>7, <2>1, <2>2, <2>3 DEF Standing, Server
    <3>4. Standing(r, 4)
      BY <1>7, <2>1, <2>2, <2>3 DEF Standing, Server
    <3>5. Standing(r, 5)
      BY <1>7, <2>1, <2>2, <2>3 DEF Standing, Server
    <3>6. Standing(r, 6)
      BY <1>7, <2>1, <2>2, <2>3 DEF Standing, Server
    <3>7. Standing(r, 7)
      BY <1>7, <2>1, <2>2, <2>3 DEF Standing, Server
    <3> QED
      BY <3>1, <3>2, <3>3, <3>4, <3>5, <3>6, <3>7
  <2> QED
    BY <2>1, <2>20, <2>4, <2>5, <2>6, <2>7, <2>8, <2>9
<1> QED
  BY <1>1, <1>2, <1>3, <1>4, <1>5, <1>6, <1>7 DEF Roles

-----------------------------------------------------------------------------
(* Sequences of connections, and what a state says.                        *)

\* A connection comes to the end of a sequence.
LEMMA AppendIn ==
  ASSUME NEW S, NEW s \in Seq(S), NEW e \in S
  PROVE  /\ Append(s, e) \in Seq(S) /\ Len(Append(s, e)) = Len(s) + 1
         /\ \A i \in 1 .. Len(s) : Append(s, e)[i] = s[i]
         /\ Append(s, e)[Len(s) + 1] = e
         /\ \A c : In(Append(s, e), c) <=> In(s, c) \/ c = e
         /\ Distinct(s) /\ ~In(s, e) => Distinct(Append(s, e))
<1>1. Len(s) \in Nat
  OBVIOUS
<1>2. PICK w : w = Append(s, e)
  OBVIOUS
<1>3. /\ w \in Seq(S) /\ Len(w) = Len(s) + 1
      /\ \A i \in 1 .. Len(s) : w[i] = s[i]
      /\ w[Len(s) + 1] = e
  BY <1>2, AppendProperties
<1>4. \A c : In(w, c) <=> In(s, c) \/ c = e
  BY <1>1, <1>3 DEF In
<1>5. Distinct(s) /\ ~In(s, e) => Distinct(w)
  BY <1>1, <1>3 DEF In, Distinct
<1> QED
  BY <1>2, <1>3, <1>4, <1>5

\* The first connection leaves a sequence.
LEMMA TailIn ==
  ASSUME NEW S, NEW s \in Seq(S), s # <<>>
  PROVE  /\ Head(s) \in S /\ In(s, Head(s)) /\ Tail(s) \in Seq(S)
         /\ \A c : In(s, c) <=> In(Tail(s), c) \/ c = Head(s)
         /\ Distinct(s) => Distinct(Tail(s)) /\ ~In(Tail(s), Head(s))
<1>1. Len(s) \in Nat /\ Len(s) > 0
  BY EmptySeq
<1>2. PICK w, h : w = Tail(s) /\ h = Head(s)
  OBVIOUS
<1>3. /\ h = s[1] /\ h \in S /\ w \in Seq(S) /\ Len(w) = Len(s) - 1
      /\ \A i \in 1 .. Len(w) : w[i] = s[i + 1]
  BY <1>1, <1>2, HeadTailProperties
<1>4. \A i \in 1 .. Len(s) : i # 1 => i - 1 \in 1 .. Len(w) /\ s[i] = w[i - 1]
  BY <1>1, <1>3
<1>5. ASSUME NEW c PROVE In(s, c) <=> In(w, c) \/ c = h
  <2>1. ASSUME In(s, c) PROVE In(w, c) \/ c = h
    BY <1>3, <1>4, <2>1 DEF In
  <2>2. ASSUME In(w, c) PROVE In(s, c)
    <3>1. PICK i \in 1 .. Len(w) : w[i] = c
      BY <2>2 DEF In
    <3>2. i + 1 \in 1 .. Len(s) /\ s[i + 1] = c
      BY <1>1, <1>3, <3>1
    <3> QED
      BY <3>2 DEF In
  <2>3. In(s, h)
    BY <1>1, <1>3 DEF In
  <2> QED
    BY <2>1, <2>2, <2>3
<1>6. ASSUME Distinct(s) PROVE Distinct(w) /\ ~In(w, h)
  <2>1. \A i, j \in 1 .. Len(s) : s[i] = s[j] => i = j
    BY <1>6 DEF Distinct
  <2>2. ASSUME NEW i \in 1 .. Len(w)
        PROVE  /\ i + 1 \in 1 .. Len(s) /\ w[i] = s[i + 1] /\ w[i] # h
               /\ \A j \in 1 .. Len(w) : w[i] = w[j] => i = j
    <3>1. i + 1 \in 1 .. Len(s) /\ w[i] = s[i + 1] /\ 1 \in 1 .. Len(s) /\ i + 1 # 1
      BY <1>1, <1>3
    <3>2. ASSUME NEW j \in 1 .. Len(w), w[i] = w[j] PROVE i = j
      <4>1. j + 1 \in 1 .. Len(s) /\ w[j] = s[j + 1]
        BY <1>1, <1>3
      <4>2. i + 1 = j + 1
        BY <2>1, <3>1, <3>2, <4>1
      <4> QED
        BY <4>2, <1>1, <1>3
    <3>3. w[i] # h
      BY <1>3, <2>1, <3>1
    <3> QED
      BY <3>1, <3>2, <3>3
  <2> QED
    BY <2>2 DEF Distinct, In
<1> QED
  BY <1>2, <1>3, <1>5, <1>6

\* The empty sequence, and the range of any.
LEMMA EmptyIn ==
  /\ \A S : <<>> \in Seq(S) /\ Len(<<>>) = 0
  /\ \A c : ~In(<<>>, c)
  /\ Distinct(<<>>)
BY DEF In, Distinct

\* The elements of a sequence are its range.
LEMMA RangeIn ==
  ASSUME NEW S, NEW s \in Seq(S), NEW c
  PROVE  c \in Range(s) <=> In(s, c)
BY DEF Range, In

\* The two ends of a port.
LEMMA PortEnds ==
  \A n \in Ports : Client(n) \in Roles /\ Server(n) \in Roles /\ Client(n) # Server(n)
BY DEF Ports, Roles, Client, Server

\* Nothing but the choice of the program decides what the scripts are.
LEMMA SetupStays ==
  ASSUME setup' = setup
  PROVE  /\ Used' = Used
         /\ \A r \in Roles : /\ Script(r)' = Script(r) /\ Counts(r)' = Counts(r)
                             /\ Listens(r)' = Listens(r) /\ Label(r)' = Label(r)
BY DEF Used, Script, run_p0, run_p1, run_p2, Counts, Listens, Label

\* Who owns what.
LEMMA StateFacts ==
  ASSUME ConnectInv
  PROVE  /\ setup \in {"mpcops_test", "main", "ot_tests"}
         /\ \A r \in Roles : /\ step[r] \in Nat /\ Standing(r, step[r])
                             /\ inc[r] \in Nat /\ inc[r] <= MaxKills
                             /\ socks[r] \in Seq(Conn) /\ Len(socks[r]) \in Nat
         /\ \A n \in Ports : /\ owner[n] # "nobody" => owner[n] = Server(n) /\ n \in Used
                             /\ backlog[n] \in Seq(Conn)
                             /\ backlog[n] # <<>> => owner[n] = Server(n)
<1>1. setup \in {"mpcops_test", "main", "ot_tests"}
  BY ConnectAssumption DEF ConnectInv, Types
<1>2. ASSUME NEW r \in Roles
      PROVE  /\ step[r] \in Nat /\ Standing(r, step[r]) /\ inc[r] \in Nat /\ inc[r] <= MaxKills
             /\ socks[r] \in Seq(Conn) /\ Len(socks[r]) \in Nat
             /\ \A n \in Ports : owner[n] = r <=> n \in Listens(r)[step[r]]
  <2>1. step[r] \in 1 .. (Len(Script(r)) + 1)
    BY DEF ConnectInv, Places
  <2>2. Standing(r, step[r])
    BY <1>1, <2>1, Table
  <2>3. /\ step[r] \in Nat /\ inc[r] \in Nat /\ inc[r] <= MaxKills /\ socks[r] \in Seq(Conn)
    BY ConnectAssumption DEF ConnectInv, Types
  <2> QED
    BY <2>2, <2>3 DEF ConnectInv, Places
<1>3. ASSUME NEW n \in Ports, owner[n] # "nobody" PROVE owner[n] = Server(n) /\ n \in Used
  <2>1. owner[n] \in Roles
    BY <1>3 DEF ConnectInv, Types
  <2>2. n \in Listens(owner[n])[step[owner[n]]] /\ Standing(owner[n], step[owner[n]])
    BY <1>2, <2>1
  <2> QED
    BY <2>2 DEF Standing
<1>4. ASSUME NEW n \in Ports
      PROVE  backlog[n] \in Seq(Conn) /\ (backlog[n] # <<>> => owner[n] # "nobody")
  BY DEF ConnectInv, Types, Backlogs
<1> QED
  BY <1>1, <1>2, <1>3, <1>4

\* Where a process that executes a step of its script stands.
LEMMA AtRow ==
  ASSUME ConnectInv, NEW r \in Roles, NEW o, At(r, o)
  PROVE  /\ up[r] /\ step[r] \in 1 .. Len(Script(r)) /\ Row(r, step[r])
         /\ Script(r)[step[r]].op = o /\ Port(r) = Script(r)[step[r]].port
         /\ step[r] + 1 \in 1 .. (Len(Script(r)) + 1)
<1>1. up[r] /\ step[r] \in 1 .. Len(Script(r)) /\ Script(r)[step[r]].op = o
  BY StateFacts, Table DEF At
<1> QED
  BY <1>1, StateFacts, Table DEF Port

-----------------------------------------------------------------------------
(* The invariant is inductive.                                             *)

\* It holds before anything was started.
LEMMA ConnectInit == Init => ConnectInv
<1> SUFFICES ASSUME Init PROVE ConnectInv
  OBVIOUS
<1>1. setup \in {"mpcops_test", "main", "ot_tests"}
  BY ConnectAssumption DEF Init
<1>2. Types
  BY ConnectAssumption, EmptyIn DEF Init, Types
<1>3. \A r \in Roles : socks[r] = <<>> /\ step[r] = 1
  BY DEF Init
<1>4. \A n \in Ports : backlog[n] = <<>> /\ owner[n] = "nobody"
  BY DEF Init
<1>5. Places
  <2>1. SUFFICES ASSUME NEW r \in Roles
                 PROVE  /\ 1 \in 1 .. (Len(Script(r)) + 1) /\ Len(<<>>) = Counts(r)[1]
                        /\ \A port \in Ports : "nobody" = r <=> port \in Listens(r)[1]
    BY <1>3, <1>4 DEF Places
  <2>2. 1 \in 1 .. (Len(Script(r)) + 1) /\ Standing(r, 1)
    BY <1>1, Table
  <2>3. Counts(r)[1] = 0 /\ Listens(r)[1] = {} /\ r # "nobody"
    BY <2>2 DEF Standing, Roles
  <2> QED
    BY <2>2, <2>3, EmptyIn
<1>6. Sockets
  BY <1>3, EmptyIn DEF Sockets
<1>7. Backlogs
  BY <1>4, EmptyIn DEF Backlogs
<1>8. Ends
  <2>1. \A r \in Roles : \A c : ~Has(r, c)
    BY <1>3, EmptyIn DEF Has
  <2>2. \A c \in Conn : ~Waits(c)
    BY <1>4, EmptyIn DEF Waits, Conn
  <2> QED
    BY <2>1, <2>2 DEF Ends, HasEnd, WaitEnd
<1> QED
  BY <1>2, <1>5, <1>6, <1>7, <1>8 DEF ConnectInv

\* Steps that touch neither ports nor sockets.
LEMMA Quiet ==
  ASSUME ConnectInv, UNCHANGED <<setup, inc, step, owner, backlog, socks, dead>>,
         up' \in [Roles -> BOOLEAN], asleep' \in [Roles -> BOOLEAN],
         \A r \in Roles : ~up'[r] => ~up[r]
  PROVE  ConnectInv'
<1>1. setup' = setup
  OBVIOUS
<1>2. Types'
  BY DEF ConnectInv, Types
<1>3. Places'
  BY <1>1, SetupStays DEF ConnectInv, Places
<1>4. \A r, c : /\ Has(r, c)' = Has(r, c) /\ Waits(c)' = Waits(c)
                /\ Sound(c)' = Sound(c) /\ Current(c)' = Current(c)
  BY <1>1, SetupStays DEF Has, Waits, Sound, Current
<1>5. Sockets'
  BY <1>4 DEF ConnectInv, Sockets, Socket
<1>6. Backlogs'
  BY <1>4 DEF ConnectInv, Backlogs, Backlog
<1>7. Ends'
  BY <1>4 DEF ConnectInv, Ends, HasEnd, WaitEnd
<1> QED
  BY <1>2, <1>3, <1>5, <1>6, <1>7 DEF ConnectInv

\* A process goes on to its next step: what must hold of its own sockets and
\* ports; those of the others stay.
LEMMA PlacesNext ==
  ASSUME ConnectInv, NEW r \in Roles, setup' = setup, up' = up, Advance(r), up[r],
         step[r] + 1 \in 1 .. (Len(Script(r)) + 1),
         Len(socks'[r]) = Counts(r)[step[r] + 1],
         \A x \in Roles : x # r => socks'[x] = socks[x],
         \A n \in Ports : owner'[n] = r <=> n \in Listens(r)[step[r] + 1],
         \A x \in Roles, n \in Ports : x # r => (owner'[n] = x <=> owner[n] = x)
  PROVE  Places' /\ step' \in [Roles -> Nat]
<1>1. /\ step \in [Roles -> Nat] /\ step'[r] = step[r] + 1
      /\ \A x \in Roles : x # r => step'[x] = step[x]
  BY DEF ConnectInv, Types, Advance
<1>2. step' \in [Roles -> Nat]
  BY <1>1 DEF Advance
<1>3. ASSUME NEW x \in Roles
      PROVE  /\ step'[x] \in 1 .. (Len(Script(x)) + 1) /\ (~up[x] => step'[x] = 1)
             /\ Len(socks'[x]) = Counts(x)[step'[x]]
             /\ \A n \in Ports : owner'[n] = x <=> n \in Listens(x)[step'[x]]
  <2>1. CASE x = r
    BY <1>1, <2>1
  <2>2. CASE x # r
    <3>1. /\ step[x] \in 1 .. (Len(Script(x)) + 1) /\ (~up[x] => step[x] = 1)
          /\ Len(socks[x]) = Counts(x)[step[x]]
          /\ \A n \in Ports : owner[n] = x <=> n \in Listens(x)[step[x]]
      BY DEF ConnectInv, Places
    <3> QED
      BY <1>1, <2>2, <3>1
  <2> QED
    BY <2>1, <2>2
<1> QED
  BY <1>2, <1>3, SetupStays DEF Places

\* As long as nobody is killed, a sound connection stays so.
LEMMA Lives ==
  ASSUME setup' = setup, inc' = inc
  PROVE  \A c : /\ Sound(c)' = Sound(c) /\ Current(c)' = Current(c)
                /\ \A r, i : Socket(r, i, c)' = Socket(r, i, c)
<1>1. \A c : Sound(c)' = Sound(c) /\ Current(c)' = Current(c)
  BY SetupStays DEF Sound, Current
<1> QED
  BY <1>1 DEF Socket

\* A client is connected.
LEMMA ConnectedStep ==
  ASSUME ConnectInv, NEW r \in Roles, Connected(r)
  PROVE  ConnectInv'
<1>1. /\ Types /\ Places /\ Sockets /\ Backlogs /\ Ends
      /\ At(r, "connect") /\ owner[Port(r)] # "nobody" /\ Advance(r)
      /\ UNCHANGED <<setup, up, inc, asleep, owner, dead>>
  BY DEF ConnectInv, Connected
<1>2. PICK n, q, c : /\ n = Port(r) /\ q = owner[n]
                     /\ c = [client |-> r, cinc |-> inc[r], server |-> q, sinc |-> inc[q],
                             port |-> n]
  OBVIOUS
<1>3. /\ backlog' = [backlog EXCEPT ![n] = Append(@, c)]
      /\ socks' = [socks EXCEPT ![r] = Append(@, c)]
  BY <1>2 DEF Connected
<1>4. /\ up[r] /\ step[r] \in 1 .. Len(Script(r)) /\ Row(r, step[r])
      /\ Script(r)[step[r]].op = "connect" /\ n = Script(r)[step[r]].port
      /\ step[r] + 1 \in 1 .. (Len(Script(r)) + 1)
  BY <1>1, <1>2, AtRow
<1>5. /\ n \in Ports /\ n \in Used /\ Client(n) = r
      /\ Counts(r)[step[r] + 1] = Counts(r)[step[r]] + 1 /\ Nth(r, n) = Counts(r)[step[r]] + 1
      /\ Listens(r)[step[r] + 1] = Listens(r)[step[r]]
  BY <1>4 DEF Row
<1>6. q = Server(n) /\ q \in Roles /\ q # r
  BY <1>1, <1>2, <1>5, StateFacts, PortEnds
<1>7. /\ c \in Conn /\ c.client = r /\ c.server = q /\ c.port = n
      /\ c.cinc = inc[r] /\ c.sinc = inc[q]
  BY <1>2, <1>5, <1>6, StateFacts DEF Conn
<1>8. Sound(c) /\ Current(c)
  BY <1>5, <1>6, <1>7, StateFacts DEF Sound, Current
<1>9. PICK sr, bn : sr = socks[r] /\ bn = backlog[n]
  OBVIOUS
<1>10. sr \in Seq(Conn) /\ bn \in Seq(Conn) /\ Len(sr) \in Nat
  BY <1>5, <1>9, StateFacts
<1>11. /\ socks'[r] = Append(sr, c) /\ \A x \in Roles : x # r => socks'[x] = socks[x]
       /\ backlog'[n] = Append(bn, c) /\ \A m \in Ports : m # n => backlog'[m] = backlog[m]
  BY <1>1, <1>3, <1>5, <1>9 DEF Types
<1>12. /\ \A d : In(Append(sr, c), d) <=> In(sr, d) \/ d = c
       /\ \A d : In(Append(bn, c), d) <=> In(bn, d) \/ d = c
       /\ Append(sr, c) \in Seq(Conn) /\ Append(bn, c) \in Seq(Conn)
       /\ Len(Append(sr, c)) = Len(sr) + 1 /\ Append(sr, c)[Len(sr) + 1] = c
       /\ \A i \in 1 .. Len(sr) : Append(sr, c)[i] = sr[i]
       /\ Distinct(bn) /\ ~In(bn, c) => Distinct(Append(bn, c))
  BY <1>7, <1>10, AppendIn
<1>13. Len(sr) = Counts(r)[step[r]]
  BY <1>1, <1>9 DEF Places
<1>14. ~Has(r, c)
  <2>1. SUFFICES ASSUME NEW i \in 1 .. Len(sr), sr[i] = c PROVE FALSE
    BY <1>9 DEF Has, In
  <2>2. Socket(r, i, c)
    BY <1>1, <1>9, <2>1 DEF Sockets
  <2> QED
    BY <2>2, <1>5, <1>7, <1>10, <1>13 DEF Socket
<1>15. ~Has(q, c) /\ ~Waits(c)
  BY <1>1, <1>6, <1>7, <1>14, StateFacts DEF Ends, HasEnd, WaitEnd
<1>16. ASSUME NEW x \in Roles, x # r, x # q PROVE ~Has(x, c)
  BY <1>1, <1>7, <1>16 DEF Has, In, Sockets, Socket
<1>17. /\ \A d : Has(r, d)' <=> Has(r, d) \/ d = c
       /\ \A x \in Roles : x # r => \A d : Has(x, d)' = Has(x, d)
  BY <1>9, <1>11, <1>12 DEF Has
<1>18. ASSUME NEW d \in Conn PROVE Waits(d)' <=> Waits(d) \/ d = c
  <2>1. d.port \in Ports
    BY DEF Conn
  <2>2. CASE d.port = n
    BY <2>2, <1>9, <1>11, <1>12 DEF Waits
  <2>3. CASE d.port # n
    BY <2>1, <2>3, <1>7, <1>11 DEF Waits
  <2> QED
    BY <2>2, <2>3
<1>19. Types'
  <2>1. step' \in [Roles -> Nat]
    BY <1>1 DEF Types, Advance
  <2>2. socks' \in [Roles -> Seq(Conn)] /\ backlog' \in [Ports -> Seq(Conn)]
    BY <1>1, <1>3, <1>9, <1>12 DEF Types
  <2> QED
    BY <1>1, <2>1, <2>2 DEF Types
<1>20. Places'
  <2>1. \A m \in Ports : owner'[m] = r <=> m \in Listens(r)[step[r] + 1]
    BY <1>1, <1>5 DEF Places
  <2>2. Len(socks'[r]) = Counts(r)[step[r] + 1]
    BY <1>5, <1>11, <1>12, <1>13
  <2>3. \A x \in Roles, m \in Ports : x # r => (owner'[m] = x <=> owner[m] = x)
    BY <1>1
  <2> QED
    BY <1>1, <1>4, <1>11, <2>1, <2>2, <2>3, PlacesNext
<1>21. Sockets'
  <2>1. SUFFICES ASSUME NEW x \in Roles, NEW i \in 1 .. Len(socks'[x])
                 PROVE  Socket(x, i, socks'[x][i])
    BY <1>1, Lives DEF Sockets
  <2>2. CASE x # r
    BY <1>1, <1>11, <2>1, <2>2 DEF Sockets
  <2>3. CASE x = r /\ i \in 1 .. Len(sr)
    BY <1>1, <1>9, <1>11, <1>12, <2>1, <2>3 DEF Sockets
  <2>4. CASE x = r /\ i = Len(sr) + 1
    <3>1. socks'[x][i] = c
      BY <1>11, <1>12, <2>4
    <3>2. Socket(r, i, c)
      BY <1>5, <1>6, <1>7, <1>8, <1>13, <2>4 DEF Socket
    <3> QED
      BY <3>1, <3>2, <2>4
  <2> QED
    BY <1>10, <1>11, <1>12, <2>1, <2>2, <2>3, <2>4
<1>22. Backlogs'
  <2>1. SUFFICES ASSUME NEW m \in Ports
                 PROVE  /\ owner[m] = "nobody" => backlog'[m] = <<>>
                        /\ Distinct(backlog'[m])
                        /\ \A d \in Conn : In(backlog'[m], d) =>
                             /\ Sound(d) /\ d.port = m /\ d.sinc = inc[d.server]
                             /\ ~Has(d.server, d)'
    BY <1>1, Lives DEF Backlogs, Backlog
  <2>2. owner[m] = "nobody" => backlog'[m] = <<>>
    BY <1>1, <1>2, <1>11 DEF Backlogs
  <2>3. Distinct(backlog'[m])
    <3>1. CASE m = n
      <4>1. ~In(bn, c)
        BY <1>7, <1>9, <1>15 DEF Waits
      <4> QED
        BY <1>1, <1>9, <1>11, <1>12, <3>1, <4>1 DEF Backlogs
    <3>2. CASE m # n
      BY <1>1, <1>11, <3>2 DEF Backlogs
    <3> QED
      BY <3>1, <3>2
  <2>4. ASSUME NEW d \in Conn, In(backlog'[m], d)
        PROVE  Sound(d) /\ d.port = m /\ d.sinc = inc[d.server] /\ ~Has(d.server, d)'
    <3>1. CASE d = c
      <4>1. m = n
        BY <1>1, <1>7, <1>11, <1>15, <2>4, <3>1 DEF Backlogs, Backlog
      <4> QED
        BY <1>6, <1>7, <1>8, <1>15, <1>17, <3>1, <4>1
    <3>2. CASE d # c
      <4>1. In(backlog[m], d)
        BY <1>9, <1>11, <1>12, <2>4, <3>2, ZenonT(60)
      <4>2. Backlog(m, d)
        BY <1>1, <4>1 DEF Backlogs
      <4>3. d.server \in Roles
        BY DEF Conn
      <4> QED
        BY <1>17, <3>2, <4>2, <4>3 DEF Backlog
    <3> QED
      BY <3>1, <3>2
  <2> QED
    BY <2>2, <2>3, <2>4
<1>23. Ends'
  <2>1. ASSUME NEW d \in Conn PROVE WaitEnd(d)'
    <3>1. d.client \in Roles
      BY DEF Conn
    <3>2. CASE d = c
      BY <1>1, <1>7, <1>8, <1>17, <3>2, Lives DEF WaitEnd
    <3>3. CASE d # c
      <4>1. WaitEnd(d)
        BY <1>1 DEF Ends
      <4> QED
        BY <1>1, <1>17, <1>18, <3>1, <3>3, <4>1, Lives DEF WaitEnd
    <3> QED
      BY <3>2, <3>3
  <2>2. ASSUME NEW d \in Conn, NEW x \in Roles PROVE HasEnd(x, d)'
    <3>1. d.client \in Roles /\ d.server \in Roles
      BY DEF Conn
    <3>2. CASE d = c
      <4>1. Has(x, c)' => x = r
        BY <1>15, <1>16, <1>17
      <4>2. Current(c)' /\ Waits(c)'
        BY <1>1, <1>7, <1>8, <1>18, Lives
      <4> QED
        BY <1>6, <1>7, <3>2, <4>1, <4>2 DEF HasEnd
    <3>3. CASE d # c
      <4>1. HasEnd(x, d)
        BY <1>1 DEF Ends
      <4>2. \A y \in Roles : Has(y, d)' <=> Has(y, d)
        BY <1>17, <3>3
      <4>3. (Waits(d)' <=> Waits(d)) /\ (Current(d)' <=> Current(d))
        BY <1>1, <1>18, <3>3, Lives
      <4> QED
        BY <1>1, <3>1, <4>1, <4>2, <4>3 DEF HasEnd
    <3> QED
      BY <3>2, <3>3
  <2> QED
    BY <2>1, <2>2 DEF Ends
<1> QED
  BY <1>19, <1>20, <1>21, <1>22, <1>23 DEF ConnectInv

\* A server opens a port.
LEMMA BindStep ==
  ASSUME ConnectInv, NEW r \in Roles, Bind(r)
  PROVE  ConnectInv'
<1>1. /\ Types /\ Places /\ Sockets /\ Backlogs /\ Ends
      /\ At(r, "bind") /\ owner[Port(r)] = "nobody" /\ Advance(r)
      /\ UNCHANGED <<setup, up, inc, asleep, backlog, socks, dead>>
  BY DEF ConnectInv, Bind
<1>2. PICK n : n = Port(r)
  OBVIOUS
<1>3. owner' = [owner EXCEPT ![n] = r]
  BY <1>2 DEF Bind
<1>4. /\ up[r] /\ step[r] \in 1 .. Len(Script(r)) /\ Row(r, step[r])
      /\ Script(r)[step[r]].op = "bind" /\ n = Script(r)[step[r]].port
      /\ step[r] + 1 \in 1 .. (Len(Script(r)) + 1)
  BY <1>1, <1>2, AtRow
<1>5. /\ n \in Ports /\ Counts(r)[step[r] + 1] = Counts(r)[step[r]]
      /\ Listens(r)[step[r] + 1] = Listens(r)[step[r]] \cup {n}
  BY <1>4 DEF Row
<1>6. owner'[n] = r /\ \A m \in Ports : m # n => owner'[m] = owner[m]
  BY <1>1, <1>3, <1>5 DEF Types
<1>7. r # "nobody" /\ "nobody" \notin Roles
  BY DEF Roles
<1>8. Places' /\ step' \in [Roles -> Nat]
  <2>1. \A m \in Ports : owner'[m] = r <=> m \in Listens(r)[step[r] + 1]
    BY <1>1, <1>5, <1>6 DEF Places
  <2>2. \A x \in Roles, m \in Ports : x # r => (owner'[m] = x <=> owner[m] = x)
    BY <1>1, <1>2, <1>6, <1>7
  <2>3. Len(socks'[r]) = Counts(r)[step[r] + 1] /\ \A x \in Roles : x # r => socks'[x] = socks[x]
    BY <1>1, <1>5 DEF Places
  <2> QED
    BY <1>1, <1>4, <2>1, <2>2, <2>3, PlacesNext
<1>9. Types'
  BY <1>1, <1>3, <1>8 DEF Types
<1>10. \A x, c : (Has(x, c)' <=> Has(x, c)) /\ (Waits(c)' <=> Waits(c))
  BY <1>1 DEF Has, Waits
<1>11. Sockets'
  BY <1>1, Lives, ZenonT(60) DEF Sockets
<1>12. Backlogs'
  <2>1. \A m \in Ports : owner'[m] = "nobody" => owner[m] = "nobody"
    BY <1>6, <1>7
  <2>2. \A m, c : Backlog(m, c)' <=> Backlog(m, c)
    BY <1>1, <1>10, Lives DEF Backlog
  <2> QED
    BY <1>1, <2>1, <2>2 DEF Backlogs
<1>13. Ends'
  BY <1>1, <1>10, Lives DEF Ends, HasEnd, WaitEnd
<1> QED
  BY <1>8, <1>9, <1>11, <1>12, <1>13 DEF ConnectInv

\* A server accepts the connection that has waited longest.
LEMMA AcceptStep ==
  ASSUME ConnectInv, NEW r \in Roles, Accept(r)
  PROVE  ConnectInv'
<1>1. /\ Types /\ Places /\ Sockets /\ Backlogs /\ Ends
      /\ At(r, "accept") /\ backlog[Port(r)] # <<>> /\ Advance(r)
      /\ UNCHANGED <<setup, up, inc, asleep, owner, dead>>
  BY DEF ConnectInv, Accept
<1>2. PICK n, bn, h, sr : n = Port(r) /\ bn = backlog[n] /\ h = Head(bn) /\ sr = socks[r]
  OBVIOUS
<1>3. /\ socks' = [socks EXCEPT ![r] = Append(@, h)]
      /\ backlog' = [backlog EXCEPT ![n] = Tail(@)]
  BY <1>2 DEF Accept
<1>4. /\ up[r] /\ step[r] \in 1 .. Len(Script(r)) /\ Row(r, step[r])
      /\ Script(r)[step[r]].op = "accept" /\ n = Script(r)[step[r]].port
      /\ step[r] + 1 \in 1 .. (Len(Script(r)) + 1)
  BY <1>1, <1>2, AtRow
<1>5. /\ n \in Ports /\ Server(n) = r
      /\ Counts(r)[step[r] + 1] = Counts(r)[step[r]] + 1 /\ Nth(r, n) = Counts(r)[step[r]] + 1
      /\ Listens(r)[step[r] + 1] = Listens(r)[step[r]]
  BY <1>4 DEF Row
<1>6. sr \in Seq(Conn) /\ bn \in Seq(Conn) /\ Len(sr) \in Nat /\ bn # <<>>
  BY <1>1, <1>2, <1>5, StateFacts
<1>7. /\ h \in Conn /\ In(bn, h) /\ Tail(bn) \in Seq(Conn)
      /\ \A c : In(bn, c) <=> In(Tail(bn), c) \/ c = h
      /\ Distinct(bn) => Distinct(Tail(bn)) /\ ~In(Tail(bn), h)
  BY <1>2, <1>6, TailIn
<1>8. Distinct(bn) /\ Backlog(n, h)
  BY <1>1, <1>2, <1>5, <1>7 DEF Backlogs
<1>9. /\ Sound(h) /\ h.port = n /\ h.server = r /\ h.sinc = inc[r] /\ ~Has(r, h) /\ Waits(h)
      /\ h.client \in Roles /\ h.client # r /\ h.client = Client(n)
  BY <1>2, <1>5, <1>7, <1>8, PortEnds DEF Backlog, Sound, Waits
<1>10. /\ \A d : In(Append(sr, h), d) <=> In(sr, d) \/ d = h
       /\ Append(sr, h) \in Seq(Conn) /\ Len(Append(sr, h)) = Len(sr) + 1
       /\ Append(sr, h)[Len(sr) + 1] = h
       /\ \A i \in 1 .. Len(sr) : Append(sr, h)[i] = sr[i]
  BY <1>6, <1>7, AppendIn
<1>11. /\ socks'[r] = Append(sr, h) /\ \A x \in Roles : x # r => socks'[x] = socks[x]
       /\ backlog'[n] = Tail(bn) /\ \A m \in Ports : m # n => backlog'[m] = backlog[m]
  BY <1>1, <1>2, <1>3, <1>5 DEF Types
<1>12. Len(sr) = Counts(r)[step[r]]
  BY <1>1, <1>2 DEF Places
<1>13. /\ \A d : Has(r, d)' <=> Has(r, d) \/ d = h
       /\ \A x \in Roles : x # r => \A d : Has(x, d)' <=> Has(x, d)
  BY <1>2, <1>10, <1>11 DEF Has
<1>14. ASSUME NEW d \in Conn PROVE Waits(d)' <=> Waits(d) /\ d # h
  <2>1. d.port \in Ports
    BY DEF Conn
  <2>2. CASE d.port = n
    BY <2>2, <1>2, <1>7, <1>8, <1>11 DEF Waits
  <2>3. CASE d.port # n
    BY <2>1, <2>3, <1>9, <1>11 DEF Waits
  <2> QED
    BY <2>2, <2>3
<1>15. Places' /\ step' \in [Roles -> Nat]
  <2>1. \A m \in Ports : owner'[m] = r <=> m \in Listens(r)[step[r] + 1]
    BY <1>1, <1>5 DEF Places
  <2>2. Len(socks'[r]) = Counts(r)[step[r] + 1]
    BY <1>5, <1>10, <1>11, <1>12
  <2>3. \A x \in Roles, m \in Ports : x # r => (owner'[m] = x <=> owner[m] = x)
    BY <1>1
  <2> QED
    BY <1>1, <1>4, <1>11, <2>1, <2>2, <2>3, PlacesNext
<1>16. Types'
  <2>1. socks' \in [Roles -> Seq(Conn)] /\ backlog' \in [Ports -> Seq(Conn)]
    BY <1>1, <1>2, <1>3, <1>7, <1>10 DEF Types
  <2> QED
    BY <1>1, <1>15, <2>1 DEF Types
<1>17. Sockets'
  <2>1. SUFFICES ASSUME NEW x \in Roles, NEW i \in 1 .. Len(socks'[x])
                 PROVE  Socket(x, i, socks'[x][i])
    BY <1>1, Lives DEF Sockets
  <2>2. CASE x # r
    BY <1>1, <1>11, <2>1, <2>2 DEF Sockets
  <2>3. CASE x = r /\ i \in 1 .. Len(sr)
    BY <1>1, <1>2, <1>10, <1>11, <2>1, <2>3 DEF Sockets
  <2>4. CASE x = r /\ i = Len(sr) + 1
    <3>1. socks'[x][i] = h
      BY <1>10, <1>11, <2>4
    <3>2. Socket(r, i, h)
      BY <1>5, <1>9, <1>12, <2>4 DEF Socket
    <3> QED
      BY <3>1, <3>2, <2>4
  <2> QED
    BY <1>6, <1>10, <1>11, <2>1, <2>2, <2>3, <2>4
<1>18. Backlogs'
  <2>1. SUFFICES ASSUME NEW m \in Ports
                 PROVE  /\ owner[m] = "nobody" => backlog'[m] = <<>>
                        /\ Distinct(backlog'[m])
                        /\ \A d \in Conn : In(backlog'[m], d) =>
                             /\ Sound(d) /\ d.port = m /\ d.sinc = inc[d.server]
                             /\ ~Has(d.server, d)'
    BY <1>1, Lives DEF Backlogs, Backlog
  <2>2. owner[m] = "nobody" => backlog'[m] = <<>>
    BY <1>1, <1>2, <1>6, <1>11 DEF Backlogs
  <2>3. Distinct(backlog'[m])
    BY <1>1, <1>7, <1>8, <1>11 DEF Backlogs
  <2>4. ASSUME NEW d \in Conn, In(backlog'[m], d)
        PROVE  Sound(d) /\ d.port = m /\ d.sinc = inc[d.server] /\ ~Has(d.server, d)'
    <3>1. In(backlog[m], d)
      BY <1>2, <1>7, <1>11, <2>4
    <3>2. Backlog(m, d)
      BY <1>1, <3>1 DEF Backlogs
    <3>3. d # h
      BY <1>7, <1>8, <1>9, <1>11, <2>4, <3>2, ZenonT(60) DEF Backlog
    <3>4. d.server \in Roles
      BY DEF Conn
    <3> QED
      BY <1>13, <3>2, <3>3, <3>4 DEF Backlog
  <2> QED
    BY <2>2, <2>3, <2>4
<1>19. Ends'
  <2>1. ASSUME NEW d \in Conn PROVE WaitEnd(d)'
    <3>1. d.client \in Roles /\ WaitEnd(d)
      BY <1>1 DEF Conn, Ends
    <3>2. \A x \in Roles : Has(x, d) => Has(x, d)'
      BY <1>13
    <3> QED
      BY <1>1, <1>14, <3>1, <3>2, Lives DEF WaitEnd
  <2>2. ASSUME NEW d \in Conn, NEW x \in Roles PROVE HasEnd(x, d)'
    <3>1. d.client \in Roles /\ d.server \in Roles /\ HasEnd(x, d) /\ WaitEnd(d)
      BY <1>1 DEF Conn, Ends
    <3>2. \A y \in Roles : Has(y, d) => Has(y, d)'
      BY <1>13
    <3>3. CASE d = h
      <4>1. Has(r, h)' /\ (h.cinc < inc[h.client] \/ Has(h.client, h)')
        BY <1>9, <1>13, <3>1, <3>2, <3>3 DEF WaitEnd
      <4>2. ~Current(h)' => h \in dead'
        BY <1>1, <1>9, <3>1, <3>3, Lives DEF WaitEnd
      <4> QED
        BY <1>1, <1>9, <3>3, <4>1, <4>2 DEF HasEnd
    <3>4. CASE d # h
      <4>1. (Has(x, d)' <=> Has(x, d)) /\ (Waits(d)' <=> Waits(d)) /\ (Current(d)' <=> Current(d))
        BY <1>1, <1>13, <1>14, <3>4, Lives
      <4> QED
        BY <1>1, <3>1, <3>2, <4>1 DEF HasEnd
    <3> QED
      BY <3>3, <3>4
  <2> QED
    BY <2>1, <2>2 DEF Ends
<1> QED
  BY <1>15, <1>16, <1>17, <1>18, <1>19 DEF ConnectInv

\* Ports are closed, and with them what waits there.
LEMMA Closing ==
  ASSUME ConnectInv, NEW P \in SUBSET Ports, ClosePorts(P)
  PROVE  /\ owner' \in [Ports -> Roles \cup {"nobody"}] /\ backlog' \in [Ports -> Seq(Conn)]
         /\ \A m \in P : owner'[m] = "nobody" /\ backlog'[m] = <<>>
         /\ \A m \in Ports \ P : owner'[m] = owner[m] /\ backlog'[m] = backlog[m]
         /\ \A c : c \in Waiting(P) <=> \E m \in P : In(backlog[m], c)
         /\ \A c \in Conn : Waits(c)' <=> Waits(c) /\ c.port \notin P
         /\ \A c \in Conn : Waits(c) /\ c.port \in P => c \in Waiting(P)
<1>1. Types
  BY DEF ConnectInv
<1>2. /\ \A m \in P : owner'[m] = "nobody" /\ backlog'[m] = <<>>
      /\ \A m \in Ports \ P : owner'[m] = owner[m] /\ backlog'[m] = backlog[m]
  BY DEF ClosePorts
<1>3. owner' \in [Ports -> Roles \cup {"nobody"}] /\ backlog' \in [Ports -> Seq(Conn)]
  BY <1>1, EmptyIn DEF ClosePorts, Types
<1>4. ASSUME NEW c PROVE c \in Waiting(P) <=> \E m \in P : In(backlog[m], c)
  <2>1. \A m \in P : backlog[m] \in Seq(Conn)
    BY StateFacts
  <2>2. \A m \in P : c \in Range(backlog[m]) <=> In(backlog[m], c)
    BY <2>1, RangeIn
  <2>3. c \in Waiting(P) <=> \E m \in P : c \in Range(backlog[m])
    BY DEF Waiting
  <2> QED
    BY <2>2, <2>3
<1>5. ASSUME NEW c \in Conn PROVE Waits(c)' <=> Waits(c) /\ c.port \notin P
  <2>1. c.port \in Ports
    BY DEF Conn
  <2>2. CASE c.port \in P
    BY <1>2, <2>2, EmptyIn DEF Waits
  <2>3. CASE c.port \notin P
    BY <1>2, <2>1, <2>3 DEF Waits
  <2> QED
    BY <2>2, <2>3
<1>6. \A c \in Conn : Waits(c) /\ c.port \in P => c \in Waiting(P)
  BY <1>4 DEF Waits
<1> QED
  BY <1>2, <1>3, <1>4, <1>5, <1>6

\* A server closes its port.
LEMMA CloseStep ==
  ASSUME ConnectInv, NEW r \in Roles, Close(r)
  PROVE  ConnectInv'
<1>1. /\ Types /\ Places /\ Sockets /\ Backlogs /\ Ends
      /\ At(r, "close") /\ Advance(r) /\ UNCHANGED <<setup, up, inc, asleep, socks>>
  BY DEF ConnectInv, Close
<1>2. PICK n, P : n = Port(r) /\ P = {n}
  OBVIOUS
<1>3. ClosePorts(P) /\ dead' = dead \cup Waiting(P)
  BY <1>2 DEF Close
<1>4. /\ up[r] /\ step[r] \in 1 .. Len(Script(r)) /\ Row(r, step[r])
      /\ Script(r)[step[r]].op = "close" /\ n = Script(r)[step[r]].port
      /\ step[r] + 1 \in 1 .. (Len(Script(r)) + 1)
  BY <1>1, <1>2, AtRow
<1>5. /\ n \in Ports /\ Counts(r)[step[r] + 1] = Counts(r)[step[r]] /\ n \in Listens(r)[step[r]]
      /\ Listens(r)[step[r] + 1] = Listens(r)[step[r]] \ {n} /\ P \in SUBSET Ports
  BY <1>2, <1>4 DEF Row
<1>6. /\ owner' \in [Ports -> Roles \cup {"nobody"}] /\ backlog' \in [Ports -> Seq(Conn)]
      /\ \A m \in P : owner'[m] = "nobody" /\ backlog'[m] = <<>>
      /\ \A m \in Ports \ P : owner'[m] = owner[m] /\ backlog'[m] = backlog[m]
      /\ \A c \in Conn : Waits(c)' <=> Waits(c) /\ c.port \notin P
      /\ \A c \in Conn : Waits(c) /\ c.port \in P => c \in Waiting(P)
  BY <1>3, <1>5, Closing
<1>7. owner[n] = r /\ "nobody" \notin Roles
  BY <1>1, <1>5 DEF Places, Roles
<1>8. Places' /\ step' \in [Roles -> Nat]
  <2>1. \A m \in Ports : owner'[m] = r <=> m \in Listens(r)[step[r] + 1]
    BY <1>1, <1>2, <1>5, <1>6, <1>7 DEF Places
  <2>2. \A x \in Roles, m \in Ports : x # r => (owner'[m] = x <=> owner[m] = x)
    BY <1>2, <1>6, <1>7
  <2>3. Len(socks'[r]) = Counts(r)[step[r] + 1] /\ \A x \in Roles : x # r => socks'[x] = socks[x]
    BY <1>1, <1>5 DEF Places
  <2> QED
    BY <1>1, <1>4, <2>1, <2>2, <2>3, PlacesNext
<1>9. Types'
  BY <1>1, <1>6, <1>8 DEF Types
<1>10. \A x, c : Has(x, c)' <=> Has(x, c)
  BY <1>1 DEF Has
<1>11. Sockets'
  BY <1>1, Lives DEF Sockets
<1>12. Backlogs'
  <2>1. SUFFICES ASSUME NEW m \in Ports
                 PROVE  /\ owner'[m] = "nobody" => backlog'[m] = <<>>
                        /\ Distinct(backlog'[m])
                        /\ \A c \in Conn : In(backlog'[m], c) => Backlog(m, c)
    BY <1>1, <1>10, Lives DEF Backlogs, Backlog
  <2>2. CASE m \in P
    BY <1>6, <2>2, EmptyIn
  <2>3. CASE m \notin P
    BY <1>1, <1>6, <2>3 DEF Backlogs
  <2> QED
    BY <2>2, <2>3
<1>13. Ends'
  <2>1. ASSUME NEW c \in Conn PROVE WaitEnd(c)'
    <3>1. WaitEnd(c)
      BY <1>1 DEF Ends
    <3> QED
      BY <1>1, <1>3, <1>6, <1>10, <3>1, Lives DEF WaitEnd
  <2>2. ASSUME NEW c \in Conn, NEW x \in Roles PROVE HasEnd(x, c)'
    <3>1. HasEnd(x, c)
      BY <1>1 DEF Ends
    <3>2. c \in dead \/ Waits(c) => c \in dead' \/ Waits(c)'
      BY <1>3, <1>6
    <3>3. (Current(c)' <=> Current(c)) /\ (c \in dead => c \in dead') /\ inc' = inc
      BY <1>1, <1>3, Lives
    <3> QED
      BY <1>10, <3>1, <3>2, <3>3 DEF HasEnd
  <2> QED
    BY <2>1, <2>2 DEF Ends
<1> QED
  BY <1>8, <1>9, <1>11, <1>12, <1>13 DEF ConnectInv

\* A process is killed.
LEMMA KillStep ==
  ASSUME ConnectInv, NEW r \in Roles, Kill(r)
  PROVE  ConnectInv'
<1>1. /\ Types /\ Places /\ Sockets /\ Backlogs /\ Ends
      /\ up' = [up EXCEPT ![r] = FALSE] /\ inc' = [inc EXCEPT ![r] = @ + 1]
      /\ step' = [step EXCEPT ![r] = 1] /\ asleep' = [asleep EXCEPT ![r] = FALSE]
      /\ socks' = [socks EXCEPT ![r] = <<>>] /\ setup' = setup /\ Kills < MaxKills
  BY DEF ConnectInv, Kill
<1>2. PICK P : P = {port \in Ports : owner[port] = r}
  OBVIOUS
<1>3. ClosePorts(P) /\ dead' = dead \cup Range(socks[r]) \cup Waiting(P)
  BY <1>2 DEF Kill
<1>4. /\ owner' \in [Ports -> Roles \cup {"nobody"}] /\ backlog' \in [Ports -> Seq(Conn)]
      /\ \A m \in P : owner'[m] = "nobody" /\ backlog'[m] = <<>>
      /\ \A m \in Ports \ P : owner'[m] = owner[m] /\ backlog'[m] = backlog[m]
      /\ \A c \in Conn : Waits(c)' <=> Waits(c) /\ c.port \notin P
      /\ \A c \in Conn : Waits(c) /\ c.port \in P => c \in Waiting(P)
  BY <1>2, <1>3, Closing
<1>5. /\ inc[r] \in Nat /\ inc'[r] = inc[r] + 1 /\ inc[r] + 1 <= MaxKills
      /\ \A x \in Roles : x # r => inc'[x] = inc[x] /\ socks'[x] = socks[x] /\ step'[x] = step[x]
      /\ socks'[r] = <<>> /\ step'[r] = 1
  <2>1. \A x \in Roles : inc[x] \in Nat
    BY StateFacts
  <2>2. inc[r] < MaxKills
    BY <1>1, <2>1, ConnectAssumption DEF Kills, Roles
  <2> QED
    BY <1>1, <2>1, <2>2, ConnectAssumption DEF Types
<1>6. Types'
  <2>1. inc' \in [Roles -> 0 .. MaxKills]
    BY <1>1, <1>5, ConnectAssumption DEF Types
  <2>2. socks' \in [Roles -> Seq(Conn)] /\ step' \in [Roles -> Nat]
    BY <1>1, EmptyIn DEF Types
  <2> QED
    BY <1>1, <1>4, <2>1, <2>2 DEF Types
<1>7. "nobody" \notin Roles
  BY DEF Roles
<1>8. Places'
  <2>1. ASSUME NEW x \in Roles
        PROVE  /\ step'[x] \in 1 .. (Len(Script(x)) + 1) /\ (~up'[x] => step'[x] = 1)
               /\ Len(socks'[x]) = Counts(x)[step'[x]]
               /\ \A n \in Ports : owner'[n] = x <=> n \in Listens(x)[step'[x]]
    <3>1. CASE x = r
      <4>1. 1 \in 1 .. (Len(Script(r)) + 1) /\ Standing(r, 1)
        BY StateFacts, Table
      <4>2. Counts(r)[1] = 0 /\ Listens(r)[1] = {}
        BY <4>1 DEF Standing
      <4>3. \A n \in Ports : owner'[n] # r
        BY <1>2, <1>4, <1>7
      <4> QED
        BY <1>5, <3>1, <4>1, <4>2, <4>3, EmptyIn
    <3>2. CASE x # r
      <4>1. \A n \in Ports : owner'[n] = x <=> owner[n] = x
        BY <1>2, <1>4, <1>7, <3>2
      <4>2. up'[x] = up[x]
        BY <1>1, <3>2 DEF Types
      <4> QED
        BY <1>1, <1>5, <3>2, <4>1, <4>2 DEF Places
    <3> QED
      BY <3>1, <3>2
  <2> QED
    BY <1>1, <2>1, SetupStays DEF Places
<1>9. ASSUME NEW c, Sound(c) PROVE Sound(c)' /\ c \in Conn /\ c.client \in Roles /\ c.server \in Roles
                                   /\ c.client # c.server /\ c.port \in Ports
                                   /\ c.cinc \in Nat /\ c.sinc \in Nat
  <2>1. /\ c \in Conn /\ c.client \in Roles /\ c.server \in Roles /\ c.port \in Ports
        /\ c.cinc \in Nat /\ c.sinc \in Nat /\ c.client # c.server
        /\ c.cinc <= inc[c.client] /\ c.sinc <= inc[c.server]
    BY <1>9, PortEnds DEF Sound, Conn
  <2>2. \A x \in Roles : inc[x] \in Nat /\ inc'[x] \in Nat /\ inc[x] <= inc'[x]
    BY <1>5, StateFacts
  <2>3. c.cinc <= inc'[c.client] /\ c.sinc <= inc'[c.server]
    BY <2>1, <2>2
  <2> QED
    BY <1>1, <1>9, <2>1, <2>3, SetupStays DEF Sound
<1>10. /\ \A c : ~Has(r, c)'
       /\ \A x \in Roles : x # r => \A c : Has(x, c)' <=> Has(x, c)
  BY <1>5, EmptyIn DEF Has
<1>11. \A c : Has(r, c) => c \in dead'
  <2>1. socks[r] \in Seq(Conn)
    BY StateFacts
  <2> QED
    BY <1>3, <2>1, RangeIn DEF Has
<1>12. ASSUME NEW c \in Conn, Waits(c)
       PROVE  /\ Backlog(c.port, c) /\ Sound(c)
              /\ c.server = r => c \in dead' /\ ~Waits(c)'
              /\ c.server # r => Waits(c)'
  <2>1. c.port \in Ports /\ backlog[c.port] # <<>>
    BY <1>12, EmptyIn DEF Waits, Conn
  <2>2. Backlog(c.port, c) /\ Sound(c)
    BY <1>1, <1>12, <2>1 DEF Backlogs, Waits, Backlog
  <2>3. owner[c.port] = c.server
    BY <2>1, <2>2, StateFacts DEF Sound
  <2>4. c.port \in P <=> c.server = r
    BY <1>2, <2>1, <2>3
  <2> QED
    BY <1>3, <1>4, <1>12, <2>2, <2>4
<1>13. Sockets'
  <2>1. ASSUME NEW x \in Roles, NEW i \in 1 .. Len(socks'[x]), NEW c, c = socks'[x][i]
        PROVE  Socket(x, i, c)'
    <3>1. x # r
      BY <1>5, <2>1, EmptyIn
    <3>2. Socket(x, i, c)
      BY <1>1, <1>5, <2>1, <3>1 DEF Sockets
    <3>3. Sound(c)'
      BY <1>9, <3>2 DEF Socket
    <3> QED
      BY <1>5, <3>1, <3>2, <3>3 DEF Socket
  <2> QED
    BY <2>1 DEF Sockets
<1>14. Backlogs'
  <2>1. SUFFICES ASSUME NEW m \in Ports
                 PROVE  /\ owner'[m] = "nobody" => backlog'[m] = <<>>
                        /\ Distinct(backlog'[m])
                        /\ \A c \in Conn : In(backlog'[m], c) => Backlog(m, c)'
    BY DEF Backlogs
  <2>2. CASE m \in P
    BY <1>4, <2>2, EmptyIn
  <2>3. CASE m \notin P
    <3>1. owner'[m] = owner[m] /\ backlog'[m] = backlog[m]
      BY <1>4, <2>3
    <3>2. ASSUME NEW c \in Conn, In(backlog[m], c) PROVE Backlog(m, c)'
      <4>1. Backlog(m, c) /\ c.port = m /\ Sound(c) /\ c.sinc = inc[c.server] /\ ~Has(c.server, c)
        BY <1>1, <3>2 DEF Backlogs, Backlog
      <4>2. Waits(c) /\ Waits(c)'
        BY <1>4, <2>3, <3>2, <4>1 DEF Waits
      <4>3. c.server # r /\ c.server \in Roles /\ Sound(c)'
        BY <1>9, <1>12, <4>1, <4>2
      <4> QED
        BY <1>5, <1>10, <4>1, <4>3 DEF Backlog
    <3> QED
      BY <1>1, <3>1, <3>2 DEF Backlogs
  <2> QED
    BY <2>2, <2>3
<1>15. Ends'
  <2>1. ASSUME NEW c \in Conn PROVE WaitEnd(c)'
    <3>1. SUFFICES ASSUME Waits(c)'
                   PROVE  /\ c.cinc < inc'[c.client] \/ Has(c.client, c)'
                          /\ ~Current(c)' => c \in dead'
      BY DEF WaitEnd
    <3>2. Waits(c) /\ WaitEnd(c)
      BY <1>1, <1>4, <3>1 DEF Ends
    <3>3. /\ Sound(c) /\ c.server # r /\ c.client \in Roles /\ c.server \in Roles
          /\ c.cinc \in Nat /\ c.cinc <= inc[c.client]
      BY <1>9, <1>12, <3>1, <3>2 DEF Sound
    <3>4. CASE c.client = r
      <4>1. c.cinc < inc'[c.client]
        BY <1>5, <3>3, <3>4
      <4>2. c \in dead'
        <5>1. CASE Has(r, c)
          BY <1>11, <5>1
        <5>2. CASE ~Has(r, c)
          BY <1>3, <1>5, <3>2, <3>3, <3>4, <5>2 DEF WaitEnd, Current
        <5> QED
          BY <5>1, <5>2
      <4> QED
        BY <4>1, <4>2
    <3>5. CASE c.client # r
      <4>1. Current(c)' <=> Current(c)
        BY <1>5, <3>3, <3>5 DEF Current
      <4> QED
        BY <1>3, <1>5, <1>10, <3>2, <3>3, <3>5, <4>1 DEF WaitEnd
    <3> QED
      BY <3>4, <3>5
  <2>2. ASSUME NEW c \in Conn, NEW x \in Roles PROVE HasEnd(x, c)'
    <3>1. SUFFICES ASSUME Has(x, c)'
                   PROVE  /\ x = c.server => c.cinc < inc'[c.client] \/ Has(c.client, c)'
                          /\ x = c.client => c \in dead' \/ Waits(c)' \/ Has(c.server, c)'
                          /\ ~Current(c)' => c \in dead'
      BY DEF HasEnd
    <3>2. x # r /\ Has(x, c) /\ HasEnd(x, c)
      BY <1>1, <1>10, <3>1 DEF Ends
    <3>3. Sound(c) /\ x \in {c.client, c.server}
      BY <1>1, <3>2 DEF Has, In, Sockets, Socket
    <3>4. /\ c.client \in Roles /\ c.server \in Roles /\ c.cinc \in Nat /\ c.client # c.server
          /\ c.cinc <= inc[c.client]
      BY <1>9, <3>3 DEF Sound
    <3>5. CASE c.client = r
      <4>1. c.cinc < inc'[c.client] /\ x = c.server
        BY <1>5, <3>2, <3>3, <3>4, <3>5
      <4>2. c \in dead'
        <5>1. CASE Has(r, c)
          BY <1>11, <5>1
        <5>2. CASE ~Has(r, c)
          BY <1>3, <1>5, <3>2, <3>4, <3>5, <4>1, <5>2 DEF HasEnd, Current
        <5> QED
          BY <5>1, <5>2
      <4> QED
        BY <3>4, <4>1, <4>2
    <3>6. CASE c.server = r
      <4>1. c \in dead \/ Waits(c) \/ Has(r, c)
        BY <3>2, <3>3, <3>6 DEF HasEnd
      <4>2. c \in dead'
        BY <1>3, <1>11, <1>12, <3>6, <4>1
      <4> QED
        BY <3>2, <3>3, <3>6, <4>2
    <3>7. CASE c.client # r /\ c.server # r
      <4>1. Current(c)' <=> Current(c)
        BY <1>5, <3>4, <3>7 DEF Current
      <4>2. Waits(c) => Waits(c)'
        BY <1>12, <3>7
      <4> QED
        BY <1>3, <1>5, <1>10, <3>2, <3>4, <3>7, <4>1, <4>2 DEF HasEnd
    <3> QED
      BY <3>5, <3>6, <3>7
  <2> QED
    BY <2>1, <2>2 DEF Ends
<1> QED
  BY <1>6, <1>8, <1>13, <1>14, <1>15 DEF ConnectInv

\* Every step keeps the invariant.
LEMMA ConnectNext == ConnectInv /\ [Next]_vars => ConnectInv'
<1> SUFFICES ASSUME ConnectInv, [Next]_vars PROVE ConnectInv'
  OBVIOUS
<1>1. up \in [Roles -> BOOLEAN] /\ asleep \in [Roles -> BOOLEAN]
  BY DEF ConnectInv, Types
<1>2. CASE UNCHANGED vars
  BY <1>1, <1>2, Quiet DEF vars
<1>3. ASSUME NEW r \in Roles, RoleStep(r) PROVE ConnectInv'
  <2>1. CASE Refused(r)
    <3>1. asleep' \in [Roles -> BOOLEAN]
      BY <1>1, <2>1 DEF Refused
    <3> QED
      BY <1>1, <2>1, <3>1, Quiet DEF Refused
  <2>2. CASE Wake(r)
    <3>1. asleep' \in [Roles -> BOOLEAN]
      BY <1>1, <2>2 DEF Wake
    <3> QED
      BY <1>1, <2>2, <3>1, Quiet DEF Wake
  <2> QED
    BY <1>3, <2>1, <2>2, ConnectedStep, BindStep, AcceptStep, CloseStep DEF RoleStep
<1>4. ASSUME NEW r \in Roles, Start(r) PROVE ConnectInv'
  <2>1. up' \in [Roles -> BOOLEAN] /\ \A x \in Roles : ~up'[x] => ~up[x]
    BY <1>1, <1>4 DEF Start
  <2> QED
    BY <1>1, <1>4, <2>1, Quiet DEF Start
<1> QED
  BY <1>2, <1>3, <1>4, KillStep DEF Next

\* ConnectInv is an invariant.
LEMMA ConnectAlways == Spec => []ConnectInv
BY ConnectInit, ConnectNext, PTL DEF Spec

-----------------------------------------------------------------------------
(* What follows from the invariant.                                        *)

\* Type correctness: also, a port with no listener has no backlog, and only a
\* process that runs listens.
THEOREM ConnectTypeCorrect == Spec => []TypeOK
<1>1. ASSUME ConnectInv PROVE TypeOK
  <2>1. ASSUME NEW n \in Ports, owner[n] # "nobody" PROVE up[owner[n]]
    <3>1. PICK r \in Roles : r = owner[n]
      BY <1>1, <2>1 DEF ConnectInv, Types
    <3>2. n \in Listens(r)[step[r]] /\ (~up[r] => step[r] = 1)
      BY <1>1, <3>1 DEF ConnectInv, Places
    <3>3. step[r] = 1 => Listens(r)[step[r]] = {}
      BY <1>1, StateFacts DEF Standing
    <3> QED
      BY <3>1, <3>2, <3>3
  <2> QED
    BY <1>1, <2>1 DEF TypeOK, ConnectInv, Types, Places, Backlogs
<1> QED
  BY <1>1, ConnectAlways, PTL

\* The port of a socket says whose label it bears.
LEMMA SocketLabel ==
  ASSUME ConnectInv, NEW r \in Roles, NEW i \in DOMAIN socks[r], NEW c, c = socks[r][i]
  PROVE  /\ i \in 1 .. Len(socks[r]) /\ Socket(r, i, c) /\ Has(r, c) /\ c \in Conn
         /\ OtherEnd(c, r) = Label(r)[i]
<1>1. i \in 1 .. Len(socks[r])
  BY StateFacts
<1>2. Socket(r, i, c) /\ Has(r, c)
  BY <1>1 DEF ConnectInv, Sockets, Has, In
<1>3. /\ c \in Conn /\ c.port \in Used /\ c.client = Client(c.port) /\ c.server = Server(c.port)
      /\ r \in {c.client, c.server} /\ Nth(r, c.port) = i
  BY <1>2 DEF Socket, Sound
<1>4. OtherEnd(c, r) = Label(r)[i]
  <2>1. CASE setup = "ot_tests"
    BY <1>3, <2>1 DEF Used, Client, Server, Nth, OtherEnd, Label, Roles
  <2>2. CASE setup # "ot_tests"
    <3>1. CASE c.port = 9000
      BY <1>3, <2>2, <3>1 DEF Client, Server, Nth, OtherEnd, Label, Roles
    <3>2. CASE c.port = 9001
      BY <1>3, <2>2, <3>2 DEF Client, Server, Nth, OtherEnd, Label, Roles
    <3>3. CASE c.port = 9100
      BY <1>3, <2>2, <3>3 DEF Client, Server, Nth, OtherEnd, Label, Roles
    <3> QED
      BY <1>3, <2>2, <3>1, <3>2, <3>3 DEF Used
  <2> QED
    BY <2>1, <2>2
<1> QED
  BY <1>1, <1>2, <1>3, <1>4

\* Every socket is connected to the role the program takes it for, after any
\* number of kills and restarts in any order.
THEOREM LabelsCorrect == Spec => []LabelsRight
<1>1. ASSUME ConnectInv PROVE LabelsRight
  BY <1>1, SocketLabel DEF LabelsRight
<1> QED
  BY <1>1, ConnectAlways, PTL

\* A connection of a client that still waits when all are ready is at an open
\* acceptor of P2 in main, which has served the dead client before it.
LEMMA LeftBehind ==
  ASSUME ConnectInv, AllReady, NEW c \in Conn, Waits(c), Has(c.client, c), c \notin dead
  PROVE  setup = "main" /\ dead # {}
<1>1. c.port \in Ports /\ backlog[c.port] # <<>>
  BY EmptyIn DEF Waits, Conn
<1>2. Sound(c) /\ c.sinc = inc[c.server] /\ ~Has(c.server, c)
  BY <1>1 DEF ConnectInv, Backlogs, Waits, Backlog
<1>3. PICK s \in Roles : s = c.server /\ owner[c.port] = s /\ s = Server(c.port)
  BY <1>1, <1>2, StateFacts DEF Sound, Conn
<1>4. c.port \in Listens(s)[step[s]] /\ step[s] = Len(Script(s)) + 1
  <2>1. step[s] \in 1 .. (Len(Script(s)) + 1) /\ step[s] > Len(Script(s))
    BY DEF ConnectInv, Places, AllReady, Ready
  <2>2. Len(Script(s)) \in Nat
    BY StateFacts, Table
  <2> QED
    BY <1>1, <1>3, <2>1, <2>2 DEF ConnectInv, Places
<1>5. setup = "main" /\ s = "P2" /\ Len(socks[s]) = 2
  BY <1>4, StateFacts DEF Standing, ConnectInv, Places
<1>6. c.port \in {9000, 9001}
  BY <1>1, <1>3, <1>5 DEF Server
<1>7. PICK i \in 1 .. Len(socks[s]) : i = Nth(s, c.port)
  BY <1>5, <1>6 DEF Nth
<1>8. PICK d : d = socks[s][i]
  OBVIOUS
<1>9. d \in Conn /\ Socket(s, i, d) /\ Has(s, d)
  BY <1>7, <1>8 DEF ConnectInv, Sockets, Socket, Sound, Has, In
<1>10. d.port = c.port
  <2>1. d.port \in {9000, 9001, 9100} /\ s \in {Client(d.port), Server(d.port)} /\ Nth(s, d.port) = i
    BY <1>5, <1>9 DEF Socket, Sound, Used
  <2> QED
    BY <1>5, <1>6, <1>7, <2>1 DEF Client, Server, Nth
<1>11. /\ d.client = c.client /\ d.server = c.server /\ d.sinc = c.sinc
  BY <1>2, <1>3, <1>9, <1>10 DEF Socket, Sound
<1>12. d.cinc # c.cinc
  <2>1. d # c
    BY <1>2, <1>3, <1>9
  <2> QED
    BY <1>9, <1>10, <1>11, <2>1 DEF Conn
<1>13. c.cinc = inc[c.client]
  BY <1>2 DEF ConnectInv, Ends, WaitEnd, Current
<1>14. ~Current(d)
  BY <1>11, <1>12, <1>13 DEF Current
<1>15. d \in dead
  BY <1>3, <1>9, <1>14 DEF ConnectInv, Ends, HasEnd
<1> QED
  BY <1>5, <1>15

\* When all processes are ready every socket is paired with one of the role it
\* is labelled with or is known to fail: no connection waits in a backlog that
\* nobody serves, but for those of restarted processes in main.
THEOREM PairedCorrect == Spec => []ReadyMeansPaired
<1>1. ASSUME ConnectInv, AllReady, NEW r \in Roles, NEW i \in DOMAIN socks[r]
      PROVE  \/ socks[r][i] \in Range(socks[Label(r)[i]])
             \/ socks[r][i] \in dead
             \/ setup = "main" /\ dead # {}
  <2>1. PICK c : c = socks[r][i]
    OBVIOUS
  <2>2. Socket(r, i, c) /\ Has(r, c) /\ c \in Conn /\ OtherEnd(c, r) = Label(r)[i]
    BY <1>1, <2>1, SocketLabel
  <2>3. HasEnd(r, c) /\ r \in {c.client, c.server}
    BY <1>1, <2>2 DEF ConnectInv, Ends, Socket
  <2>4. \A x \in Roles : Has(x, c) => c \in Range(socks[x])
    BY <1>1, StateFacts, RangeIn DEF Has
  <2>5. CASE r = c.client
    BY <1>1, <2>1, <2>2, <2>3, <2>4, <2>5, LeftBehind DEF HasEnd, OtherEnd, Conn
  <2>6. CASE r = c.server /\ r # c.client
    <3>1. c.cinc < inc[c.client] \/ Has(c.client, c)
      BY <2>2, <2>3, <2>6 DEF HasEnd
    <3>2. c.cinc \in Nat /\ inc[c.client] \in Nat /\ c.client \in Roles
      BY <1>1, <2>2, StateFacts DEF Conn
    <3>3. c.cinc < inc[c.client] => c \in dead
      BY <2>2, <2>3, <3>2 DEF HasEnd, Current
    <3> QED
      BY <2>1, <2>2, <2>4, <2>6, <3>1, <3>2, <3>3 DEF OtherEnd
  <2> QED
    BY <2>3, <2>5, <2>6
<1>2. ConnectInv => ReadyMeansPaired
  BY <1>1 DEF ReadyMeansPaired
<1> QED
  BY <1>2, ConnectAlways, PTL
=============================================================================
