------------------------------ MODULE OTProofs ------------------------------
(***************************************************************************)
(* Theorems about OTManager, for every plan, group, oracle and number of   *)
(* kills that satisfy its assumptions.                                     *)
(*                                                                         *)
(* First one process: its queue, its threads, its futures and its socket.  *)
(* Then both processes and the messages between them: what ot_receive      *)
(* delivers is right.  Last, the refinement: the managers implement the    *)
(* trusted party of IdealOT.                                               *)
(***************************************************************************)
EXTENDS OTImplementsIdeal, OperatorProofs

-----------------------------------------------------------------------------
(* One process.                                                            *)

Live(s) == worker[s] \in Tasks \ {"begin"}

\* The queue holds the calls after the one that the worker has taken last.
QueueOK(s) ==
  /\ IsSeq(fut[s]) /\ IsSeq(choices[s]) /\ IsSeq(tasks[s])
  /\ Len(choices[s]) = Len(fut[s]) /\ Len(fut[s]) <= Len(Script[s])
  /\ cur[s] \in 0 .. Len(fut[s]) /\ Len(tasks[s]) = Len(fut[s]) - cur[s]
  /\ \A i \in 1 .. Len(tasks[s]) : tasks[s][i] = cur[s] + i
  /\ \A k \in 1 .. Len(fut[s]) : choices[s][k] \in ChoicesOf(Script[s][k])

\* The calls before the current one have been settled, those after it have not.
FuturesOK(s) ==
  /\ \A k \in 1 .. Len(fut[s]) : k > cur[s] => fut[s][k] = Pending
  /\ \A k \in 1 .. Len(fut[s]) : k < cur[s] => fut[s][k].is # "pending"
  /\ worker[s] \in Tasks => cur[s] >= 1 /\ fut[s][cur[s]] = Pending
  /\ worker[s] \notin Tasks /\ owner[s] # "killed" /\ cur[s] >= 1
       => fut[s][cur[s]].is # "pending"

\* The owner, the worker and the flag between them.
ThreadsOK(s) ==
  /\ owner[s] \in {"run", "await", "unwind", "join", "flush", "gone", "killed"}
  /\ worker[s] \in {"check", "asleep", "gone"} \cup Tasks
  /\ running[s] \in BOOLEAN
  /\ worker[s] = "asleep" => tasks[s] = <<>> /\ running[s]
  /\ worker[s] = "gone" /\ owner[s] # "killed" => tasks[s] = <<>> /\ ~running[s]
  /\ owner[s] \in {"flush", "gone", "killed"} => worker[s] = "gone"
  /\ owner[s] \in {"run", "await", "unwind"} => running[s]

\* What a task has in its local variables when it takes its next step.
TaskOK(s) ==
  LET c == Call(s)
      l == loc[s]
      chosen == /\ l.q \in [1 .. c.size -> BOOLEAN]
                /\ c.api = "recv_batch" => l.q = choices[s][cur[s]]
  IN  /\ Live(s) => ~Mute(c) /\ open[s]
      /\ worker[s] = "recv_B" => c.api \in Senders /\ l \in SenderDraws
      /\ worker[s] = "recv_eq" => c.api = "ot_send" /\ DOMAIN l = 1 .. c.size
      /\ worker[s] = "recv_A" => c.api \in Receivers /\ chosen
      /\ worker[s] = "recv_seed" =>
           /\ c.api \in Receivers /\ chosen
           /\ DOMAIN l = {"q", "A", "comm", "b"} /\ l.b \in [1 .. c.size -> ReceiverDraws]
      /\ worker[s] = "flush" => c.api \in {"ot_send", "ot_receive"}
      /\ worker[s] = "recv_masked" => c.api = "ot_receive"
      /\ worker[s] \in {"flush", "recv_masked"} /\ c.api = "ot_receive" =>
           DOMAIN l = {"r_q"} /\ DOMAIN l.r_q = 1 .. c.size

MsgOK(m) == m.kind = "B" => DOMAIN m.v = 1 .. m.n

\* The two queues at the socket of s; a closed socket has none.
SocketOK(s) ==
  /\ IsSeq(net[s]) /\ IsSeq(out[s]) /\ open[s] \in BOOLEAN
  /\ \A i \in 1 .. Len(net[s]) : MsgOK(net[s][i])
  /\ \A i \in 1 .. Len(out[s]) : MsgOK(out[s][i])
  /\ ~open[s] => out[s] = <<>> /\ net[s] = <<>>

ProcessOK(s) == QueueOK(s) /\ FuturesOK(s) /\ ThreadsOK(s) /\ TaskOK(s) /\ SocketOK(s)

\* The variables are functions on the two sides.
Functions ==
  /\ owner \in [Sides -> {"run", "await", "unwind", "join", "flush", "gone", "killed"}]
  /\ worker \in [Sides -> {"check", "asleep", "gone"} \cup Tasks]
  /\ running \in [Sides -> BOOLEAN] /\ open \in [Sides -> BOOLEAN]
  /\ choices = [s \in Sides |-> choices[s]] /\ fut = [s \in Sides |-> fut[s]]
  /\ tasks = [s \in Sides |-> tasks[s]] /\ cur = [s \in Sides |-> cur[s]]
  /\ loc = [s \in Sides |-> loc[s]]
  /\ out = [s \in Sides |-> out[s]] /\ net = [s \in Sides |-> net[s]]
  /\ plan \in Plans /\ kills \in 0 .. MaxKills

LocalInv == Functions /\ \A s \in Sides : ProcessOK(s)

-----------------------------------------------------------------------------
(* The sockets.                                                            *)

\* There are two sides.
LEMMA SideFacts ==
  ASSUME NEW s \in Sides
  PROVE  /\ Other(s) \in Sides /\ Other(s) # s /\ Other(Other(s)) = s
         /\ \A x \in Sides : x = s \/ x = Other(s)
BY DEF Sides, Other

\* The socket variables are functions on the sides.
SocketFns ==
  /\ out = [s \in Sides |-> out[s]] /\ net = [s \in Sides |-> net[s]]
  /\ open \in [Sides -> BOOLEAN]

\* A message is handed to the socket.
LEMMA SayOK ==
  ASSUME NEW s \in Sides, SocketFns, \A x \in Sides : SocketOK(x), open[s],
         NEW kind, NEW n, NEW v, kind = "B" => DOMAIN v = 1 .. n,
         Say(s, kind, n, v), UNCHANGED <<net, open>>
  PROVE  SocketFns' /\ \A x \in Sides : SocketOK(x)'
<1> DEFINE m == [kind |-> kind, n |-> n, v |-> v]
<1>1. /\ out'[s] = Append(out[s], m) /\ \A x \in Sides : x # s => out'[x] = out[x]
      /\ out' = [x \in Sides |-> out'[x]]
  BY DEF Say, SocketFns
<1>2. MsgOK(m)
  BY DEF MsgOK
<1> HIDE DEF m
<1>3. SocketOK(s)'
  <2>1. IsSeq(out[s]) /\ Len(out[s]) \in Nat
    BY DEF SocketOK, IsSeq
  <2>2. /\ IsSeq(Append(out[s], m)) /\ Len(Append(out[s], m)) = Len(out[s]) + 1
        /\ \A i \in 1 .. Len(out[s]) : Append(out[s], m)[i] = out[s][i]
        /\ Append(out[s], m)[Len(out[s]) + 1] = m
    BY <2>1, AppendIsSeq
  <2>3. \A i \in 1 .. Len(out'[s]) : MsgOK(out'[s][i])
    BY <1>1, <1>2, <2>1, <2>2 DEF SocketOK
  <2> QED
    BY <1>1, <2>2, <2>3 DEF SocketOK, MsgOK
<1>4. ASSUME NEW x \in Sides, x # s
      PROVE  SocketOK(x)'
  BY <1>1, <1>4 DEF SocketOK, MsgOK
<1> QED
  BY <1>1, <1>3, <1>4 DEF SocketFns

\* A message is read.
LEMMA TakeOK ==
  ASSUME NEW s \in Sides, SocketFns, \A x \in Sides : SocketOK(x), open[s],
         net[s] # <<>>, net' = [net EXCEPT ![s] = Tail(@)], UNCHANGED <<out, open>>
  PROVE  SocketFns' /\ \A x \in Sides : SocketOK(x)'
<1>1. /\ net'[s] = Tail(net[s]) /\ \A x \in Sides : x # s => net'[x] = net[x]
      /\ net' = [x \in Sides |-> net'[x]]
  BY DEF SocketFns
<1>2. /\ IsSeq(net[s]) /\ Len(net[s]) \in Nat
      /\ IsSeq(Tail(net[s])) /\ Len(net[s]) >= 1 /\ Len(Tail(net[s])) = Len(net[s]) - 1
      /\ \A i \in 1 .. Len(Tail(net[s])) : Tail(net[s])[i] = net[s][i + 1]
  BY TailIsSeq DEF SocketOK, IsSeq
<1>3. ASSUME NEW i \in 1 .. Len(net'[s]) PROVE MsgOK(net'[s][i])
  <2>1. i \in 1 .. Len(Tail(net[s])) /\ net'[s][i] = Tail(net[s])[i]
    BY <1>1
  <2>2. i + 1 \in 1 .. Len(net[s]) /\ net'[s][i] = net[s][i + 1]
    BY <1>2, <2>1
  <2> QED
    BY <2>2 DEF SocketOK
<1>4. SocketOK(s)'
  BY <1>1, <1>2, <1>3 DEF SocketOK, MsgOK
<1>5. ASSUME NEW x \in Sides, x # s
      PROVE  SocketOK(x)'
  BY <1>1, <1>5 DEF SocketOK, MsgOK
<1> QED
  BY <1>1, <1>4, <1>5 DEF SocketFns

\* A message is read and the answer handed to the socket.
LEMMA TakeSayOK ==
  ASSUME NEW s \in Sides, SocketFns, \A x \in Sides : SocketOK(x), open[s],
         net[s] # <<>>, net' = [net EXCEPT ![s] = Tail(@)], UNCHANGED open,
         NEW kind, NEW n, NEW v, kind = "B" => DOMAIN v = 1 .. n, Say(s, kind, n, v)
  PROVE  SocketFns' /\ \A x \in Sides : SocketOK(x)'
<1> DEFINE m == [kind |-> kind, n |-> n, v |-> v]
<1>1. /\ out'[s] = Append(out[s], m) /\ \A x \in Sides : x # s => out'[x] = out[x]
      /\ out' = [x \in Sides |-> out'[x]]
      /\ net'[s] = Tail(net[s]) /\ \A x \in Sides : x # s => net'[x] = net[x]
      /\ net' = [x \in Sides |-> net'[x]]
  BY DEF Say, SocketFns
<1>2. MsgOK(m)
  BY DEF MsgOK
<1> HIDE DEF m
<1>3. SocketOK(s)'
  <2>1. /\ IsSeq(net[s]) /\ Len(net[s]) \in Nat /\ IsSeq(out[s]) /\ Len(out[s]) \in Nat
        /\ IsSeq(Tail(net[s])) /\ Len(net[s]) >= 1 /\ Len(Tail(net[s])) = Len(net[s]) - 1
        /\ \A i \in 1 .. Len(Tail(net[s])) : Tail(net[s])[i] = net[s][i + 1]
    BY TailIsSeq DEF SocketOK, IsSeq
  <2>2. /\ IsSeq(Append(out[s], m)) /\ Len(Append(out[s], m)) = Len(out[s]) + 1
        /\ \A i \in 1 .. Len(out[s]) : Append(out[s], m)[i] = out[s][i]
        /\ Append(out[s], m)[Len(out[s]) + 1] = m
    BY <2>1, AppendIsSeq
  <2>3. \A i \in 1 .. Len(out'[s]) : MsgOK(out'[s][i])
    BY <1>1, <1>2, <2>1, <2>2 DEF SocketOK
  <2>4. \A i \in 1 .. Len(net'[s]) : MsgOK(net'[s][i])
    BY <1>1, <2>1, SMTT(60) DEF SocketOK
  <2> QED
    BY <1>1, <2>1, <2>2, <2>3, <2>4 DEF SocketOK, MsgOK
<1>4. ASSUME NEW x \in Sides, x # s
      PROVE  SocketOK(x)'
  BY <1>1, <1>4 DEF SocketOK, MsgOK
<1> QED
  BY <1>1, <1>3, <1>4 DEF SocketFns

\* A socket is closed.
LEMMA CloseOK ==
  ASSUME NEW s \in Sides, SocketFns, \A x \in Sides : SocketOK(x), CloseSocket(s)
  PROVE  /\ SocketFns' /\ \A x \in Sides : SocketOK(x)'
         /\ open'[Other(s)] = open[Other(s)] /\ ~open'[s]
         /\ out'[Other(s)] = out[Other(s)] /\ out'[s] = <<>> /\ net'[s] = <<>>
         /\ Len(net'[Other(s)]) \in 0 .. Len(net[Other(s)])
         /\ \A i \in 1 .. Len(net'[Other(s)]) : net'[Other(s)][i] = net[Other(s)][i]
<1> DEFINE o == Other(s)
<1>0. o \in Sides /\ o # s /\ \A x \in Sides : x = s \/ x = o
  BY SideFacts
<1> HIDE DEF o
<1>1. /\ open' = [open EXCEPT ![s] = FALSE] /\ out' = [out EXCEPT ![s] = <<>>]
      /\ \E n \in IF net[s] = <<>> THEN {Len(net[o])} ELSE 0 .. Len(net[o]) :
           net' = [net EXCEPT ![s] = <<>>, ![o] = SubSeq(@, 1, n)]
  BY DEF CloseSocket, o
<1>2. Len(net[o]) \in Nat /\ IsSeq(net[o])
  BY <1>0 DEF SocketOK, IsSeq
<1>3. PICK n \in 0 .. Len(net[o]) : net' = [net EXCEPT ![s] = <<>>, ![o] = SubSeq(@, 1, n)]
  <2>1. CASE net[s] = <<>>
    <3>1. net' = [net EXCEPT ![s] = <<>>, ![o] = SubSeq(@, 1, Len(net[o]))]
      BY <1>1, <2>1
    <3>2. Len(net[o]) \in 0 .. Len(net[o])
      BY <1>2
    <3> QED
      BY <3>1, <3>2, Zenon
  <2>2. CASE net[s] # <<>>
    BY <1>1, <2>2
  <2> QED
    BY <2>1, <2>2
<1>4. /\ net'[s] = <<>> /\ net'[o] = SubSeq(net[o], 1, n) /\ net' = [x \in Sides |-> net'[x]]
      /\ out'[s] = <<>> /\ out'[o] = out[o] /\ out' = [x \in Sides |-> out'[x]]
      /\ open' \in [Sides -> BOOLEAN] /\ ~open'[s] /\ open'[o] = open[o]
  BY <1>0, <1>1, <1>3 DEF SocketFns
<1>5. /\ IsSeq(SubSeq(net[o], 1, n)) /\ Len(SubSeq(net[o], 1, n)) = n
      /\ \A i \in 1 .. n : SubSeq(net[o], 1, n)[i] = net[o][i]
  BY <1>2, PrefixIsSeq
<1>6. SocketOK(s)'
  BY <1>4, EmptyIsSeq DEF SocketOK
<1>7. SocketOK(o)'
  <2>1. \A i \in 1 .. Len(net'[o]) : MsgOK(net'[o][i])
    BY <1>0, <1>2, <1>4, <1>5 DEF SocketOK
  <2>2. ~open'[o] => n = 0 /\ net'[o] = <<>>
    <3>1. ~open[o] => n = 0
      BY <1>0, EmptyIsSeq DEF SocketOK
    <3> QED
      BY <3>1, <1>4, <1>5, NoneIsSeq
  <2> QED
    BY <2>1, <2>2, <1>0, <1>4, <1>5 DEF SocketOK, MsgOK
<1> QED
  BY <1>0, <1>4, <1>5, <1>6, <1>7 DEF SocketFns, o

\* A message is written.
LEMMA WriteOK ==
  ASSUME NEW s \in Sides, SocketFns, \A x \in Sides : SocketOK(x), Write(s)
  PROVE  SocketFns' /\ \A x \in Sides : SocketOK(x)'
<1> DEFINE o == Other(s)
<1>0. o \in Sides /\ o # s /\ \A x \in Sides : x = s \/ x = o
  BY SideFacts
<1> HIDE DEF o
<1>1. /\ open[s] /\ out[s] # <<>> /\ out' = [out EXCEPT ![s] = Tail(@)] /\ open' = open
      /\ net' = IF open[o] THEN [net EXCEPT ![o] = Append(@, Head(out[s]))] ELSE net
  BY DEF Write, o
<1>2. /\ out'[s] = Tail(out[s]) /\ out'[o] = out[o] /\ out' = [x \in Sides |-> out'[x]]
      /\ net'[s] = net[s] /\ net' = [x \in Sides |-> net'[x]]
      /\ open[o] => net'[o] = Append(net[o], Head(out[s]))
      /\ ~open[o] => net'[o] = net[o]
  BY <1>0, <1>1 DEF SocketFns
<1>3. /\ IsSeq(out[s]) /\ Len(out[s]) \in Nat /\ IsSeq(net[o]) /\ Len(net[o]) \in Nat
      /\ IsSeq(Tail(out[s])) /\ Len(out[s]) >= 1 /\ Len(Tail(out[s])) = Len(out[s]) - 1
      /\ \A i \in 1 .. Len(Tail(out[s])) : Tail(out[s])[i] = out[s][i + 1]
      /\ Head(out[s]) = out[s][1]
  BY <1>0, <1>1, TailIsSeq DEF SocketOK, IsSeq
<1>4. SocketOK(s)'
  <2>1. ASSUME NEW i \in 1 .. Len(out'[s]) PROVE MsgOK(out'[s][i])
    <3>1. i + 1 \in 1 .. Len(out[s]) /\ out'[s][i] = out[s][i + 1]
      BY <1>2, <1>3
    <3> QED
      BY <3>1 DEF SocketOK
  <2> QED
    BY <1>0, <1>1, <1>2, <1>3, <2>1 DEF SocketOK, MsgOK
<1>5. SocketOK(o)'
  <2>1. CASE open[o]
    <3> DEFINE m == Head(out[s])
    <3>1. MsgOK(m)
      BY <1>3 DEF SocketOK
    <3> HIDE DEF m
    <3>2. /\ IsSeq(Append(net[o], m)) /\ Len(Append(net[o], m)) = Len(net[o]) + 1
          /\ \A i \in 1 .. Len(net[o]) : Append(net[o], m)[i] = net[o][i]
          /\ Append(net[o], m)[Len(net[o]) + 1] = m
      BY <1>3, AppendIsSeq
    <3>3. net'[o] = Append(net[o], m)
      BY <1>2, <2>1 DEF m
    <3>4. \A i \in 1 .. Len(net'[o]) : MsgOK(net'[o][i])
      BY <3>1, <3>2, <3>3, <1>0, <1>3 DEF SocketOK
    <3> QED
      BY <2>1, <3>2, <3>3, <3>4, <1>0, <1>1, <1>2 DEF SocketOK, MsgOK
  <2>2. CASE ~open[o]
    BY <2>2, <1>0, <1>1, <1>2 DEF SocketOK, MsgOK
  <2> QED
    BY <2>1, <2>2
<1> QED
  BY <1>0, <1>1, <1>2, <1>4, <1>5 DEF SocketFns

-----------------------------------------------------------------------------
(* The threads of one process.                                             *)

PartOK(s) == QueueOK(s) /\ FuturesOK(s) /\ ThreadsOK(s) /\ TaskOK(s)

\* A step of one process leaves the other's threads alone.
LEMMA Untouched ==
  ASSUME NEW s \in Sides, PartOK(s), plan' = plan,
         owner'[s] = owner[s], choices'[s] = choices[s], fut'[s] = fut[s],
         running'[s] = running[s], tasks'[s] = tasks[s], worker'[s] = worker[s],
         cur'[s] = cur[s], loc'[s] = loc[s], open'[s] = open[s]
  PROVE  PartOK(s)'
<1>1. QueueOK(s)' /\ FuturesOK(s)'
  BY DEF PartOK, QueueOK, FuturesOK, Script
<1>2. ThreadsOK(s)'
  BY DEF PartOK, ThreadsOK
<1>3. TaskOK(s)'
  BY DEF PartOK, TaskOK, Live, Call, Script
<1> QED
  BY <1>1, <1>2, <1>3 DEF PartOK

\* The scripts are sequences of calls.
LEMMA ScriptFacts ==
  ASSUME plan \in Plans, NEW s \in Sides
  PROVE  /\ IsSeq(Script[s]) /\ Len(Script[s]) \in Nat
         /\ DOMAIN Script[s] = 1 .. Len(Script[s])
         /\ \A k \in 1 .. Len(Script[s]) : IsCall(Script[s][k])
<1>1. IsSeq(Script[s]) /\ \A k \in DOMAIN Script[s] : IsCall(Script[s][k])
  BY PlansAssumption DEF Script
<1>2. DOMAIN Script[s] = 1 .. Len(Script[s]) /\ Len(Script[s]) \in Nat
  BY <1>1 DEF IsSeq
<1> QED
  BY <1>1, <1>2

\* A task ends: its promise is set.
LEMMA SettleOK ==
  ASSUME NEW s \in Sides, Functions, PartOK(s), worker[s] \in Tasks,
         NEW v, v.is # "pending", Settle(s, v),
         UNCHANGED <<plan, owner, choices, running, tasks, cur>>
  PROVE  /\ PartOK(s)'
         /\ worker'[s] = "check" /\ fut'[s] = [fut[s] EXCEPT ![cur[s]] = v]
         /\ \A x \in Sides : x # s =>
              fut'[x] = fut[x] /\ worker'[x] = worker[x] /\ loc'[x] = loc[x]
         /\ worker' \in [Sides -> {"check", "asleep", "gone"} \cup Tasks]
         /\ fut' = [x \in Sides |-> fut'[x]] /\ loc' = [x \in Sides |-> loc'[x]]
<1>1. /\ worker'[s] = "check" /\ fut'[s] = [fut[s] EXCEPT ![cur[s]] = v]
      /\ \A x \in Sides : x # s =>
           fut'[x] = fut[x] /\ worker'[x] = worker[x] /\ loc'[x] = loc[x]
      /\ worker' \in [Sides -> {"check", "asleep", "gone"} \cup Tasks]
      /\ fut' = [x \in Sides |-> fut'[x]] /\ loc' = [x \in Sides |-> loc'[x]]
  BY DEF Settle, Functions
<1>2. /\ IsSeq(fut[s]) /\ Len(fut[s]) \in Nat /\ cur[s] \in 1 .. Len(fut[s])
  BY DEF PartOK, QueueOK, FuturesOK, IsSeq
<1>3. /\ IsSeq(fut'[s]) /\ Len(fut'[s]) = Len(fut[s]) /\ fut'[s][cur[s]] = v
      /\ \A j \in 1 .. Len(fut[s]) : j # cur[s] => fut'[s][j] = fut[s][j]
  <2> DEFINE f == fut[s]
             c == cur[s]
  <2>1. IsSeq(f) /\ c \in 1 .. Len(f) /\ fut'[s] = [f EXCEPT ![c] = v]
    BY <1>1, <1>2
  <2> HIDE DEF f, c
  <2>2. /\ IsSeq([f EXCEPT ![c] = v]) /\ Len([f EXCEPT ![c] = v]) = Len(f)
        /\ [f EXCEPT ![c] = v][c] = v
        /\ \A j \in 1 .. Len(f) : j # c => [f EXCEPT ![c] = v][j] = f[j]
    BY <2>1, ExceptIsSeq
  <2>3. /\ IsSeq(fut'[s]) /\ Len(fut'[s]) = Len(f) /\ fut'[s][c] = v
        /\ \A j \in 1 .. Len(f) : j # c => fut'[s][j] = f[j]
    BY <2>1, <2>2
  <2> QED
    BY <2>3 DEF f, c
<1>4. QueueOK(s)'
  BY <1>3 DEF PartOK, QueueOK, Script
<1>5. FuturesOK(s)'
  BY <1>1, <1>2, <1>3 DEF PartOK, FuturesOK, Tasks
<1>6. ThreadsOK(s)'
  BY <1>1 DEF PartOK, ThreadsOK, Tasks
<1>7. TaskOK(s)'
  BY <1>1 DEF TaskOK, Live, Tasks
<1> QED
  BY <1>1, <1>4, <1>5, <1>6, <1>7 DEF PartOK

\* A task goes on to its next phase.
LEMMA GotoOK ==
  ASSUME NEW s \in Sides, Functions, PartOK(s), worker[s] \in Tasks,
         NEW ph \in Tasks, Goto(s, ph),
         UNCHANGED <<plan, owner, choices, fut, running, tasks, cur>>
  PROVE  /\ QueueOK(s)' /\ FuturesOK(s)' /\ ThreadsOK(s)'
         /\ worker'[s] = ph /\ \A x \in Sides : x # s => worker'[x] = worker[x]
         /\ worker' \in [Sides -> {"check", "asleep", "gone"} \cup Tasks]
<1>1. /\ worker'[s] = ph /\ \A x \in Sides : x # s => worker'[x] = worker[x]
      /\ worker' \in [Sides -> {"check", "asleep", "gone"} \cup Tasks]
  BY DEF Goto, Functions
<1>2. QueueOK(s)' /\ FuturesOK(s)'
  BY <1>1 DEF PartOK, QueueOK, FuturesOK, Script
<1>3. ThreadsOK(s)'
  BY <1>1 DEF PartOK, ThreadsOK, Tasks
<1> QED
  BY <1>1, <1>2, <1>3

\* Submit: the call is queued last and the worker woken.
LEMMA SubmitOK ==
  ASSUME NEW s \in Sides, LocalInv, Submit(s)
  PROVE  LocalInv'
<1> DEFINE k == Len(fut[s]) + 1
<1>0. Functions /\ PartOK(s) /\ \A x \in Sides : PartOK(x) /\ SocketOK(x)
  BY DEF LocalInv, ProcessOK, PartOK
<1>1. PICK ch \in ChoicesOf(Script[s][k]) : choices' = [choices EXCEPT ![s] = Append(@, ch)]
  BY DEF Submit
<1>2. /\ owner[s] = "run" /\ Len(fut[s]) < Len(Script[s])
      /\ choices'[s] = Append(choices[s], ch) /\ fut'[s] = Append(fut[s], Pending)
      /\ tasks'[s] = Append(tasks[s], k) /\ worker'[s] = Woken(s)
      /\ owner'[s] \in {"run", "await"}
      /\ UNCHANGED <<plan, running, cur, loc, out, net, open, kills>>
  BY <1>0, <1>1 DEF Submit, Functions, taskVars, sockVars
<1>3. /\ \A x \in Sides : x # s =>
           /\ choices'[x] = choices[x] /\ fut'[x] = fut[x] /\ tasks'[x] = tasks[x]
           /\ worker'[x] = worker[x] /\ owner'[x] = owner[x]
      /\ Functions'
  BY <1>0, <1>1, <1>2 DEF Submit, Functions, Woken
<1> HIDE DEF k
<1>40. QueueOK(s) /\ FuturesOK(s) /\ ThreadsOK(s) /\ TaskOK(s)
  BY <1>0 DEF PartOK
<1>4. /\ IsSeq(fut[s]) /\ IsSeq(choices[s]) /\ IsSeq(tasks[s]) /\ Len(fut[s]) \in Nat
      /\ Len(tasks[s]) \in Nat /\ Len(choices[s]) = Len(fut[s])
      /\ cur[s] \in 0 .. Len(fut[s]) /\ Len(tasks[s]) = Len(fut[s]) - cur[s]
  BY <1>40 DEF QueueOK, IsSeq
<1>41. /\ k \in Nat /\ k = Len(fut[s]) + 1 /\ cur[s] \in 0 .. k /\ cur[s] \in Nat
       /\ Len(tasks[s]) + 1 = k - cur[s] /\ k = cur[s] + (Len(tasks[s]) + 1)
  BY <1>4 DEF k
<1>42. k <= Len(Script[s])
  <2>1. Len(Script[s]) \in Nat /\ Len(fut[s]) < Len(Script[s])
    BY <1>0, <1>2, ScriptFacts DEF Functions
  <2> QED
    BY <2>1, <1>4 DEF k
<1>5. /\ IsSeq(fut'[s]) /\ Len(fut'[s]) = k /\ fut'[s][k] = Pending
      /\ \A i \in 1 .. Len(fut[s]) : fut'[s][i] = fut[s][i]
  BY <1>2, <1>4, <1>41, AppendIsSeq, SMTT(60)
<1>6. /\ IsSeq(choices'[s]) /\ Len(choices'[s]) = k /\ choices'[s][k] = ch
      /\ \A i \in 1 .. Len(fut[s]) : choices'[s][i] = choices[s][i]
  <2>1. /\ IsSeq(choices'[s]) /\ Len(choices'[s]) = Len(choices[s]) + 1
        /\ choices'[s][Len(choices[s]) + 1] = ch
        /\ \A i \in 1 .. Len(choices[s]) : choices'[s][i] = choices[s][i]
    BY <1>2, <1>4, AppendIsSeq, SMTT(60)
  <2> QED
    BY <2>1, <1>4, <1>41
<1>7. /\ IsSeq(tasks'[s]) /\ Len(tasks'[s]) = Len(tasks[s]) + 1
      /\ tasks'[s][Len(tasks[s]) + 1] = k
      /\ \A i \in 1 .. Len(tasks[s]) : tasks'[s][i] = tasks[s][i]
  BY <1>2, <1>4, AppendIsSeq
<1>8. QueueOK(s)'
  <2>0. QueueOK(s) /\ Script' = Script
    BY <1>0, <1>2 DEF PartOK, Script
  <2>1. ASSUME NEW i \in 1 .. Len(tasks'[s]) PROVE tasks'[s][i] = cur[s] + i
    <3>1. i \in 1 .. Len(tasks[s]) \/ i = Len(tasks[s]) + 1
      BY <1>4, <1>7
    <3>2. CASE i \in 1 .. Len(tasks[s])
      BY <3>2, <2>0, <1>7 DEF QueueOK
    <3>3. CASE i = Len(tasks[s]) + 1
      BY <3>3, <1>41, <1>7
    <3> QED
      BY <3>1, <3>2, <3>3
  <2>2. ASSUME NEW i \in 1 .. k PROVE choices'[s][i] \in ChoicesOf(Script[s][i])
    <3>1. i \in 1 .. Len(fut[s]) \/ i = k
      BY <1>4, <1>41
    <3> QED
      BY <3>1, <2>0, <1>6 DEF QueueOK
  <2>3. /\ Len(choices'[s]) = Len(fut'[s]) /\ Len(fut'[s]) <= Len(Script'[s])
        /\ cur'[s] \in 0 .. Len(fut'[s]) /\ Len(tasks'[s]) = Len(fut'[s]) - cur'[s]
    BY <1>2, <1>41, <1>42, <1>5, <1>6, <1>7, <2>0
  <2> QED
    BY <1>2, <1>5, <1>6, <1>7, <2>0, <2>1, <2>2, <2>3 DEF QueueOK
<1>9. FuturesOK(s)'
  <2>0. FuturesOK(s) /\ \A i \in 1 .. Len(fut'[s]) : i \in 1 .. Len(fut[s]) \/ i = k
    BY <1>4, <1>40, <1>41, <1>5, SMTT(60)
  <2>1. ASSUME NEW i \in 1 .. Len(fut'[s]), i > cur[s] PROVE fut'[s][i] = Pending
    BY <2>0, <2>1, <1>5 DEF FuturesOK
  <2>2. ASSUME NEW i \in 1 .. Len(fut'[s]), i < cur[s] PROVE fut'[s][i].is # "pending"
    <3>1. i \in 1 .. Len(fut[s])
      BY <2>0, <2>2, <1>4, <1>41
    <3> QED
      BY <3>1, <2>0, <2>2, <1>5 DEF FuturesOK
  <2>3. /\ worker'[s] \in Tasks <=> worker[s] \in Tasks /\ owner[s] # "killed"
        /\ cur[s] >= 1 => fut'[s][cur[s]] = fut[s][cur[s]]
    BY <1>2, <1>4, <1>5 DEF Woken, Tasks
  <2> QED
    BY <2>0, <1>2, <2>1, <2>2, <2>3 DEF FuturesOK
<1>10. ThreadsOK(s)'
  BY <1>0, <1>2, <1>3 DEF PartOK, ThreadsOK, Woken, Tasks, Functions
<1>11. TaskOK(s)'
  <2>1. worker[s] \in Tasks => cur[s] \in 1 .. Len(fut[s])
    BY <1>0, <1>4 DEF PartOK, FuturesOK
  <2>2. worker'[s] \in Tasks => worker'[s] = worker[s] /\ choices'[s][cur[s]] = choices[s][cur[s]]
    BY <1>2, <1>6, <2>1 DEF Woken, Tasks
  <2>3. worker'[s] \notin Tasks => TaskOK(s)'
    BY DEF TaskOK, Live, Tasks
  <2> QED
    BY <1>0, <1>2, <2>2, <2>3 DEF PartOK, TaskOK, Live, Call, Script
<1>12. \A x \in Sides : x # s => PartOK(x)'
  BY <1>0, <1>2, <1>3, Untouched
<1>13. \A x \in Sides : SocketOK(x)'
  BY <1>0, <1>2 DEF SocketOK, MsgOK
<1> QED
  BY <1>3, <1>8, <1>9, <1>10, <1>11, <1>12, <1>13 DEF LocalInv, ProcessOK, PartOK

\* A step of the owner that touches only the flag, the worker and itself.
LEMMA OwnerOK ==
  ASSUME NEW s \in Sides, LocalInv,
         AwaitFuture(s) \/ Destroy(s) \/ Join(s) \/ FlushAndClose(s) \/ Kill(s)
  PROVE  LocalInv'
<1>0. Functions /\ PartOK(s) /\ SocketFns /\ \A x \in Sides : PartOK(x) /\ SocketOK(x)
  BY DEF LocalInv, ProcessOK, PartOK, Functions, SocketFns
<1>1. UNCHANGED <<plan, choices, fut, tasks, cur, loc>>
  BY DEF AwaitFuture, Destroy, Join, FlushAndClose, Kill, taskVars
<1>2. /\ \A x \in Sides : x # s =>
           running'[x] = running[x] /\ worker'[x] = worker[x] /\ owner'[x] = owner[x]
      /\ running' \in [Sides -> BOOLEAN]
      /\ worker' \in [Sides -> {"check", "asleep", "gone"} \cup Tasks]
      /\ owner' \in [Sides -> {"run", "await", "unwind", "join", "flush", "gone", "killed"}]
      /\ kills' \in 0 .. MaxKills
  <2>1. CASE AwaitFuture(s)
    BY <2>1, <1>0 DEF AwaitFuture, Functions
  <2>2. CASE Destroy(s)
    BY <2>2, <1>0 DEF Destroy, Functions, Woken
  <2>3. CASE Join(s)
    BY <2>3, <1>0 DEF Join, Functions
  <2>4. CASE FlushAndClose(s)
    BY <2>4, <1>0 DEF FlushAndClose, Functions
  <2>5. CASE Kill(s)
    BY <2>5, <1>0, PlansAssumption DEF Kill, Functions
  <2> QED
    BY <2>1, <2>2, <2>3, <2>4, <2>5
<1>3. /\ SocketFns' /\ \A x \in Sides : SocketOK(x)' /\ (x # s => open'[x] = open[x])
      /\ open'[s] # open[s] => worker'[s] = "gone"
  <2>1. CASE FlushAndClose(s) \/ Kill(s)
    <3>1. worker'[s] = "gone" /\ CloseSocket(s)
      BY <2>1, <1>0 DEF FlushAndClose, Kill, Functions, PartOK, ThreadsOK
    <3> QED
      BY <3>1, <1>0, CloseOK, SideFacts
  <2>2. CASE UNCHANGED sockVars
    BY <2>2, <1>0 DEF sockVars, SocketOK, SocketFns, MsgOK
  <2> QED
    BY <2>1, <2>2 DEF AwaitFuture, Destroy, Join
<1>4. Functions'
  BY <1>0, <1>1, <1>2, <1>3 DEF Functions, SocketFns
<1>5. QueueOK(s)'
  BY <1>0, <1>1 DEF PartOK, QueueOK, Script
<1>6. /\ worker'[s] # worker[s] => worker'[s] \in {"check", "gone"}
      /\ worker'[s] \in Tasks => worker[s] \in Tasks
      /\ owner'[s] # "killed" => (worker[s] \in Tasks => worker'[s] \in Tasks) /\ owner[s] # "killed"
  BY <1>0 DEF AwaitFuture, Destroy, Join, FlushAndClose, Kill, Functions, Woken, Tasks, PartOK, ThreadsOK
<1>7. FuturesOK(s)'
  BY <1>0, <1>1, <1>6 DEF PartOK, FuturesOK
<1>8. ThreadsOK(s)'
  BY <1>0, <1>1, <1>2
     DEF PartOK, ThreadsOK, AwaitFuture, Destroy, Join, FlushAndClose, Kill, Functions, Woken, Tasks
<1>9. TaskOK(s)'
  <2>1. CASE worker'[s] = worker[s]
    BY <2>1, <1>0, <1>1, <1>3 DEF PartOK, TaskOK, Live, Call, Script, Tasks
  <2>2. CASE worker'[s] \in {"check", "gone"}
    BY <2>2 DEF TaskOK, Live, Tasks
  <2> QED
    BY <2>1, <2>2, <1>6
<1>10. \A x \in Sides : x # s => PartOK(x)'
  BY <1>0, <1>1, <1>2, <1>3, Untouched
<1> QED
  BY <1>3, <1>4, <1>5, <1>7, <1>8, <1>9, <1>10 DEF LocalInv, ProcessOK, PartOK

\* TakeTask: the worker takes the oldest call, sleeps or leaves.
LEMMA TakeTaskOK ==
  ASSUME NEW s \in Sides, LocalInv, TakeTask(s) \/ SpuriousWakeup(s)
  PROVE  LocalInv'
<1>0. Functions /\ \A x \in Sides : PartOK(x) /\ SocketOK(x)
  BY DEF LocalInv, ProcessOK, PartOK
<1>1. QueueOK(s) /\ FuturesOK(s) /\ ThreadsOK(s) /\ TaskOK(s)
  BY <1>0 DEF PartOK
<1>2. UNCHANGED <<plan, owner, choices, fut, running, loc, out, net, open, kills>>
  BY DEF TakeTask, SpuriousWakeup, ownerVars, taskVars, sockVars
<1>3. /\ \A x \in Sides : x # s =>
           tasks'[x] = tasks[x] /\ worker'[x] = worker[x] /\ cur'[x] = cur[x]
      /\ Functions'
  <2>1. CASE SpuriousWakeup(s)
    BY <2>1, <1>0, <1>2 DEF SpuriousWakeup, Functions, taskVars
  <2>2. CASE TakeTask(s) /\ tasks[s] = <<>>
    BY <2>2, <1>0, <1>2 DEF TakeTask, Functions, Tasks
  <2>3. CASE TakeTask(s) /\ tasks[s] # <<>>
    BY <2>3, <1>0, <1>2 DEF TakeTask, Functions, Tasks
  <2> QED
    BY <2>1, <2>2, <2>3
<1>4. \A x \in Sides : x # s => PartOK(x)'
  BY <1>0, <1>2, <1>3, Untouched
<1>5. \A x \in Sides : SocketOK(x)'
  BY <1>0, <1>2 DEF SocketOK, MsgOK
<1>6. CASE UNCHANGED <<tasks, cur>>
  <2>1. /\ worker[s] \in {"check", "asleep"} /\ worker'[s] \in {"check", "asleep", "gone"}
        /\ worker'[s] = "asleep" => tasks[s] = <<>> /\ running[s]
        /\ worker'[s] = "gone" => tasks[s] = <<>> /\ ~running[s]
    BY <1>0, <1>1, <1>6 DEF TakeTask, SpuriousWakeup, Functions, QueueOK, FuturesOK
  <2>2. QueueOK(s)' /\ FuturesOK(s)'
    BY <1>1, <1>2, <1>6, <2>1 DEF QueueOK, FuturesOK, Script, Tasks
  <2>3. ThreadsOK(s)' /\ TaskOK(s)'
    BY <1>1, <1>2, <1>6, <2>1 DEF ThreadsOK, TaskOK, Live, Tasks
  <2> QED
    BY <1>3, <1>4, <1>5, <2>2, <2>3 DEF LocalInv, ProcessOK, PartOK
<1>7. CASE TakeTask(s) /\ tasks[s] # <<>>
  <2>1. /\ worker[s] = "check" /\ worker'[s] = "begin"
        /\ cur'[s] = Head(tasks[s]) /\ tasks'[s] = Tail(tasks[s])
    BY <1>0, <1>7 DEF TakeTask, Functions
  <2>2. /\ IsSeq(tasks[s]) /\ Len(tasks[s]) \in Nat /\ Len(fut[s]) \in Nat
        /\ cur[s] \in Nat /\ Len(tasks[s]) = Len(fut[s]) - cur[s]
    BY <1>1 DEF QueueOK, IsSeq
  <2>3. /\ IsSeq(tasks'[s]) /\ Len(tasks[s]) >= 1 /\ Len(tasks'[s]) = Len(tasks[s]) - 1
        /\ Head(tasks[s]) = tasks[s][1]
        /\ \A i \in 1 .. Len(tasks'[s]) : tasks'[s][i] = tasks[s][i + 1]
    BY <1>7, <2>1, <2>2, TailIsSeq
  <2>4. cur'[s] = cur[s] + 1 /\ cur'[s] \in 1 .. Len(fut[s])
    <3>1. 1 \in 1 .. Len(tasks[s])
      BY <2>2, <2>3
    <3>2. tasks[s][1] = cur[s] + 1
      BY <3>1, <1>1 DEF QueueOK
    <3>3. cur[s] + 1 \in 1 .. Len(fut[s])
      BY <2>2, <2>3
    <3> QED
      BY <2>1, <2>3, <3>2, <3>3
  <2>5. QueueOK(s)'
    <3>1. ASSUME NEW i \in 1 .. Len(tasks'[s]) PROVE tasks'[s][i] = cur'[s] + i
      <4>1. i + 1 \in 1 .. Len(tasks[s]) /\ i \in Nat
        BY <2>2, <2>3
      <4>2. tasks'[s][i] = cur[s] + (i + 1)
        BY <4>1, <1>1, <2>3 DEF QueueOK
      <4>3. cur[s] + (i + 1) = (cur[s] + 1) + i
        BY <4>1, <2>2
      <4> QED
        BY <4>2, <4>3, <2>4
    <3>2. Len(tasks'[s]) = Len(fut[s]) - cur'[s]
      BY <2>2, <2>3, <2>4
    <3> QED
      BY <1>1, <1>2, <2>3, <2>4, <3>1, <3>2 DEF QueueOK, Script
  <2>6. FuturesOK(s)'
    <3>1. owner[s] # "killed" /\ (cur[s] >= 1 => fut[s][cur[s]].is # "pending")
      BY <1>1, <2>1 DEF ThreadsOK, FuturesOK, Tasks
    <3>2. ASSUME NEW k \in 1 .. Len(fut[s]), k < cur'[s] PROVE fut[s][k].is # "pending"
      <4>1. k < cur[s] \/ (k = cur[s] /\ cur[s] >= 1)
        BY <3>2, <2>2, <2>4
      <4> QED
        BY <4>1, <3>1, <1>1 DEF FuturesOK
    <3>3. ASSUME NEW k \in 1 .. Len(fut[s]), k >= cur'[s] PROVE fut[s][k] = Pending
      BY <3>3, <1>1, <2>2, <2>4 DEF FuturesOK
    <3> QED
      BY <1>2, <2>1, <2>2, <2>4, <3>2, <3>3, SMTT(60) DEF FuturesOK, Tasks
  <2>7. ThreadsOK(s)' /\ TaskOK(s)'
    BY <1>1, <1>2, <2>1 DEF ThreadsOK, TaskOK, Live, Tasks
  <2> QED
    BY <1>3, <1>4, <1>5, <2>5, <2>6, <2>7 DEF LocalInv, ProcessOK, PartOK
<1> QED
  BY <1>6, <1>7 DEF TakeTask, SpuriousWakeup, taskVars

\* The event loop writes.
LEMMA WritesOK ==
  ASSUME NEW s \in Sides, LocalInv, Write(s)
  PROVE  LocalInv'
<1>0. Functions /\ SocketFns /\ \A x \in Sides : PartOK(x) /\ SocketOK(x)
  BY DEF LocalInv, ProcessOK, PartOK, Functions, SocketFns
<1>1. UNCHANGED <<plan, owner, choices, running, fut, tasks, worker, cur, loc, open, kills>>
  BY DEF Write, ownerVars, taskVars
<1>2. SocketFns' /\ \A x \in Sides : SocketOK(x)'
  BY <1>0, WriteOK
<1>3. \A x \in Sides : PartOK(x)'
  BY <1>0, <1>1, Untouched
<1>4. Functions'
  BY <1>0, <1>1, <1>2 DEF Functions, SocketFns
<1> QED
  BY <1>2, <1>3, <1>4 DEF LocalInv, ProcessOK, PartOK

-----------------------------------------------------------------------------
(* The steps of a task.                                                    *)

\* What a step of a task leaves to be shown.
LEMMA TaskFrame ==
  ASSUME NEW s \in Sides, LocalInv, PartOK(s)',
         UNCHANGED <<plan, owner, choices, running, tasks, cur, kills>>,
         \A x \in Sides : x # s =>
           /\ fut'[x] = fut[x] /\ worker'[x] = worker[x]
           /\ loc'[x] = loc[x] /\ open'[x] = open[x],
         worker' \in [Sides -> {"check", "asleep", "gone"} \cup Tasks],
         fut' = [x \in Sides |-> fut'[x]], loc' = [x \in Sides |-> loc'[x]],
         SocketFns', \A x \in Sides : SocketOK(x)'
  PROVE  LocalInv'
<1>0. Functions /\ \A x \in Sides : PartOK(x)
  BY DEF LocalInv, ProcessOK, PartOK
<1>1. ASSUME NEW x \in Sides, x # s PROVE PartOK(x)'
  BY <1>0, <1>1, Untouched
<1>2. Functions'
  BY <1>0 DEF Functions, SocketFns
<1> QED
  BY <1>1, <1>2 DEF LocalInv, ProcessOK, PartOK

\* A task ends with its socket as it was, or closed.
LEMMA TaskEndsOK ==
  ASSUME NEW s \in Sides, LocalInv, worker[s] \in Tasks, NEW v, v.is # "pending", Settle(s, v),
         UNCHANGED <<plan, owner, choices, running, tasks, cur, kills>>,
         SocketFns', \A x \in Sides : SocketOK(x)' /\ (x # s => open'[x] = open[x])
  PROVE  LocalInv'
<1>1. Functions /\ PartOK(s)
  BY DEF LocalInv, ProcessOK, PartOK
<1>2. /\ PartOK(s)'
      /\ \A x \in Sides : x # s =>
           fut'[x] = fut[x] /\ worker'[x] = worker[x] /\ loc'[x] = loc[x]
      /\ worker' \in [Sides -> {"check", "asleep", "gone"} \cup Tasks]
      /\ fut' = [x \in Sides |-> fut'[x]] /\ loc' = [x \in Sides |-> loc'[x]]
  BY <1>1, SettleOK
<1> QED
  BY <1>2, TaskFrame

\* A task goes on with local variables that suit its next phase.
LEMMA TaskGoesOnOK ==
  ASSUME NEW s \in Sides, LocalInv, worker[s] \in Tasks, NEW ph \in Tasks, Goto(s, ph),
         UNCHANGED <<plan, owner, choices, fut, running, tasks, cur, open, kills>>,
         loc' = [x \in Sides |-> loc'[x]], \A x \in Sides : x # s => loc'[x] = loc[x],
         SocketFns', \A x \in Sides : SocketOK(x)', worker'[s] = ph => TaskOK(s)'
  PROVE  LocalInv'
<1>1. Functions /\ PartOK(s)
  BY DEF LocalInv, ProcessOK, PartOK
<1>2. /\ QueueOK(s)' /\ FuturesOK(s)' /\ ThreadsOK(s)'
      /\ worker'[s] = ph /\ \A x \in Sides : x # s => worker'[x] = worker[x]
      /\ worker' \in [Sides -> {"check", "asleep", "gone"} \cup Tasks]
  BY <1>1, GotoOK
<1>3. PartOK(s)'
  BY <1>2 DEF PartOK
<1>4. fut' = [x \in Sides |-> fut'[x]]
  BY <1>1 DEF Functions
<1> QED
  BY <1>2, <1>3, <1>4, TaskFrame

\* A task with no choices or messages ends at once.
LEMMA BeginTrivialOK ==
  ASSUME NEW s \in Sides, LocalInv, BeginTrivial(s)
  PROVE  LocalInv'
<1>1. SocketFns /\ \A x \in Sides : SocketOK(x)
  BY DEF LocalInv, ProcessOK, Functions, SocketFns
<1>2. SocketFns' /\ \A x \in Sides : SocketOK(x)' /\ open'[x] = open[x]
  BY <1>1 DEF BeginTrivial, sockVars, SocketFns, SocketOK, MsgOK
<1>3. PICK v : Settle(s, v) /\ v.is # "pending"
  BY DEF BeginTrivial, Thrown, Value
<1> QED
  BY <1>2, <1>3, TaskEndsOK DEF BeginTrivial, ownerVars, Tasks

\* SimplestOT::send draws its key and queues the first message.
LEMMA BeginSenderOK ==
  ASSUME NEW s \in Sides, LocalInv, BeginSender(s)
  PROVE  LocalInv'
<1>1. Functions /\ SocketFns /\ \A x \in Sides : SocketOK(x)
  BY DEF LocalInv, ProcessOK, Functions, SocketFns
<1>2. PICK d \in SenderDraws :
        /\ loc' = [loc EXCEPT ![s] = d]
        /\ Say(s, "A", 0, [A |-> mulGenerator(d.a), comm |-> Commit(d.seed)])
  BY DEF BeginSender
<1>3. /\ worker[s] = "begin" /\ open[s] /\ Goto(s, "recv_B")
      /\ Call(s).api \in Senders /\ ~Mute(Call(s))
      /\ UNCHANGED <<plan, owner, choices, running, fut, tasks, cur, net, open, kills>>
  BY DEF BeginSender, ownerVars
<1>4. SocketFns' /\ \A x \in Sides : SocketOK(x)'
  BY <1>1, <1>2, <1>3, SayOK
<1>5. /\ loc'[s] = d /\ \A x \in Sides : x # s => loc'[x] = loc[x]
      /\ loc' = [x \in Sides |-> loc'[x]]
  BY <1>1, <1>2 DEF Functions
<1>6. ASSUME worker'[s] = "recv_B" PROVE TaskOK(s)'
  BY <1>3, <1>5, <1>6 DEF TaskOK, Live, Tasks, Call, Script
<1> QED
  BY <1>3, <1>4, <1>5, <1>6, TaskGoesOnOK DEF Tasks

\* The current call of a task is in the script.
LEMMA CallFacts ==
  ASSUME NEW s \in Sides, LocalInv, worker[s] \in Tasks
  PROVE  /\ cur[s] \in 1 .. Len(fut[s]) /\ cur[s] \in DOMAIN Script[s] /\ cur[s] \in Nat
         /\ IsCall(Call(s)) /\ choices[s][cur[s]] \in ChoicesOf(Call(s))
<1>1. QueueOK(s) /\ FuturesOK(s) /\ plan \in Plans
  BY DEF LocalInv, ProcessOK, Functions
<1>2. /\ cur[s] \in 1 .. Len(fut[s]) /\ Len(fut[s]) <= Len(Script[s]) /\ Len(fut[s]) \in Nat
  BY <1>1 DEF QueueOK, FuturesOK, IsSeq
<1>3. Len(Script[s]) \in Nat /\ DOMAIN Script[s] = 1 .. Len(Script[s])
  BY <1>1, ScriptFacts
<1>4. cur[s] \in 1 .. Len(Script[s])
  BY <1>2, <1>3
<1> QED
  BY <1>1, <1>2, <1>3, <1>4, ScriptFacts DEF Call, QueueOK

\* SimplestOT::receive waits for the first message.
LEMMA BeginReceiverOK ==
  ASSUME NEW s \in Sides, LocalInv, BeginReceiver(s)
  PROVE  LocalInv'
<1>1. Functions /\ SocketFns /\ \A x \in Sides : SocketOK(x)
  BY DEF LocalInv, ProcessOK, Functions, SocketFns
<1>2. PICK q \in IF Call(s).api = "ot_receive" THEN [1 .. Call(s).size -> BOOLEAN]
                 ELSE {choices[s][cur[s]]} :
        loc' = [loc EXCEPT ![s] = [q |-> q]]
  BY DEF BeginReceiver
<1>3. /\ worker[s] = "begin" /\ open[s] /\ Goto(s, "recv_A")
      /\ Call(s).api \in Receivers /\ ~Mute(Call(s))
      /\ UNCHANGED <<plan, owner, choices, running, fut, tasks, cur, out, net, open, kills>>
  BY DEF BeginReceiver, ownerVars, sockVars
<1>4. SocketFns' /\ \A x \in Sides : SocketOK(x)'
  BY <1>1, <1>3 DEF SocketFns, SocketOK, MsgOK
<1>5. /\ loc'[s] = [q |-> q] /\ \A x \in Sides : x # s => loc'[x] = loc[x]
      /\ loc' = [x \in Sides |-> loc'[x]]
  BY <1>1, <1>2 DEF Functions
<1>6. /\ q \in [1 .. Call(s).size -> BOOLEAN]
      /\ Call(s).api = "recv_batch" => q = choices[s][cur[s]]
  <2>1. choices[s][cur[s]] \in ChoicesOf(Call(s))
    BY <1>3, CallFacts DEF Tasks
  <2> QED
    BY <1>2, <1>3, <2>1 DEF ChoicesOf
<1>7. ASSUME worker'[s] = "recv_A" PROVE TaskOK(s)'
  <2>1. Call(s)' = Call(s)
    BY <1>3 DEF Call, Script
  <2> QED
    BY <1>3, <1>5, <1>6, <1>7, <2>1 DEF TaskOK, Live, Tasks
<1> QED
  BY <1>3, <1>4, <1>5, <1>7, TaskGoesOnOK DEF Tasks

\* An exception in a task settles its future and closes the socket.
LEMMA TaskFailsOK ==
  ASSUME NEW s \in Sides, LocalInv, TaskFails(s)
  PROVE  LocalInv'
<1>1. Functions /\ SocketFns /\ \A x \in Sides : SocketOK(x)
  BY DEF LocalInv, ProcessOK, Functions, SocketFns
<1>2. worker[s] \in Tasks /\ Settle(s, Thrown) /\ Thrown.is # "pending"
  BY DEF TaskFails, Tasks, Waits, Thrown
<1>3. SocketFns' /\ \A x \in Sides : SocketOK(x)' /\ (x # s => open'[x] = open[x])
  <2>1. CASE CloseSocket(s)
    BY <1>1, <2>1, CloseOK, SideFacts
  <2>2. CASE UNCHANGED sockVars
    BY <1>1, <2>2 DEF sockVars, SocketFns, SocketOK, MsgOK
  <2> QED
    BY <2>1, <2>2 DEF TaskFails
<1> QED
  BY <1>2, <1>3, TaskEndsOK DEF TaskFails, ownerVars

\* What a task that receives a message finds.
LEMMA ReceiveFacts ==
  ASSUME NEW s \in Sides, LocalInv, NEW ph, Receive(s, ph), ph \in Tasks
  PROVE  /\ worker[s] = ph /\ open[s] /\ net[s] # <<>> /\ LoopFree(s)
         /\ net' = [net EXCEPT ![s] = Tail(@)]
         /\ Head(net[s]) = net[s][1] /\ 1 \in 1 .. Len(net[s]) /\ MsgOK(Head(net[s]))
         /\ Expects(s) = <<Head(net[s]).kind, Head(net[s]).n>>
<1>1. /\ worker[s] = ph /\ open[s] /\ net[s] # <<>> /\ Fits(s) /\ LoopFree(s)
      /\ net' = [net EXCEPT ![s] = Tail(@)]
  BY DEF Receive
<1>2. SocketOK(s) /\ IsSeq(net[s])
  BY DEF LocalInv, ProcessOK, SocketOK
<1>3. Head(net[s]) = net[s][1] /\ 1 \in 1 .. Len(net[s])
  BY <1>1, <1>2, TailIsSeq DEF IsSeq
<1>4. MsgOK(Head(net[s]))
  BY <1>2, <1>3 DEF SocketOK
<1> QED
  BY <1>1, <1>3, <1>4 DEF Fits

\* The receiver answers the group element of the sender.
LEMMA RecvAOK ==
  ASSUME NEW s \in Sides, LocalInv, RecvA(s)
  PROVE  LocalInv'
<1> DEFINE m == Head(net[s]).v
           q == loc[s].q
<1>1. Functions /\ SocketFns /\ (\A x \in Sides : SocketOK(x)) /\ TaskOK(s)
  BY DEF LocalInv, ProcessOK, Functions, SocketFns
<1>2. PICK b \in [DOMAIN q -> ReceiverDraws] :
        /\ loc' = [loc EXCEPT ![s] = [q |-> q, A |-> m.A, comm |-> m.comm, b |-> b]]
        /\ Say(s, "B", Call(s).size, [i \in DOMAIN q |-> ChosenB(m.A, b[i], q[i])])
  BY DEF RecvA
<1>3. /\ Receive(s, "recv_A") /\ Goto(s, "recv_seed")
      /\ UNCHANGED <<plan, owner, choices, running, fut, tasks, cur, open, kills>>
  BY DEF RecvA, ownerVars
<1>4. /\ worker[s] = "recv_A" /\ open[s] /\ net[s] # <<>>
      /\ net' = [net EXCEPT ![s] = Tail(@)]
  BY <1>3, ReceiveFacts DEF Tasks
<1>5. /\ q \in [1 .. Call(s).size -> BOOLEAN] /\ Call(s).api \in Receivers /\ ~Mute(Call(s))
      /\ Call(s).api = "recv_batch" => q = choices[s][cur[s]]
  BY <1>1, <1>4 DEF TaskOK, Live, Tasks
<1>6. SocketFns' /\ \A x \in Sides : SocketOK(x)'
  BY <1>1, <1>2, <1>3, <1>4, <1>5, TakeSayOK
<1>7. /\ loc'[s] = [q |-> q, A |-> m.A, comm |-> m.comm, b |-> b]
      /\ \A x \in Sides : x # s => loc'[x] = loc[x]
      /\ loc' = [x \in Sides |-> loc'[x]]
  BY <1>1, <1>2 DEF Functions
<1> HIDE DEF m, q
<1>8. ASSUME worker'[s] = "recv_seed" PROVE TaskOK(s)'
  <2>1. Call(s)' = Call(s)
    BY <1>3 DEF Call, Script
  <2>2. DOMAIN loc'[s] = {"q", "A", "comm", "b"} /\ loc'[s].q = q /\ loc'[s].b = b
    BY <1>7
  <2> QED
    BY <1>2, <1>3, <1>4, <1>5, <1>8, <2>1, <2>2 DEF TaskOK, Live, Tasks
<1> QED
  BY <1>3, <1>4, <1>6, <1>7, <1>8, TaskGoesOnOK DEF Tasks

\* The sender derives both pads from the receiver's elements.
LEMMA RecvBOK ==
  ASSUME NEW s \in Sides, LocalInv, RecvB(s)
  PROVE  LocalInv'
<1> DEFINE B == Head(net[s]).v
           pads == [i \in DOMAIN B |-> SenderPads(loc[s].a, B[i], i - 1, loc[s].seed)]
<1>1. Functions /\ SocketFns /\ (\A x \in Sides : SocketOK(x)) /\ TaskOK(s)
  BY DEF LocalInv, ProcessOK, Functions, SocketFns
<1>2. /\ Receive(s, "recv_B") /\ Say(s, "seed", 0, loc[s].seed)
      /\ UNCHANGED <<plan, owner, choices, running, tasks, cur, open, kills>>
      /\ \/ /\ Call(s).api = "ot_send" /\ loc' = [loc EXCEPT ![s] = pads]
            /\ Goto(s, "recv_eq") /\ UNCHANGED fut
         \/ Call(s).api = "send_batch" /\ Settle(s, Value(pads))
  BY DEF RecvB, ownerVars
<1>3. /\ worker[s] = "recv_B" /\ open[s] /\ net[s] # <<>>
      /\ net' = [net EXCEPT ![s] = Tail(@)] /\ MsgOK(Head(net[s]))
      /\ <<"B", Call(s).size>> = <<Head(net[s]).kind, Head(net[s]).n>>
  BY <1>2, ReceiveFacts DEF Tasks, Expects
<1>4. DOMAIN pads = 1 .. Call(s).size
  BY <1>3 DEF MsgOK
<1>5. SocketFns' /\ \A x \in Sides : SocketOK(x)'
  BY <1>1, <1>2, <1>3, TakeSayOK
<1> HIDE DEF pads, B
<1>6. CASE Call(s).api = "send_batch" /\ Settle(s, Value(pads))
  <2>1. Value(pads).is # "pending"
    BY DEF Value
  <2> QED
    BY <1>2, <1>3, <1>5, <1>6, <2>1, TaskEndsOK DEF Tasks
<1>7. CASE /\ Call(s).api = "ot_send" /\ loc' = [loc EXCEPT ![s] = pads]
           /\ Goto(s, "recv_eq") /\ UNCHANGED fut
  <2>1. /\ loc'[s] = pads /\ \A x \in Sides : x # s => loc'[x] = loc[x]
        /\ loc' = [x \in Sides |-> loc'[x]]
    BY <1>1, <1>7 DEF Functions
  <2>2. ASSUME worker'[s] = "recv_eq" PROVE TaskOK(s)'
    <3>1. Call(s)' = Call(s) /\ ~Mute(Call(s))
      BY <1>1, <1>2, <1>3 DEF Call, Script, TaskOK, Live, Tasks
    <3> QED
      BY <1>2, <1>3, <1>4, <1>7, <2>1, <2>2, <3>1 DEF TaskOK, Live, Tasks
  <2> QED
    BY <1>2, <1>3, <1>5, <1>7, <2>1, <2>2, TaskGoesOnOK DEF Tasks
<1> QED
  BY <1>2, <1>6, <1>7

\* The receiver derives the pads that it chose.
LEMMA RecvSeedOK ==
  ASSUME NEW s \in Sides, LocalInv, RecvSeed(s)
  PROVE  LocalInv'
<1> DEFINE l == loc[s]
           r_q == [i \in DOMAIN l.q |-> ReceiverPad(l.A, l.b[i], i - 1, Head(net[s]).v)]
           eq == [i \in 1 .. Call(s).n |-> choices[s][cur[s]][i] = l.q[i]]
<1>1. Functions /\ SocketFns /\ (\A x \in Sides : SocketOK(x)) /\ TaskOK(s)
  BY DEF LocalInv, ProcessOK, Functions, SocketFns
<1>2. /\ Receive(s, "recv_seed")
      /\ UNCHANGED <<plan, owner, choices, running, tasks, cur, open, kills>>
      /\ \/ /\ Call(s).api = "ot_receive" /\ Say(s, "eq", Call(s).n, eq)
            /\ loc' = [loc EXCEPT ![s] = [r_q |-> r_q]] /\ Goto(s, "flush") /\ UNCHANGED fut
         \/ Call(s).api = "recv_batch" /\ Settle(s, Value(r_q)) /\ UNCHANGED out
  BY DEF RecvSeed, ownerVars
<1>3. /\ worker[s] = "recv_seed" /\ open[s] /\ net[s] # <<>>
      /\ net' = [net EXCEPT ![s] = Tail(@)]
  BY <1>2, ReceiveFacts DEF Tasks
<1>4. DOMAIN r_q = 1 .. Call(s).size
  BY <1>1, <1>3 DEF TaskOK, Live, Tasks
<1> HIDE DEF r_q, l, eq
<1>6. CASE Call(s).api = "recv_batch" /\ Settle(s, Value(r_q)) /\ UNCHANGED out
  <2>1. SocketFns' /\ \A x \in Sides : SocketOK(x)'
    BY <1>1, <1>2, <1>3, <1>6, TakeOK
  <2>2. Value(r_q).is # "pending"
    BY DEF Value
  <2> QED
    BY <1>2, <1>3, <1>6, <2>1, <2>2, TaskEndsOK DEF Tasks
<1>7. CASE /\ Call(s).api = "ot_receive" /\ Say(s, "eq", Call(s).n, eq)
           /\ loc' = [loc EXCEPT ![s] = [r_q |-> r_q]] /\ Goto(s, "flush") /\ UNCHANGED fut
  <2>1. /\ loc'[s] = [r_q |-> r_q] /\ \A x \in Sides : x # s => loc'[x] = loc[x]
        /\ loc' = [x \in Sides |-> loc'[x]]
    BY <1>1, <1>7 DEF Functions
  <2>2. ASSUME worker'[s] = "flush" PROVE TaskOK(s)'
    <3>1. Call(s)' = Call(s) /\ ~Mute(Call(s))
      BY <1>1, <1>2, <1>3 DEF Call, Script, TaskOK, Live, Tasks
    <3> QED
      BY <1>2, <1>3, <1>4, <1>7, <2>1, <2>2, <3>1 DEF TaskOK, Live, Tasks
  <2>3. SocketFns' /\ \A x \in Sides : SocketOK(x)'
    BY <1>1, <1>2, <1>3, <1>7, TakeSayOK
  <2> QED
    BY <1>2, <1>3, <1>7, <2>1, <2>2, <2>3, TaskGoesOnOK DEF Tasks
<1> QED
  BY <1>2, <1>6, <1>7

\* ot_send masks its messages by the receiver's corrections.
LEMMA RecvEqOK ==
  ASSUME NEW s \in Sides, LocalInv, RecvEq(s)
  PROVE  LocalInv'
<1>1. Functions /\ SocketFns /\ (\A x \in Sides : SocketOK(x)) /\ TaskOK(s)
  BY DEF LocalInv, ProcessOK, Functions, SocketFns
<1>2. /\ Receive(s, "recv_eq") /\ Goto(s, "flush")
      /\ \E v : Say(s, "masked", Call(s).n, v)
      /\ UNCHANGED <<plan, owner, choices, running, fut, tasks, cur, loc, open, kills>>
  BY DEF RecvEq, ownerVars, taskVars
<1>3. /\ worker[s] = "recv_eq" /\ open[s] /\ net[s] # <<>>
      /\ net' = [net EXCEPT ![s] = Tail(@)]
  BY <1>2, ReceiveFacts DEF Tasks
<1>4. SocketFns' /\ \A x \in Sides : SocketOK(x)'
  BY <1>1, <1>2, <1>3, TakeSayOK
<1>5. ASSUME worker'[s] = "flush" PROVE TaskOK(s)'
  <2>1. Call(s)' = Call(s)
    BY <1>2 DEF Call, Script
  <2> QED
    BY <1>1, <1>2, <1>3, <1>5, <2>1 DEF TaskOK, Live, Tasks
<1>6. loc' = [x \in Sides |-> loc'[x]]
  BY <1>1, <1>2 DEF Functions
<1> QED
  BY <1>2, <1>3, <1>4, <1>5, <1>6, TaskGoesOnOK DEF Tasks

\* A task goes on once all it has sent is written.
LEMMA FlushedOK ==
  ASSUME NEW s \in Sides, LocalInv, Flushed(s)
  PROVE  LocalInv'
<1>1. Functions /\ SocketFns /\ (\A x \in Sides : SocketOK(x)) /\ TaskOK(s)
  BY DEF LocalInv, ProcessOK, Functions, SocketFns
<1>2. /\ worker[s] = "flush" /\ open[s]
      /\ UNCHANGED <<plan, owner, choices, running, tasks, cur, out, net, open, kills>>
  BY DEF Flushed, ownerVars, sockVars
<1>3. SocketFns' /\ \A x \in Sides : SocketOK(x)'
  BY <1>1, <1>2 DEF SocketFns, SocketOK, MsgOK
<1>4. CASE Call(s).api = "ot_send" /\ Settle(s, Value(Call(s).msgs))
  <2>1. Value(Call(s).msgs).is # "pending"
    BY DEF Value
  <2> QED
    BY <1>2, <1>3, <1>4, <2>1, TaskEndsOK DEF Tasks
<1>5. CASE Call(s).api = "ot_receive" /\ Goto(s, "recv_masked") /\ UNCHANGED <<fut, loc>>
  <2>1. ASSUME worker'[s] = "recv_masked" PROVE TaskOK(s)'
    <3>1. Call(s)' = Call(s)
      BY <1>2 DEF Call, Script
    <3> QED
      BY <1>1, <1>2, <1>5, <2>1, <3>1 DEF TaskOK, Live, Tasks
  <2>2. loc' = [x \in Sides |-> loc'[x]]
    BY <1>1, <1>5 DEF Functions
  <2> QED
    BY <1>2, <1>3, <1>5, <2>1, <2>2, TaskGoesOnOK DEF Tasks
<1> QED
  BY <1>4, <1>5 DEF Flushed

\* The receiver unmasks what it chose and ends its task.
LEMMA RecvMaskedOK ==
  ASSUME NEW s \in Sides, LocalInv, RecvMasked(s)
  PROVE  LocalInv'
<1>1. SocketFns /\ \A x \in Sides : SocketOK(x)
  BY DEF LocalInv, ProcessOK, Functions, SocketFns
<1>2. /\ Receive(s, "recv_masked") /\ \E v : Settle(s, Value(v))
      /\ UNCHANGED <<plan, owner, choices, running, tasks, cur, out, open, kills>>
  BY DEF RecvMasked, ownerVars
<1>3. /\ worker[s] = "recv_masked" /\ open[s] /\ net[s] # <<>>
      /\ net' = [net EXCEPT ![s] = Tail(@)]
  BY <1>2, ReceiveFacts DEF Tasks
<1>4. SocketFns' /\ \A x \in Sides : SocketOK(x)'
  BY <1>1, <1>2, <1>3, TakeOK
<1>5. PICK v : Settle(s, Value(v))
  BY <1>2
<1>6. Value(v).is # "pending"
  BY DEF Value
<1> QED
  BY <1>2, <1>3, <1>4, <1>5, <1>6, TaskEndsOK DEF Tasks

-----------------------------------------------------------------------------
(* What holds of each process.                                             *)

\* A manager that was just constructed is in order.
LEMMA InitLocal == Init => LocalInv
<1> SUFFICES ASSUME Init PROVE LocalInv
  OBVIOUS
<1>1. Functions
  BY PlansAssumption DEF Init, Functions
<1>2. ASSUME NEW s \in Sides PROVE ProcessOK(s)
  <2>1. plan \in Plans
    BY DEF Init
  <2>2. Len(Script[s]) \in Nat
    BY <2>1, ScriptFacts
  <2>3. QueueOK(s) /\ FuturesOK(s)
    BY <2>2, EmptyIsSeq DEF Init, QueueOK, FuturesOK, Tasks
  <2>4. ThreadsOK(s) /\ TaskOK(s) /\ SocketOK(s)
    BY EmptyIsSeq DEF Init, ThreadsOK, TaskOK, SocketOK, Live, Tasks
  <2> QED
    BY <2>3, <2>4 DEF ProcessOK
<1> QED
  BY <1>1, <1>2 DEF LocalInv

\* Every step of either manager, and of the network, keeps both in order.
LEMMA NextLocal == LocalInv /\ [Next]_vars => LocalInv'
<1> SUFFICES ASSUME LocalInv, [Next]_vars PROVE LocalInv'
  OBVIOUS
<1>1. CASE UNCHANGED vars
  <2>1. Functions'
    BY <1>1 DEF vars, LocalInv, Functions
  <2>2. ASSUME NEW s \in Sides PROVE ProcessOK(s)'
    <3>1. QueueOK(s) /\ FuturesOK(s) /\ ThreadsOK(s) /\ TaskOK(s) /\ SocketOK(s)
      BY <2>2 DEF LocalInv, ProcessOK
    <3>2. QueueOK(s)'
      BY <1>1, <3>1 DEF vars, QueueOK, Script
    <3>3. FuturesOK(s)'
      BY <1>1, <3>1 DEF vars, FuturesOK, Call, Script
    <3>4. ThreadsOK(s)'
      BY <1>1, <3>1 DEF vars, ThreadsOK, Live, Script
    <3>5. TaskOK(s)'
      BY <1>1, <3>1 DEF vars, TaskOK, Live, Call, Script
    <3>6. SocketOK(s)'
      BY <1>1, <3>1 DEF vars, SocketOK, MsgOK
    <3> QED
      BY <3>2, <3>3, <3>4, <3>5, <3>6 DEF ProcessOK
  <2> QED
    BY <2>1, <2>2 DEF LocalInv
<1>2. ASSUME NEW s \in Sides,
             OwnerStep(s) \/ WorkerStep(s) \/ Write(s) \/ SpuriousWakeup(s) \/ Kill(s)
      PROVE  LocalInv'
  <2>1. CASE OwnerStep(s) \/ Kill(s)
    BY <2>1, SubmitOK, OwnerOK DEF OwnerStep
  <2>2. CASE TaskStep(s)
    BY <2>2, BeginTrivialOK, BeginSenderOK, BeginReceiverOK, RecvAOK, RecvBOK, RecvSeedOK,
       RecvEqOK, RecvMaskedOK, FlushedOK, TaskFailsOK DEF TaskStep
  <2>3. CASE TakeTask(s) \/ SpuriousWakeup(s) \/ Write(s)
    BY <2>3, TakeTaskOK, WritesOK
  <2> QED
    BY <1>2, <2>1, <2>2, <2>3 DEF WorkerStep
<1> QED
  BY <1>1, <1>2 DEF Next

\* Each manager stays in order in every reachable state.
LEMMA LocalCorrect == Spec => []LocalInv
BY InitLocal, NextLocal, PTL DEF Spec

\* Types, and that a task holds the local variables that its next step reads.
THEOREM OTTypeCorrect == Spec => []TypeOK
<1>1. LocalInv => TypeOK
  <2> SUFFICES ASSUME LocalInv PROVE TypeOK
    OBVIOUS
  <2>1. ASSUME NEW s \in Sides
        PROVE  /\ Len(fut[s]) = Len(choices[s]) /\ Len(fut[s]) <= Len(Script[s])
               /\ \A i \in DOMAIN tasks[s] : tasks[s][i] \in DOMAIN fut[s]
               /\ worker[s] \in Tasks => cur[s] \in DOMAIN fut[s]
    <3>1. QueueOK(s) /\ FuturesOK(s)
      BY DEF LocalInv, ProcessOK
    <3>2. /\ DOMAIN tasks[s] = 1 .. Len(tasks[s]) /\ DOMAIN fut[s] = 1 .. Len(fut[s])
          /\ Len(fut[s]) \in Nat /\ Len(tasks[s]) \in Nat
      BY <3>1 DEF QueueOK, IsSeq
    <3>3. \A i \in 1 .. Len(tasks[s]) : cur[s] + i \in 1 .. Len(fut[s])
      BY <3>1, <3>2 DEF QueueOK
    <3> QED
      BY <3>1, <3>2, <3>3 DEF QueueOK, FuturesOK
  <2>2. ASSUME NEW s \in Sides
        PROVE  /\ worker[s] = "recv_B" => Call(s).api \in Senders /\ loc[s] \in SenderDraws
               /\ worker[s] = "recv_eq" =>
                    Call(s).api \in Senders /\ DOMAIN loc[s] = 1 .. Call(s).size
               /\ worker[s] = "recv_seed" =>
                    Call(s).api \in Receivers /\ DOMAIN loc[s] = {"q", "A", "comm", "b"}
               /\ worker[s] = "recv_masked" =>
                    Call(s).api \in Receivers /\ DOMAIN loc[s] = {"r_q"}
    BY DEF LocalInv, ProcessOK, TaskOK, Senders, Receivers
  <2> QED
    BY <2>1, <2>2 DEF TypeOK, LocalInv, Functions
<1> QED
  BY <1>1, LocalCorrect, PTL

\* A worker never sleeps through a task that was submitted, nor through the
\* destructor: run() tests its predicate under the mutex under which enqueue and
\* ~OTManager change it.
THEOREM NoLostWakeupCorrect == Spec => []NoLostWakeup
<1>1. LocalInv => NoLostWakeup
  BY DEF LocalInv, ProcessOK, ThreadsOK, NoLostWakeup
<1> QED
  BY <1>1, LocalCorrect, PTL

\* run() leaves only with an empty queue: after the join in ~OTManager no promise
\* is left without a value or an exception, whatever the peer did.
THEOREM DrainedCorrect == Spec => []Drained
<1>1. LocalInv => Drained
  <2> SUFFICES ASSUME LocalInv, NEW s \in Sides, worker[s] = "gone", owner[s] # "killed",
                      NEW k \in DOMAIN fut[s]
               PROVE  Ready(s, k)
    BY DEF Drained
  <2>1. QueueOK(s) /\ FuturesOK(s) /\ ThreadsOK(s)
    BY DEF LocalInv, ProcessOK
  <2>2. k \in 1 .. Len(fut[s]) /\ Len(fut[s]) \in Nat
    BY <2>1 DEF QueueOK, IsSeq
  <2>3. Len(tasks[s]) = 0 /\ cur[s] = Len(fut[s])
    BY <2>1, <2>2, EmptyIsSeq DEF QueueOK, ThreadsOK
  <2>4. k < cur[s] \/ (k = cur[s] /\ cur[s] >= 1)
    BY <2>2, <2>3
  <2> QED
    BY <2>1, <2>2, <2>4 DEF FuturesOK, Ready, Tasks
<1> QED
  BY <1>1, LocalCorrect, PTL

-----------------------------------------------------------------------------
(* The two processes and what is in flight between them.                   *)

\* What is in flight to s: how many messages, and the i-th of them.
Flight(s) == Len(net[s]) + Len(out[Other(s)])
Msg(s, i) == IF i <= Len(net[s]) THEN net[s][i] ELSE out[Other(s)][i - Len(net[s])]

\* The first call that s has not got behind it.
Next1(s) == IF worker[s] \in Tasks THEN cur[s] ELSE cur[s] + 1

Idle == {"check", "asleep", "gone", "begin", "recv_A"}

\* How far s has got with its current call: "idle" if it has sent and read nothing
\* for it, otherwise what it waits for next, or "flush" if that is nothing.
Phase(s) ==
  IF worker[s] \in Idle THEN "idle"
  ELSE IF worker[s] = "flush" /\ Call(s).api = "ot_receive" THEN "recv_masked"
  ELSE worker[s]

\* s has read nothing for its current call.
Early(s) == Phase(s) \in {"idle", "recv_B"}

Speaks(s, j) == j \in 1 .. Len(Script[s]) /\ ~Mute(Script[s][j])

\* From call j on, s has passed only calls that transfer nothing.
SilentFrom(s, j) == \A i \in 1 .. Len(Script[s]) : j <= i /\ i < Next1(s) => ~Speaks(s, i)

Side(c) == IF c THEN 2 ELSE 1

IsA(s, m) ==
  m.kind = "A" /\ m.n = 0 /\ m.v = [A |-> mulGenerator(loc[s].a), comm |-> Commit(loc[s].seed)]

\* Of the messages to the peer of s, those from the n-th on are what s has sent
\* before it has read anything.
Opening(s, n) ==
  IF Phase(s) = "recv_B" THEN Flight(Other(s)) = n /\ IsA(s, Msg(Other(s), n))
  ELSE Flight(Other(s)) = n - 1

\* The pads that the two sides derive agree where the receiver r chooses.
IsSeed(r, m, pads) ==
  /\ m.kind = "seed" /\ m.n = 0 /\ Commit(m.v) = loc[r].comm
  /\ \A i \in 1 .. Call(r).size :
       ReceiverPad(loc[r].A, loc[r].b[i], i - 1, m.v) = pads[i][Side(loc[r].q[i])]

IsB(r, m) ==
  /\ m.kind = "B" /\ m.n = Call(r).size
  /\ m.v = [i \in 1 .. Call(r).size |-> ChosenB(loc[r].A, loc[r].b[i], loc[r].q[i])]

IsEq(r, m, pads) ==
  /\ m.kind = "eq" /\ m.n = Call(r).n
  /\ \A i \in 1 .. Call(r).n :
       /\ m.v[i] \in BOOLEAN
       /\ loc[r].r_q[i] = pads[i][Side(m.v[i] = choices[r][cur[r]][i])]

IsMasked(r, m) ==
  /\ m.kind = "masked" /\ m.n = Call(r).n
  /\ \A i \in 1 .. Call(r).n :
       LET c == Side(choices[r][cur[r]][i]) IN
       Xor(m.v[i][c], loc[r].r_q[i]) = Script[Other(r)][cur[r]].msgs[i][c]

\* Neither side has read anything for its current call.
BothEarly ==
  \A s \in Sides : Early(s) /\ SilentFrom(Other(s), Next1(s)) /\ Opening(s, 1)

\* Receiver r and its sender are in the same call, one in phase p, the other in q.
Paired(r, p, q) == cur[r] = cur[Other(r)] /\ Phase(r) = p /\ Phase(Other(r)) = q

SentB(r) ==
  /\ Paired(r, "recv_seed", "recv_B")
  /\ Flight(r) = 0 /\ Flight(Other(r)) = 1 /\ IsB(r, Msg(Other(r), 1))
  /\ loc[r].A = mulGenerator(loc[Other(r)].a) /\ loc[r].comm = Commit(loc[Other(r)].seed)

SentSeed(r) ==
  /\ Paired(r, "recv_seed", "recv_eq")
  /\ Flight(r) = 1 /\ Flight(Other(r)) = 0 /\ IsSeed(r, Msg(r, 1), loc[Other(r)])

SentEq(r) ==
  /\ Paired(r, "recv_masked", "recv_eq")
  /\ Flight(r) = 0 /\ Flight(Other(r)) = 1 /\ IsEq(r, Msg(Other(r), 1), loc[Other(r)])

SentMasked(r) ==
  /\ Paired(r, "recv_masked", "flush")
  /\ Flight(r) = 1 /\ Flight(Other(r)) = 0 /\ IsMasked(r, Msg(r, 1))

\* s has still to finish a call that its peer has finished: what it has to read is
\* there, and what its peer has sent since comes after that.
LagsSeed(s) ==
  LET m == fut[Other(s)][cur[s]] IN
  /\ Phase(s) = "recv_seed" /\ Call(s).api = "recv_batch" /\ Opening(Other(s), 2)
  /\ m.is = "value" /\ IsSeed(s, Msg(s, 1), m.v)

LagsMasked(s) == Phase(s) = "recv_masked" /\ Opening(Other(s), 2) /\ IsMasked(s, Msg(s, 1))

LagsFlush(s) == Phase(s) = "flush" /\ Opening(Other(s), 1)

Lags(s) ==
  /\ Early(Other(s)) /\ cur[s] < Next1(Other(s)) /\ Speaks(Other(s), cur[s])
  /\ SilentFrom(Other(s), cur[s] + 1) /\ Flight(Other(s)) = 0
  /\ LagsSeed(s) \/ LagsMasked(s) \/ LagsFlush(s)

InSync ==
  \/ BothEarly
  \/ \E r \in Sides : SentB(r) \/ SentSeed(r) \/ SentEq(r) \/ SentMasked(r) \/ Lags(r)

\* What may be left to read for s once its peer has closed the connection: the
\* message that it waits for, and perhaps the first one of a later call.
FirstLeft(s) ==
  LET m == Msg(s, 1) IN
  /\ Phase(s) \in {"idle", "flush"} => m.kind = "A"
  /\ Phase(s) = "recv_B" => m.kind \in {"A", "B"}
  /\ Phase(s) = "recv_seed" => m.kind = "seed"
  /\ Phase(s) = "recv_eq" => m.kind = "eq" /\ m.n = Call(s).n
  /\ Phase(s) = "recv_masked" => IsMasked(s, m)

LeftOver(s) ==
  \/ Flight(s) = 0
  \/ Flight(s) = 1 /\ FirstLeft(s)
  \/ /\ Flight(s) = 2 /\ FirstLeft(s) /\ Msg(s, 2).kind = "A"
     /\ Phase(s) = "recv_masked" \/ (Phase(s) = "recv_seed" /\ Call(s).api = "recv_batch")

WireInv ==
  /\ (\A s \in Sides : open[s]) => InSync
  /\ \A s \in Sides : open[s] /\ ~open[Other(s)] => LeftOver(s)

\* What a receiver was given is what it chose of what its sender gave.
ChosenOK(s) ==
  \A k \in 1 .. Len(fut[s]) :
    HasValue(s, k) /\ Script[s][k].api = "ot_receive" =>
      fut[s][k].v = Pick(Script[Other(s)][k].msgs, choices[s][k])

OTInv == LocalInv /\ WireInv /\ \A s \in Sides : ChosenOK(s)

-----------------------------------------------------------------------------
(* SimplestOT: the pads of the two sides.                                  *)

\* Reducing both terms of a difference does not change it modulo m.
LEMMA ModSub ==
  ASSUME NEW m \in Nat \ {0}, NEW x \in Int, NEW y \in Int
  PROVE  ((x % m) - (y % m)) % m = (x - y) % m
<1>1. PICK j \in Int : x = m * j + (x % m)
  BY DivMod
<1>2. PICK k \in Int : y = m * k + (y % m)
  BY DivMod
<1>3. x % m \in Int /\ y % m \in Int
  BY DivMod
<1> DEFINE xm == x % m
           ym == y % m
<1>4. /\ xm \in Int /\ ym \in Int /\ x = m * j + xm /\ y = m * k + ym
      /\ (x % m) - (y % m) = xm - ym
  BY <1>1, <1>2, <1>3
<1> HIDE DEF xm, ym
<1> DEFINE u == xm - ym
           q == j - k
<1>5. x - y = u + m * q /\ q \in Int /\ u \in Int
  BY <1>4
<1>6. (x % m) - (y % m) = u
  BY <1>4
<1> HIDE DEF u, q
<1>7. (u + m * q) % m = u % m
  BY <1>5, ModShift
<1> QED
  BY <1>5, <1>6, <1>7

\* A factor may be reduced first.
LEMMA ModFactor ==
  ASSUME NEW m \in Nat \ {0}, NEW x \in Int, NEW y \in 0 .. (m - 1)
  PROVE  ((x % m) * y) % m = (x * y) % m
<1>1. y % m = y /\ y \in Int
  <2>1. y = m * 0 + y /\ 0 \in Int
    OBVIOUS
  <2> QED
    BY <2>1, ModUnique
<1> QED
  BY <1>1, ModMul

\* The receiver hashes b * A, the sender a * B or a * B - a * A: the same point,
\* whichever B the receiver sent.
LEMMA PadsMatch ==
  ASSUME NEW a \in 1 .. (Order - 1), NEW b \in 1 .. (Order - 1), NEW c \in BOOLEAN,
         NEW i, NEW seed
  PROVE  ReceiverPad(mulGenerator(a), b, i, seed)
           = SenderPads(a, ChosenB(mulGenerator(a), b, c), i, seed)[Side(c)]
<1> DEFINE m == Order
<1>0. m \in Nat \ {0}
  BY CurveAssumption
<1> HIDE DEF m
<1>1. /\ a \in Int /\ b \in Int /\ a \in 0 .. (m - 1) /\ b \in 0 .. (m - 1)
      /\ a + b \in Int /\ a * b \in Int /\ a * a \in Int /\ (a + b) * a \in Int
      /\ (a + b) * a - a * a = a * b /\ b * a = a * b
  BY <1>0 DEF m
<1>2. Mul(mulGenerator(a), b) = (a * b) % m
  BY <1>0, <1>1, ModFactor DEF Mul, mulGenerator, m
<1>3. CASE c = FALSE
  <2>1. Mul(ChosenB(mulGenerator(a), b, c), a) = (b * a) % m
    BY <1>0, <1>1, <1>3, ModFactor DEF Mul, ChosenB, mulGenerator, m
  <2> QED
    BY <1>1, <1>2, <1>3, <2>1 DEF ReceiverPad, SenderPads, Side
<1>4. CASE c = TRUE
  <2>1. ChosenB(mulGenerator(a), b, c) = (a + b) % m
    BY <1>0, <1>1, <1>4, ModAdd DEF ChosenB, Add, mulGenerator, m
  <2>2. Mul(ChosenB(mulGenerator(a), b, c), a) = ((a + b) * a) % m
    BY <1>0, <1>1, <2>1, ModFactor DEF Mul, m
  <2>3. Mul(mulGenerator(a), a) = (a * a) % m
    BY <1>0, <1>1, ModFactor DEF Mul, mulGenerator, m
  <2>4. Sub(((a + b) * a) % m, (a * a) % m) = (a * b) % m
    <3> DEFINE x == (a + b) * a
               y == a * a
    <3>1. x \in Int /\ y \in Int /\ x - y = a * b
      BY <1>1
    <3> HIDE DEF x, y
    <3>2. ((x % m) - (y % m)) % m = (x - y) % m
      BY <1>0, <3>1, ModSub
    <3> QED
      BY <3>1, <3>2 DEF Sub, m, x, y
  <2> QED
    BY <1>2, <1>4, <2>2, <2>3, <2>4 DEF ReceiverPad, SenderPads, Side
<1> QED
  BY <1>3, <1>4

-----------------------------------------------------------------------------
(* What the steps do to the messages in flight.                            *)

\* What is on its way to s, and its first message.
LEMMA FlightType ==
  ASSUME NEW s \in Sides, LocalInv
  PROVE  /\ Flight(s) \in Nat /\ Len(net[s]) \in Nat /\ Len(out[s]) \in Nat
         /\ Len(out[Other(s)]) \in Nat /\ IsSeq(net[s]) /\ IsSeq(out[s]) /\ IsSeq(out[Other(s)])
         /\ net[s] # <<>> => Flight(s) >= 1 /\ Head(net[s]) = Msg(s, 1) /\ Len(net[s]) >= 1
<1>1. SocketOK(s) /\ SocketOK(Other(s))
  BY SideFacts DEF LocalInv, ProcessOK
<1>2. /\ Len(net[s]) \in Nat /\ Len(out[s]) \in Nat /\ Len(out[Other(s)]) \in Nat
      /\ IsSeq(net[s]) /\ IsSeq(out[s]) /\ IsSeq(out[Other(s)])
  BY <1>1 DEF SocketOK, IsSeq
<1>3. ASSUME net[s] # <<>>
      PROVE  Flight(s) >= 1 /\ Head(net[s]) = Msg(s, 1) /\ Len(net[s]) >= 1
  <2>1. Len(net[s]) >= 1 /\ Head(net[s]) = net[s][1]
    BY <1>2, <1>3, TailIsSeq
  <2>2. Flight(s) = Len(net[s]) + Len(out[Other(s)])
    BY DEF Flight
  <2>3. Flight(s) >= 1
    <3> DEFINE N == Len(net[s])
               U == Len(out[Other(s)])
    <3>1. N \in Nat /\ U \in Nat /\ N >= 1 /\ Flight(s) = N + U
      BY <1>2, <2>1, <2>2
    <3> HIDE DEF N, U
    <3> QED
      BY <3>1
  <2>4. Msg(s, 1) = net[s][1]
    BY <2>1 DEF Msg
  <2> QED
    BY <2>1, <2>3, <2>4
<1>4. Flight(s) \in Nat
  <2> DEFINE N == Len(net[s])
             U == Len(out[Other(s)])
  <2>1. N \in Nat /\ U \in Nat /\ Flight(s) = N + U
    BY <1>2 DEF Flight
  <2> HIDE DEF N, U
  <2> QED
    BY <2>1
<1> QED
  BY <1>2, <1>3, <1>4

\* The messages to s are the same ones.
SameFlight(s) ==
  /\ Flight(s)' = Flight(s)
  /\ \A i \in 1 .. Flight(s) : Msg(s, i)' = Msg(s, i)

\* A step that touches neither end of the wire to s changes nothing on it.
LEMMA FlightStays ==
  ASSUME NEW s \in Sides, net'[s] = net[s], out'[Other(s)] = out[Other(s)]
  PROVE  SameFlight(s)
BY DEF SameFlight, Flight, Msg

\* s says m.
LEMMA FlightGrows ==
  ASSUME NEW s \in Sides, LocalInv, NEW m,
         out'[s] = Append(out[s], m), net'[Other(s)] = net[Other(s)],
         NEW n \in Nat, n = Flight(Other(s)) + 1
  PROVE  LET o == Other(s) IN
         /\ Flight(o)' = n /\ Msg(o, n)' = m
         /\ \A i \in 1 .. (n - 1) : Msg(o, i)' = Msg(o, i)
<1> DEFINE o == Other(s)
           N == Len(net[o])
           U == Len(out[s])
<1>1. o \in Sides /\ Other(o) = s
  BY SideFacts
<1>2. N \in Nat /\ U \in Nat /\ IsSeq(out[s]) /\ Flight(o) = N + U
  BY <1>1, FlightType DEF Flight
<1>3. /\ Len(out'[s]) = U + 1 /\ out'[s][U + 1] = m
      /\ \A i \in 1 .. U : out'[s][i] = out[s][i]
  BY <1>2, AppendIsSeq
<1> HIDE DEF o
<1>4. /\ Flight(o)' = N + Len(out'[s])
      /\ \A i : Msg(o, i)' = IF i <= N THEN net[o][i] ELSE out'[s][i - N]
      /\ \A i : Msg(o, i) = IF i <= N THEN net[o][i] ELSE out[s][i - N]
  <2>1. net'[o] = net[o]
    BY DEF o
  <2> QED
    BY <1>1, <2>1 DEF Flight, Msg
<1> HIDE DEF N, U
<1>5. Flight(o)' = n /\ n = N + U + 1
  BY <1>2, <1>3, <1>4 DEF o
<1>6. Msg(o, n)' = m
  <2>1. ~(n <= N) /\ n - N = U + 1
    BY <1>2, <1>5
  <2>2. Msg(o, n)' = out'[s][n - N]
    BY <1>4, <2>1
  <2> QED
    BY <1>3, <2>1, <2>2
<1>7. ASSUME NEW i \in 1 .. (n - 1) PROVE Msg(o, i)' = Msg(o, i)
  <2>1. i <= N \/ (~(i <= N) /\ i - N \in 1 .. U)
    BY <1>2, <1>5
  <2> QED
    BY <1>3, <1>4, <2>1
<1> QED
  BY <1>5, <1>6, <1>7 DEF o

\* s reads a message.
LEMMA FlightShrinks ==
  ASSUME NEW s \in Sides, LocalInv, net[s] # <<>>,
         net'[s] = Tail(net[s]), out'[Other(s)] = out[Other(s)]
  PROVE  /\ Flight(s) >= 1 /\ Flight(s)' = Flight(s) - 1
         /\ \A i \in 1 .. (Flight(s) - 1) : Msg(s, i)' = Msg(s, i + 1)
<1> DEFINE o == Other(s)
           N == Len(net[s])
           U == Len(out[o])
<1>2. /\ N \in Nat /\ U \in Nat /\ N >= 1 /\ Flight(s) = N + U /\ Flight(s) >= 1
      /\ IsSeq(net[s])
  BY FlightType DEF Flight
<1>3. Len(net'[s]) = N - 1 /\ \A i \in 1 .. (N - 1) : net'[s][i] = net[s][i + 1]
  BY <1>2, TailIsSeq
<1> HIDE DEF o
<1>4. /\ Flight(s)' = (N - 1) + U
      /\ \A i : Msg(s, i)' = IF i <= N - 1 THEN net'[s][i] ELSE out[o][i - (N - 1)]
      /\ \A i : Msg(s, i) = IF i <= N THEN net[s][i] ELSE out[o][i - N]
  <2>1. out'[o] = out[o] /\ o = Other(s)
    BY DEF o
  <2> QED
    BY <1>3, <2>1 DEF Flight, Msg
<1> HIDE DEF N, U
<1>5. ASSUME NEW i \in 1 .. (Flight(s) - 1) PROVE Msg(s, i)' = Msg(s, i + 1)
  <2>1. CASE i <= N - 1
    <3>1. i \in 1 .. (N - 1) /\ i + 1 <= N
      BY <1>2, <2>1
    <3> QED
      BY <1>3, <1>4, <2>1, <3>1
  <2>2. CASE ~(i <= N - 1)
    <3>1. ~(i + 1 <= N) /\ i - (N - 1) = (i + 1) - N
      BY <1>2, <2>2
    <3> QED
      BY <1>4, <2>2, <3>1
  <2> QED
    BY <2>1, <2>2
<1> QED
  BY <1>2, <1>4, <1>5

\* The event loop of s writes a message, and both sockets are open.
LEMMA FlightMoves ==
  ASSUME NEW s \in Sides, LocalInv, Write(s), open[Other(s)]
  PROVE  SameFlight(s) /\ SameFlight(Other(s))
<1> DEFINE o == Other(s)
           N == Len(net[o])
           U == Len(out[s])
<1>1. o \in Sides /\ Other(o) = s /\ o # s
  BY SideFacts
<1>2. /\ N \in Nat /\ U \in Nat /\ IsSeq(out[s]) /\ IsSeq(net[o]) /\ Flight(o) = N + U
  BY <1>1, FlightType DEF Flight
<1>3. /\ out[s] # <<>> /\ out'[s] = Tail(out[s]) /\ out'[o] = out[o]
      /\ net'[s] = net[s] /\ net'[o] = Append(net[o], Head(out[s]))
  BY <1>1 DEF Write, LocalInv, Functions
<1>4. /\ U >= 1 /\ Len(out'[s]) = U - 1 /\ Head(out[s]) = out[s][1]
      /\ \A i \in 1 .. (U - 1) : out'[s][i] = out[s][i + 1]
  BY <1>2, <1>3, TailIsSeq
<1>5. /\ Len(net'[o]) = N + 1 /\ net'[o][N + 1] = out[s][1]
      /\ \A i \in 1 .. N : net'[o][i] = net[o][i]
  BY <1>2, <1>3, <1>4, AppendIsSeq
<1>6. SameFlight(s)
  BY <1>3, FlightStays
<1> HIDE DEF o
<1>7. /\ Flight(o)' = (N + 1) + (U - 1)
      /\ \A i : Msg(o, i)' = IF i <= N + 1 THEN net'[o][i] ELSE out'[s][i - (N + 1)]
      /\ \A i : Msg(o, i) = IF i <= N THEN net[o][i] ELSE out[s][i - N]
  BY <1>1, <1>4, <1>5 DEF Flight, Msg
<1> HIDE DEF N, U
<1>8. ASSUME NEW i \in 1 .. Flight(o) PROVE Msg(o, i)' = Msg(o, i)
  <2>1. CASE i <= N
    <3>1. i <= N + 1 /\ i \in 1 .. N
      BY <1>2, <2>1
    <3> QED
      BY <1>5, <1>7, <2>1, <3>1
  <2>2. CASE i = N + 1
    <3>1. ~(i <= N) /\ i <= N + 1 /\ i - N = 1
      BY <1>2, <2>2
    <3> QED
      BY <1>5, <1>7, <2>2, <3>1
  <2>3. CASE i > N + 1
    <3>1. /\ ~(i <= N) /\ ~(i <= N + 1) /\ i - (N + 1) \in 1 .. (U - 1)
          /\ (i - (N + 1)) + 1 = i - N
      <4> DEFINE j == i - (N + 1)
      <4>1. U >= 1 /\ i \in Nat /\ i <= N + U /\ i > N + 1
        BY <1>2, <1>4, <2>3
      <4>2. ~(i <= N) /\ ~(i <= N + 1)
        BY <1>2, <4>1
      <4>3. j \in Int /\ 1 <= j /\ j <= U - 1 /\ j + 1 = i - N
        BY <1>2, <4>1
      <4> HIDE DEF j
      <4>4. j \in 1 .. (U - 1)
        BY <1>2, <4>3
      <4> QED
        BY <4>2, <4>3, <4>4 DEF j
    <3>2. Msg(o, i)' = out'[s][i - (N + 1)] /\ Msg(o, i) = out[s][i - N]
      BY <1>7, <3>1
    <3> QED
      BY <1>4, <3>1, <3>2
  <2> QED
    BY <1>2, <2>1, <2>2, <2>3
<1>9. Flight(o)' = Flight(o)
  BY <1>2, <1>4, <1>7
<1> QED
  BY <1>6, <1>8, <1>9 DEF SameFlight, o

\* s closes its socket: its peer may still read a prefix of what was in flight.
LEMMA FlightCut ==
  ASSUME NEW s \in Sides, LocalInv, CloseSocket(s)
  PROVE  LET o == Other(s) IN
         /\ Flight(o)' \in 0 .. Flight(o) /\ ~open'[s] /\ open'[o] = open[o]
         /\ \A i \in 1 .. Flight(o)' : Msg(o, i)' = Msg(o, i)
<1> DEFINE o == Other(s)
           N == Len(net[o])
           U == Len(out[s])
<1>1. o \in Sides /\ Other(o) = s /\ o # s
  BY SideFacts
<1>2. /\ N \in Nat /\ U \in Nat /\ Flight(o) = N + U
  BY <1>1, FlightType DEF Flight
<1>3. SocketFns /\ \A x \in Sides : SocketOK(x)
  BY DEF LocalInv, ProcessOK, Functions, SocketFns
<1>4. /\ open'[o] = open[o] /\ ~open'[s] /\ out'[s] = <<>>
      /\ Len(net'[o]) \in 0 .. N
      /\ \A i \in 1 .. Len(net'[o]) : net'[o][i] = net[o][i]
  BY <1>3, CloseOK
<1> HIDE DEF o
<1>5. /\ Flight(o)' = Len(net'[o])
      /\ \A i : Msg(o, i)' = IF i <= Len(net'[o]) THEN net'[o][i] ELSE out'[s][i - Len(net'[o])]
      /\ \A i : Msg(o, i) = IF i <= N THEN net[o][i] ELSE out[s][i - N]
  BY <1>1, <1>4, EmptyIsSeq DEF Flight, Msg
<1> HIDE DEF N, U
<1>6. ASSUME NEW i \in 1 .. Flight(o)' PROVE Msg(o, i)' = Msg(o, i)
  <2>1. i <= Len(net'[o]) /\ i <= N /\ i \in 1 .. Len(net'[o])
    BY <1>2, <1>4, <1>5
  <2> QED
    BY <1>4, <1>5, <2>1
<1> QED
  BY <1>2, <1>4, <1>5, <1>6 DEF o

-----------------------------------------------------------------------------
(* Phases and calls.                                                       *)

Phases == {"idle", "recv_B", "recv_seed", "recv_eq", "recv_masked", "flush"}

\* What a phase says about the call and the local variables.
LEMMA PhaseFacts ==
  ASSUME NEW s \in Sides, LocalInv
  PROVE  /\ Phase(s) \in Phases /\ cur[s] \in Nat /\ Next1(s) \in Nat
         /\ Next1(s) <= Len(fut[s]) + 1 /\ Len(fut[s]) \in Nat
         /\ Phase(s) # "idle" =>
              /\ Live(s) /\ open[s] /\ Next1(s) = cur[s] /\ Speaks(s, cur[s])
              /\ IsCall(Call(s)) /\ choices[s][cur[s]] \in ChoicesOf(Call(s))
              /\ cur[s] \in 1 .. Len(fut[s]) /\ ~Mute(Call(s))
         /\ Phase(s) = "recv_B" => Call(s).api \in Senders /\ loc[s] \in SenderDraws
         /\ Phase(s) = "recv_seed" => Call(s).api \in Receivers
         /\ Phase(s) \in {"recv_eq", "flush"} => Call(s).api = "ot_send"
         /\ Phase(s) = "recv_masked" => Call(s).api = "ot_receive"
<1>1. QueueOK(s) /\ TaskOK(s) /\ ThreadsOK(s) /\ plan \in Plans /\ FuturesOK(s)
  BY DEF LocalInv, ProcessOK, Functions
<1>2. /\ cur[s] \in 0 .. Len(fut[s]) /\ Len(fut[s]) \in Nat /\ cur[s] \in Nat
  BY <1>1 DEF QueueOK, IsSeq
<1>3. Next1(s) \in Nat /\ Next1(s) <= Len(fut[s]) + 1
  BY <1>2 DEF Next1
<1>4. /\ Phase(s) \in Phases
      /\ Phase(s) # "idle" => Live(s)
      /\ Phase(s) = "recv_B" => worker[s] = "recv_B"
      /\ Phase(s) = "recv_seed" => worker[s] = "recv_seed"
      /\ Phase(s) = "recv_eq" => worker[s] = "recv_eq"
      /\ Phase(s) = "flush" => worker[s] = "flush" /\ Call(s).api # "ot_receive"
      /\ Phase(s) = "recv_masked" =>
           worker[s] = "recv_masked" \/ (worker[s] = "flush" /\ Call(s).api = "ot_receive")
  BY <1>1 DEF Phase, Phases, Live, Idle, Tasks, ThreadsOK
<1>5. ASSUME Live(s)
      PROVE  /\ open[s] /\ Next1(s) = cur[s] /\ Speaks(s, cur[s])
             /\ IsCall(Call(s)) /\ choices[s][cur[s]] \in ChoicesOf(Call(s))
             /\ cur[s] \in 1 .. Len(fut[s]) /\ ~Mute(Call(s))
  <2>1. worker[s] \in Tasks
    BY <1>5 DEF Live
  <2>2. /\ cur[s] \in DOMAIN Script[s] /\ DOMAIN Script[s] = 1 .. Len(Script[s])
        /\ IsCall(Call(s)) /\ choices[s][cur[s]] \in ChoicesOf(Call(s))
        /\ cur[s] \in 1 .. Len(fut[s])
    BY <1>1, <2>1, CallFacts, ScriptFacts
  <2> QED
    BY <1>1, <1>5, <2>1, <2>2 DEF TaskOK, Next1, Speaks, Call
<1> QED
  BY <1>1, <1>2, <1>3, <1>4, <1>5 DEF TaskOK

\* Two sides in the same call are the two ends of one transfer.
LEMMA MatchFacts ==
  ASSUME NEW s \in Sides, plan \in Plans, NEW j, Speaks(s, j),
         \E k \in Nat : k >= j /\ Speaks(Other(s), k)
  PROVE  LET c == Script[s][j]
             d == Script[Other(s)][j]
         IN  /\ Speaks(Other(s), j) /\ d.api = Partner(c.api) /\ c.api = Partner(d.api)
             /\ c.size = d.size /\ IsCall(c) /\ IsCall(d)
             /\ c.api \in {"ot_send", "ot_receive"} => c.n = d.n /\ c.n = c.size
<1> DEFINE c == Script[s][j]
           o == Other(s)
           d == Script[o][j]
<1>1. o \in Sides
  BY SideFacts
<1>2. /\ j \in DOMAIN Script[s] /\ ~Mute(c) /\ IsCall(c) /\ j \in Nat /\ j >= 1
      /\ Len(Script[o]) \in Nat /\ DOMAIN Script[o] = 1 .. Len(Script[o])
  BY <1>1, ScriptFacts DEF Speaks
<1>3. PICK k \in Nat : k >= j /\ Speaks(o, k)
  OBVIOUS
<1>4. k \in DOMAIN Script[o] /\ ~Mute(Script[o][k]) /\ j \in 1 .. Len(Script[o])
  BY <1>2, <1>3 DEF Speaks
<1>5. \A i \in 1 .. j : Match(Script[s][i], Script[o][i])
  BY <1>2, <1>3, <1>4, AgreeAssumption DEF Script
<1>6. Match(c, d) /\ IsCall(d)
  BY <1>1, <1>2, <1>4, <1>5, ScriptFacts
<1> HIDE DEF c, d, o
<1>7. ~Mute(d) /\ d.api = Partner(c.api) /\ c.size = d.size
  BY <1>2, <1>6 DEF Match
<1>8. c.api = Partner(d.api) /\ d.api \in Senders \cup Receivers
  BY <1>2, <1>7, Zenon DEF Partner, IsCall, Senders, Receivers
<1>9. ASSUME c.api \in {"ot_send", "ot_receive"} PROVE c.n = d.n /\ c.n = c.size
  <2>1. d.api \in {"ot_send", "ot_receive"}
    BY <1>7, <1>9 DEF Partner
  <2> QED
    BY <1>2, <1>7, <1>9, <2>1 DEF Mute, Rejected
<1>10. Speaks(o, j)
  BY <1>4, <1>7 DEF Speaks, d
<1> QED
  BY <1>2, <1>6, <1>7, <1>8, <1>9, <1>10 DEF c, d, o

\* The calls of a receiver and a sender that are in the same call.
LEMMA PairFacts ==
  ASSUME NEW r \in Sides, LocalInv, Phase(r) # "idle", Phase(Other(r)) # "idle",
         cur[r] = cur[Other(r)]
  PROVE  LET o == Other(r) IN
         /\ Call(o).api = Partner(Call(r).api) /\ Call(r).api = Partner(Call(o).api)
         /\ Call(r).size = Call(o).size
         /\ Call(r).api \in {"ot_send", "ot_receive"} =>
              Call(r).n = Call(o).n /\ Call(r).n = Call(r).size
         /\ Speaks(r, cur[r]) /\ Speaks(o, cur[r])
<1> DEFINE o == Other(r)
<1>1. o \in Sides
  BY SideFacts
<1>2. Speaks(r, cur[r]) /\ Speaks(o, cur[o]) /\ cur[r] \in Nat /\ plan \in Plans
  BY <1>1, PhaseFacts DEF LocalInv, Functions
<1>3. \E k \in Nat : k >= cur[r] /\ Speaks(o, k)
  BY <1>2
<1> QED
  BY <1>2, <1>3, MatchFacts DEF Call

-----------------------------------------------------------------------------
(* Steps that leave the conversation where it is.                          *)

\* s is where it was in its calls, or has passed one that transfers nothing.
SameSide(s) ==
  /\ Phase(s)' = Phase(s)
  /\ \/ Next1(s)' = Next1(s)
     \/ Phase(s) = "idle" /\ Next1(s)' = Next1(s) + 1 /\ ~Speaks(s, Next1(s))
  /\ Phase(s) # "idle" =>
       /\ cur'[s] = cur[s] /\ loc'[s] = loc[s]
       /\ choices'[s][cur[s]] = choices[s][cur[s]]

\* A future that has a value keeps it.
SameValues(s) ==
  \A k \in 1 .. Len(fut[s]) : fut[s][k].is = "value" => fut'[s][k] = fut[s][k]

\* Part of what was in flight to s may be lost.
LEMMA LeftCut ==
  ASSUME NEW s \in Sides, LocalInv, plan' = plan, SameSide(s), LeftOver(s),
         Flight(s)' \in 0 .. Flight(s), \A i \in 1 .. Flight(s)' : Msg(s, i)' = Msg(s, i)
  PROVE  LeftOver(s)'
<1>1. Flight(s) \in Nat /\ Flight(s)' \in Nat /\ Flight(s)' <= Flight(s)
  BY FlightType
<1>2. Flight(s) \in {0, 1, 2}
  BY DEF LeftOver
<1>3. ASSUME Flight(s)' \in {1, 2} PROVE FirstLeft(s)'
  <2>1. Flight(s) \in {1, 2} /\ Msg(s, 1)' = Msg(s, 1)
    BY <1>1, <1>2, <1>3
  <2>2. FirstLeft(s)
    BY <2>1 DEF LeftOver
  <2>3. Phase(s) # "idle" => Call(s)' = Call(s)
    BY DEF SameSide, Call, Script
  <2>4. Phase(s) = "recv_masked" => IsMasked(s, Msg(s, 1))'
    BY <2>1, <2>2, <2>3 DEF FirstLeft, IsMasked, SameSide, Script
  <2> QED
    BY <2>1, <2>2, <2>3, <2>4 DEF FirstLeft, SameSide
<1>4. ASSUME Flight(s)' = 2
      PROVE  /\ Msg(s, 2)'.kind = "A"
             /\ \/ Phase(s)' = "recv_masked"
                \/ Phase(s)' = "recv_seed" /\ Call(s)'.api = "recv_batch"
  <2>1. Flight(s) = 2 /\ Msg(s, 2)' = Msg(s, 2)
    BY <1>1, <1>2, <1>4
  <2> QED
    BY <2>1 DEF LeftOver, SameSide, Call, Script
<1>5. Flight(s)' \in {0, 1, 2}
  BY <1>1, <1>2
<1> QED
  BY <1>3, <1>4, <1>5 DEF LeftOver

\* What an abandoned call left on the wire to s stays as it is.
LEMMA LeftStays ==
  ASSUME NEW s \in Sides, LocalInv, plan' = plan, SameSide(s), LeftOver(s), SameFlight(s)
  PROVE  LeftOver(s)'
<1>1. Flight(s) \in Nat
  BY FlightType
<1> QED
  BY <1>1, LeftCut DEF SameFlight

\* While both sockets are open, no more is in flight than LeftOver allows.
LEMMA SyncLeft ==
  ASSUME NEW s \in Sides, LocalInv, InSync
  PROVE  LeftOver(s)
<1> DEFINE o == Other(s)
<1>0. o \in Sides /\ Other(o) = s
  BY SideFacts
<1>1. CASE BothEarly
  <2>1. Early(s) /\ Opening(o, 1) /\ Other(o) = s
    BY <1>0, <1>1 DEF BothEarly
  <2> QED
    BY <2>1 DEF Early, Opening, IsA, LeftOver, FirstLeft
<1>2. ASSUME NEW r \in Sides, SentB(r) PROVE LeftOver(s)
  <2>1. CASE r = s
    BY <1>2, <2>1 DEF SentB, LeftOver
  <2>2. CASE r = o
    BY <1>0, <1>2, <2>2 DEF SentB, LeftOver, FirstLeft, Paired, IsB
  <2> QED
    BY <2>1, <2>2, SideFacts
<1>3. ASSUME NEW r \in Sides, SentSeed(r) PROVE LeftOver(s)
  <2>1. CASE r = s
    BY <1>3, <2>1 DEF SentSeed, LeftOver, FirstLeft, Paired, IsSeed
  <2>2. CASE r = o
    BY <1>0, <1>3, <2>2 DEF SentSeed, LeftOver
  <2> QED
    BY <2>1, <2>2, SideFacts
<1>4. ASSUME NEW r \in Sides, SentEq(r) PROVE LeftOver(s)
  <2>1. CASE r = s
    BY <1>4, <2>1 DEF SentEq, LeftOver
  <2>2. CASE r = o
    <3>1. /\ Phase(o) = "recv_masked" /\ Phase(s) = "recv_eq" /\ cur[o] = cur[s]
          /\ Flight(s) = 1 /\ IsEq(o, Msg(s, 1), loc[s])
      BY <1>0, <1>4, <2>2 DEF SentEq, Paired
    <3>2. Call(o).n = Call(s).n
      BY <1>0, <3>1, PairFacts, PhaseFacts
    <3> QED
      BY <3>1, <3>2 DEF LeftOver, FirstLeft, IsEq
  <2> QED
    BY <2>1, <2>2, SideFacts
<1>5. ASSUME NEW r \in Sides, SentMasked(r) PROVE LeftOver(s)
  <2>1. CASE r = s
    BY <1>5, <2>1 DEF SentMasked, LeftOver, FirstLeft, Paired
  <2>2. CASE r = o
    BY <1>0, <1>5, <2>2 DEF SentMasked, LeftOver
  <2> QED
    BY <2>1, <2>2, SideFacts
<1>6. ASSUME NEW r \in Sides, Lags(r) PROVE LeftOver(s)
  <2>1. CASE r = s
    <3>1. CASE LagsSeed(s)
      BY <1>0, <3>1 DEF LagsSeed, Opening, IsA, IsSeed, LeftOver, FirstLeft
    <3>2. CASE LagsMasked(s)
      BY <1>0, <3>2 DEF LagsMasked, Opening, IsA, LeftOver, FirstLeft
    <3>3. CASE LagsFlush(s)
      BY <1>0, <3>3 DEF LagsFlush, Opening, IsA, LeftOver, FirstLeft
    <3> QED
      BY <1>6, <2>1, <3>1, <3>2, <3>3 DEF Lags
  <2>2. CASE r = o
    BY <1>0, <1>6, <2>2 DEF Lags, LeftOver
  <2> QED
    BY <2>1, <2>2, SideFacts
<1> QED
  BY <1>1, <1>2, <1>3, <1>4, <1>5, <1>6 DEF InSync

\* What s has passed stays silent, from a later call on too.
LEMMA SilentStays ==
  ASSUME NEW s \in Sides, LocalInv, plan' = plan, SameSide(s),
         NEW j \in Nat, NEW k \in Nat, j <= k, SilentFrom(s, j)
  PROVE  \A i \in 1 .. Len(Script[s])' : k <= i /\ i < Next1(s)' => ~Speaks(s, i)'
<1>1. /\ Next1(s) \in Nat /\ Script' = Script
      /\ Next1(s)' = Next1(s) \/ (Next1(s)' = Next1(s) + 1 /\ ~Speaks(s, Next1(s)))
  BY PhaseFacts DEF SameSide, Script
<1>2. Len(Script[s]) \in Nat
  BY ScriptFacts DEF LocalInv, Functions
<1> SUFFICES ASSUME NEW i \in 1 .. Len(Script[s]), k <= i, i < Next1(s)'
             PROVE  ~Speaks(s, i)
  BY <1>1 DEF Speaks
<1>3. j <= i /\ (i < Next1(s) \/ (i = Next1(s) /\ ~Speaks(s, Next1(s))))
  BY <1>1, <1>2
<1> QED
  BY <1>3 DEF SilentFrom

\* The other side does not see whether s has begun its call.
LEMMA OpeningStays ==
  ASSUME NEW s \in Sides, SameSide(s), SameFlight(Other(s)), NEW n \in {1, 2}, Opening(s, n)
  PROVE  IF Phase(s)' = "recv_B" THEN Flight(Other(s))' = n /\ IsA(s, Msg(Other(s), n))'
         ELSE Flight(Other(s))' = n - 1
<1>1. Phase(s)' = Phase(s) /\ (Phase(s) = "recv_B" => loc'[s] = loc[s])
  BY DEF SameSide
<1>2. Flight(Other(s))' = Flight(Other(s))
  BY DEF SameFlight
<1>3. CASE Phase(s) = "recv_B"
  <2>1. Flight(Other(s)) = n /\ IsA(s, Msg(Other(s), n))
    BY <1>3 DEF Opening
  <2>2. Msg(Other(s), n)' = Msg(Other(s), n)
    BY <2>1 DEF SameFlight
  <2> QED
    BY <1>1, <1>2, <1>3, <2>1, <2>2 DEF IsA
<1>4. CASE Phase(s) # "recv_B"
  BY <1>1, <1>2, <1>4 DEF Opening
<1> QED
  BY <1>3, <1>4

\* A receiver and its sender stay where they are.
LEMMA SentStays ==
  ASSUME NEW r \in Sides, LocalInv, plan' = plan, \A x \in Sides : SameSide(x) /\ SameFlight(x)
  PROVE  /\ SentB(r) => SentB(r)'
         /\ SentSeed(r) => SentSeed(r)'
         /\ SentEq(r) => SentEq(r)'
         /\ SentMasked(r) => SentMasked(r)'
<1> DEFINE o == Other(r)
<1>0. o \in Sides
  BY SideFacts
<1>1. /\ Phase(r)' = Phase(r) /\ Phase(o)' = Phase(o)
      /\ Phase(r) # "idle" => /\ cur'[r] = cur[r] /\ loc'[r] = loc[r] /\ Call(r)' = Call(r)
                              /\ choices'[r][cur[r]] = choices[r][cur[r]]
      /\ Phase(o) # "idle" => cur'[o] = cur[o] /\ loc'[o] = loc[o] /\ Call(o)' = Call(o)
  BY <1>0 DEF SameSide, Call, Script
<1>2. /\ Flight(r)' = Flight(r) /\ Flight(o)' = Flight(o)
      /\ Flight(r) = 1 => Msg(r, 1)' = Msg(r, 1)
      /\ Flight(o) = 1 => Msg(o, 1)' = Msg(o, 1)
  BY <1>0 DEF SameFlight
<1>3. SentB(r) => SentB(r)'
  BY <1>1, <1>2 DEF SentB, Paired, IsB
<1>4. SentSeed(r) => SentSeed(r)'
  BY <1>1, <1>2 DEF SentSeed, Paired, IsSeed
<1>5. SentEq(r) => SentEq(r)'
  BY <1>1, <1>2, SMTT(60) DEF SentEq, Paired, IsEq
<1>6. SentMasked(r) => SentMasked(r)'
  BY <1>1, <1>2 DEF SentMasked, Paired, IsMasked, Script
<1> QED
  BY <1>3, <1>4, <1>5, <1>6

\* Two sides that have not begun to talk are left as they are.
LEMMA EarlyStays ==
  ASSUME LocalInv, plan' = plan, \A x \in Sides : SameSide(x) /\ SameFlight(x), BothEarly
  PROVE  BothEarly'
<1> SUFFICES ASSUME NEW s \in Sides
             PROVE  Early(s)' /\ SilentFrom(Other(s), Next1(s))' /\ Opening(s, 1)'
  BY DEF BothEarly
<1> DEFINE o == Other(s)
<1>0. o \in Sides
  BY SideFacts
<1>1. Early(s)'
  BY DEF BothEarly, Early, SameSide
<1>2. Opening(s, 1)'
  BY <1>0, OpeningStays DEF BothEarly, Opening
<1>3. Next1(s) \in Nat /\ Next1(s)' \in Nat /\ Next1(s) <= Next1(s)' /\ SilentFrom(o, Next1(s))
  BY PhaseFacts DEF SameSide, BothEarly
<1>4. SilentFrom(o, Next1(s))'
  BY <1>0, <1>3, SilentStays DEF SilentFrom
<1> QED
  BY <1>1, <1>2, <1>4

\* Two sides in the same call are left as they are.
LEMMA LagsStays ==
  ASSUME NEW s \in Sides, LocalInv, plan' = plan,
         \A x \in Sides : SameSide(x) /\ SameFlight(x) /\ SameValues(x), Lags(s)
  PROVE  Lags(s)'
<1> DEFINE o == Other(s)
<1>0. o \in Sides /\ Other(o) = s
  BY SideFacts
<1>1. Phase(s) # "idle"
  BY DEF Lags, LagsSeed, LagsMasked, LagsFlush
<1>2. /\ Phase(s)' = Phase(s) /\ cur'[s] = cur[s] /\ loc'[s] = loc[s] /\ Call(s)' = Call(s)
      /\ choices'[s][cur[s]] = choices[s][cur[s]] /\ Script' = Script
  BY <1>1 DEF SameSide, Call, Script
<1>3. /\ Early(o) /\ cur[s] < Next1(o) /\ Speaks(o, cur[s])
      /\ SilentFrom(o, cur[s] + 1) /\ Flight(o) = 0
  BY DEF Lags
<1>4. /\ cur[s] \in Nat /\ cur[s] >= 1 /\ cur[s] + 1 \in Nat /\ Next1(o) \in Nat /\ Next1(o) <= Next1(o)'
      /\ Len(fut[o]) \in Nat /\ Next1(o) <= Len(fut[o]) + 1 /\ Next1(o)' \in Nat
  BY <1>0, <1>1, PhaseFacts DEF SameSide
<1>5. Early(o)' /\ cur'[s] < Next1(o)' /\ Speaks(o, cur[s])' /\ Flight(o)' = 0
  <2>1. Early(o)'
    BY <1>0, <1>3 DEF Early, SameSide
  <2>2. cur[s] < Next1(o)'
    BY <1>3, <1>4
  <2>3. Flight(o)' = 0
    BY <1>0, <1>3 DEF SameFlight
  <2> QED
    BY <1>2, <1>3, <2>1, <2>2, <2>3 DEF Speaks
<1>6. SilentFrom(o, cur[s] + 1)'
  <2> DEFINE k == cur[s] + 1
  <2>1. k \in Nat /\ k <= k /\ SilentFrom(o, k)
    BY <1>3, <1>4
  <2> HIDE DEF k
  <2>2. \A i \in 1 .. Len(Script[o])' : k <= i /\ i < Next1(o)' => ~Speaks(o, i)'
    BY <1>0, <2>1, SilentStays
  <2>3. cur'[s] + 1 = k
    BY <1>2 DEF k
  <2> QED
    BY <2>2, <2>3 DEF SilentFrom
<1>8. ASSUME NEW n \in {1, 2}, Opening(o, n) PROVE Opening(o, n)'
  BY <1>0, <1>8, OpeningStays DEF Opening
<1>9. ASSUME Opening(o, 2) PROVE Msg(s, 1)' = Msg(s, 1)
  <2>1. Flight(s) \in {1, 2}
    BY <1>0, <1>9 DEF Opening
  <2> QED
    BY <2>1 DEF SameFlight
<1>10. ASSUME LagsSeed(s) PROVE LagsSeed(s)'
  <2>1. cur[s] \in 1 .. Len(fut[o])
    BY <1>3, <1>4
  <2>2. fut'[o][cur[s]] = fut[o][cur[s]]
    BY <1>0, <1>10, <2>1 DEF LagsSeed, SameValues
  <2>3. Opening(o, 2)' /\ Msg(s, 1)' = Msg(s, 1)
    BY <1>8, <1>9, <1>10 DEF LagsSeed
  <2> QED
    BY <1>2, <1>10, <2>2, <2>3 DEF LagsSeed, IsSeed
<1>11. ASSUME LagsMasked(s) PROVE LagsMasked(s)'
  <2>1. Opening(o, 2)' /\ Msg(s, 1)' = Msg(s, 1)
    BY <1>8, <1>9, <1>11 DEF LagsMasked
  <2> QED
    BY <1>2, <1>11, <2>1 DEF LagsMasked, IsMasked
<1>12. ASSUME LagsFlush(s) PROVE LagsFlush(s)'
  BY <1>2, <1>8, <1>12 DEF LagsFlush
<1> QED
  BY <1>2, <1>5, <1>6, <1>10, <1>11, <1>12 DEF Lags

\* A step after which both sides are where they were.
Quiet ==
  /\ plan' = plan /\ open' = open
  /\ \A x \in Sides : SameSide(x) /\ SameValues(x) /\ (open[x] => SameFlight(x))

\* Such a step leaves the wire in order.
LEMMA QuietOK == ASSUME LocalInv, WireInv, Quiet PROVE WireInv'
<1>0. /\ plan' = plan /\ open' = open
      /\ \A x \in Sides : SameSide(x) /\ SameValues(x) /\ (open[x] => SameFlight(x))
  BY DEF Quiet
<1>1. ASSUME \A x \in Sides : open[x] PROVE InSync'
  <2>1. InSync /\ \A x \in Sides : SameFlight(x)
    BY <1>0, <1>1 DEF WireInv
  <2>2. CASE BothEarly
    BY <1>0, <2>1, <2>2, EarlyStays DEF InSync
  <2>3. ASSUME NEW r \in Sides, SentB(r) \/ SentSeed(r) \/ SentEq(r) \/ SentMasked(r)
        PROVE  InSync'
    <3>1. SentB(r)' \/ SentSeed(r)' \/ SentEq(r)' \/ SentMasked(r)'
      BY <1>0, <2>1, <2>3, SentStays
    <3> QED
      BY <3>1 DEF InSync
  <2>4. ASSUME NEW r \in Sides, Lags(r) PROVE InSync'
    <3>1. Lags(r)'
      BY <1>0, <2>1, <2>4, LagsStays
    <3> QED
      BY <3>1 DEF InSync
  <2> QED
    BY <2>1, <2>2, <2>3, <2>4 DEF InSync
<1>2. ASSUME NEW s \in Sides, open[s], ~open[Other(s)] PROVE LeftOver(s)'
  BY <1>0, <1>2, LeftStays DEF WireInv
<1> QED
  BY <1>0, <1>1, <1>2 DEF WireInv

-----------------------------------------------------------------------------
(* What the steps do to the two sides.                                     *)

\* Nothing of s changes.
LEMMA SideStays ==
  ASSUME NEW s \in Sides, LocalInv, plan' = plan, worker'[s] = worker[s], cur'[s] = cur[s],
         loc'[s] = loc[s], choices'[s] = choices[s]
  PROVE  SameSide(s)
BY DEF SameSide, Phase, Next1, Call, Script

\* The worker of s is idle before and after.
LEMMA IdleStays ==
  ASSUME NEW s \in Sides, worker[s] \in Idle, worker'[s] \in Idle, Next1(s)' = Next1(s)
  PROVE  SameSide(s)
BY DEF SameSide, Phase

\* A task of s ends.
LEMMA SettleView ==
  ASSUME NEW s \in Sides, LocalInv, worker[s] \in Tasks, NEW v, Settle(s, v),
         UNCHANGED <<plan, choices, cur>>
  PROVE  /\ Phase(s)' = "idle" /\ Next1(s) = cur[s] /\ Next1(s)' = cur[s] + 1
         /\ fut'[s][cur[s]] = v /\ Len(fut'[s]) = Len(fut[s]) /\ fut'[Other(s)] = fut[Other(s)]
         /\ \A k \in 1 .. Len(fut[s]) : k # cur[s] => fut'[s][k] = fut[s][k]
         /\ SameSide(Other(s)) /\ \A x \in Sides : SameValues(x)
<1> DEFINE o == Other(s)
<1>0. o \in Sides /\ o # s /\ \A x \in Sides : x = s \/ x = o
  BY SideFacts
<1>1. Functions /\ QueueOK(s) /\ FuturesOK(s) /\ cur[s] \in 1 .. Len(fut[s])
  BY CallFacts DEF LocalInv, ProcessOK
<1>2. /\ worker'[s] = "check" /\ fut'[s] = [fut[s] EXCEPT ![cur[s]] = v]
      /\ worker'[o] = worker[o] /\ fut'[o] = fut[o] /\ loc'[o] = loc[o]
  BY <1>0, <1>1 DEF Settle, Functions
<1>3. /\ fut'[s][cur[s]] = v /\ Len(fut'[s]) = Len(fut[s])
      /\ \A k \in 1 .. Len(fut[s]) : k # cur[s] => fut'[s][k] = fut[s][k]
  BY <1>1, <1>2, ExceptIsSeq DEF QueueOK
<1>4. Phase(s)' = "idle" /\ Next1(s) = cur[s] /\ Next1(s)' = cur[s] + 1
  BY <1>2 DEF Phase, Idle, Next1, Tasks
<1>5. SameValues(s) /\ SameValues(o)
  BY <1>1, <1>2, <1>3 DEF SameValues, FuturesOK, Pending
<1>6. SameSide(o)
  BY <1>0, <1>2, SideStays
<1> QED
  BY <1>0, <1>2, <1>3, <1>4, <1>5, <1>6

\* A task of s goes on.
LEMMA GotoView ==
  ASSUME NEW s \in Sides, LocalInv, worker[s] \in Tasks, NEW ph \in Tasks, Goto(s, ph),
         UNCHANGED <<plan, choices, cur, fut>>, loc'[Other(s)] = loc[Other(s)]
  PROVE  /\ worker'[s] = ph /\ Next1(s) = cur[s] /\ Next1(s)' = cur[s] /\ Call(s)' = Call(s)
         /\ SameSide(Other(s)) /\ \A x \in Sides : SameValues(x)
<1> DEFINE o == Other(s)
<1>0. o \in Sides /\ o # s /\ \A x \in Sides : x = s \/ x = o
  BY SideFacts
<1>1. worker'[s] = ph /\ worker'[o] = worker[o]
  BY <1>0 DEF Goto, LocalInv, Functions
<1>2. SameSide(o)
  BY <1>0, <1>1, SideStays
<1> QED
  BY <1>0, <1>1, <1>2 DEF Next1, SameValues, Call, Script

-----------------------------------------------------------------------------
(* The quiet steps.                                                        *)

\* What the owning thread does is not seen on the wire.
LEMMA OwnerQuiet ==
  ASSUME NEW s \in Sides, LocalInv,
         Submit(s) \/ AwaitFuture(s) \/ Destroy(s) \/ Join(s) \/ SpuriousWakeup(s)
  PROVE  Quiet /\ UNCHANGED <<out, net>>
<1> DEFINE o == Other(s)
<1>0. o \in Sides /\ o # s /\ \A x \in Sides : x = s \/ x = o
  BY SideFacts
<1>1. Functions /\ QueueOK(s) /\ ThreadsOK(s)
  BY DEF LocalInv, ProcessOK
<1>2. /\ UNCHANGED <<plan, cur, loc, out, net, open>>
      /\ worker'[o] = worker[o] /\ choices'[o] = choices[o] /\ fut'[o] = fut[o]
      /\ worker'[s] = worker[s] \/ (worker[s] = "asleep" /\ worker'[s] = "check")
  BY <1>0, <1>1 DEF Submit, AwaitFuture, Destroy, Join, SpuriousWakeup, Woken, Functions,
                    taskVars, sockVars, ownerVars
<1>3. \A k \in 1 .. Len(fut[s]) : fut'[s][k] = fut[s][k] /\ choices'[s][k] = choices[s][k]
  <2>1. CASE Submit(s)
    <3>1. PICK ch : choices' = [choices EXCEPT ![s] = Append(@, ch)]
      BY <2>1 DEF Submit
    <3>2. fut' = [fut EXCEPT ![s] = Append(@, Pending)]
      BY <2>1 DEF Submit
    <3>3. choices'[s] = Append(choices[s], ch) /\ fut'[s] = Append(fut[s], Pending)
      BY <1>1, <3>1, <3>2 DEF Functions
    <3>4. IsSeq(fut[s]) /\ IsSeq(choices[s]) /\ Len(choices[s]) = Len(fut[s])
      BY <1>1 DEF QueueOK
    <3> QED
      BY <3>3, <3>4, AppendIsSeq
  <2>2. CASE ~Submit(s)
    BY <2>2 DEF AwaitFuture, Destroy, Join, SpuriousWakeup, ownerVars
  <2> QED
    BY <2>1, <2>2
<1>4. SameSide(o)
  BY <1>0, <1>2, SideStays
<1>5. SameSide(s)
  <2>1. CASE worker'[s] = worker[s]
    <3>1. Phase(s)' = Phase(s) /\ Next1(s)' = Next1(s)
      BY <1>2, <2>1 DEF Phase, Next1, Call, Script
    <3>2. Phase(s) # "idle" => cur[s] \in 1 .. Len(fut[s])
      BY PhaseFacts
    <3> QED
      BY <1>2, <1>3, <3>1, <3>2 DEF SameSide
  <2>2. CASE worker[s] = "asleep" /\ worker'[s] = "check"
    BY <1>2, <2>2, IdleStays DEF Idle, Next1, Tasks
  <2> QED
    BY <1>2, <2>1, <2>2
<1>6. \A x \in Sides : SameFlight(x)
  BY <1>2, FlightStays
<1>7. SameValues(s) /\ SameValues(o)
  BY <1>2, <1>3 DEF SameValues
<1> QED
  BY <1>0, <1>2, <1>4, <1>5, <1>6, <1>7 DEF Quiet

\* Taking a task from the queue is not seen on the wire.
LEMMA TakeTaskQuiet ==
  ASSUME NEW s \in Sides, LocalInv, TakeTask(s)
  PROVE  Quiet /\ UNCHANGED <<out, net>>
<1> DEFINE o == Other(s)
<1>0. o \in Sides /\ o # s /\ \A x \in Sides : x = s \/ x = o
  BY SideFacts
<1>1. Functions /\ QueueOK(s)
  BY DEF LocalInv, ProcessOK
<1>2. UNCHANGED <<plan, choices, fut, loc, out, net, open>> /\ worker[s] = "check"
  BY DEF TakeTask, sockVars, ownerVars
<1>3. /\ worker'[o] = worker[o] /\ cur'[o] = cur[o]
      /\ \/ worker'[s] \in {"asleep", "gone"} /\ cur'[s] = cur[s]
         \/ worker'[s] = "begin" /\ tasks[s] # <<>> /\ cur'[s] = Head(tasks[s])
  BY <1>0, <1>1 DEF TakeTask, Functions
<1>4. tasks[s] # <<>> => Head(tasks[s]) = cur[s] + 1
  <2> SUFFICES ASSUME tasks[s] # <<>> PROVE Head(tasks[s]) = cur[s] + 1
    OBVIOUS
  <2>1. Len(tasks[s]) \in Nat /\ Len(tasks[s]) >= 1 /\ Head(tasks[s]) = tasks[s][1]
    BY <1>1, TailIsSeq DEF QueueOK, IsSeq
  <2>2. 1 \in 1 .. Len(tasks[s])
    BY <2>1
  <2> QED
    BY <1>1, <2>1, <2>2 DEF QueueOK
<1>5. worker'[s] \in Idle /\ worker[s] \in Idle /\ Next1(s)' = Next1(s)
  BY <1>2, <1>3, <1>4 DEF Idle, Next1, Tasks
<1>6. SameSide(s) /\ SameSide(o)
  BY <1>0, <1>2, <1>3, <1>5, SideStays, IdleStays
<1>7. \A x \in Sides : SameFlight(x) /\ SameValues(x)
  BY <1>2, FlightStays DEF SameValues
<1> QED
  BY <1>0, <1>2, <1>6, <1>7 DEF Quiet

\* A message on the socket and one still queued are the same to the wire.
LEMMA WriteQuiet ==
  ASSUME NEW s \in Sides, LocalInv, Write(s)
  PROVE  Quiet
<1> DEFINE o == Other(s)
<1>0. o \in Sides /\ o # s /\ Other(o) = s /\ \A x \in Sides : x = s \/ x = o
  BY SideFacts
<1>1. UNCHANGED <<plan, choices, fut, worker, cur, loc, open>>
  BY DEF Write, ownerVars, taskVars
<1>2. \A x \in Sides : SameSide(x) /\ SameValues(x)
  BY <1>1, SideStays DEF SameValues
<1>3. \A x \in Sides : open[x] => SameFlight(x)
  <2>1. CASE open[o]
    BY <1>0, <2>1, FlightMoves
  <2>2. CASE ~open[o]
    <3>1. net'[s] = net[s] /\ out'[o] = out[o]
      BY <1>0, <2>2 DEF Write, LocalInv, Functions
    <3> QED
      BY <1>0, <2>2, <3>1, FlightStays
  <2> QED
    BY <2>1, <2>2
<1> QED
  BY <1>1, <1>2, <1>3 DEF Quiet

\* A receiver, and a task with nothing to do, begin in silence.
LEMMA BeginQuiet ==
  ASSUME NEW s \in Sides, LocalInv, BeginTrivial(s) \/ BeginReceiver(s)
  PROVE  Quiet /\ UNCHANGED <<out, net>>
<1> DEFINE o == Other(s)
<1>0. o \in Sides /\ o # s /\ \A x \in Sides : x = s \/ x = o
  BY SideFacts
<1>1. UNCHANGED <<plan, choices, cur, out, net, open>> /\ worker[s] = "begin"
  BY DEF BeginTrivial, BeginReceiver, ownerVars, sockVars
<1>2. worker[s] \in Tasks /\ Phase(s) = "idle" /\ Next1(s) = cur[s] /\ Functions
  BY <1>1 DEF Tasks, Phase, Idle, Next1, LocalInv
<1>3. CASE BeginTrivial(s)
  <2>1. Mute(Call(s)) /\ \E v : Settle(s, v)
    BY <1>3 DEF BeginTrivial, Mute
  <2>2. /\ Phase(s)' = "idle" /\ Next1(s)' = Next1(s) + 1
        /\ SameSide(o) /\ \A x \in Sides : SameValues(x)
    BY <1>1, <1>2, <2>1, SettleView
  <2>3. ~Speaks(s, Next1(s))
    BY <1>2, <2>1 DEF Speaks, Call
  <2> QED
    BY <1>0, <1>1, <1>2, <2>2, <2>3, FlightStays DEF SameSide, Quiet
<1>4. CASE BeginReceiver(s)
  <2>1. Goto(s, "recv_A") /\ UNCHANGED fut /\ loc'[o] = loc[o]
    BY <1>0, <1>2, <1>4 DEF BeginReceiver, Functions
  <2>2. /\ worker'[s] = "recv_A" /\ Next1(s)' = Next1(s)
        /\ SameSide(o) /\ \A x \in Sides : SameValues(x)
    BY <1>1, <1>2, <2>1, GotoView DEF Tasks
  <2>3. SameSide(s)
    BY <1>1, <2>2, IdleStays DEF Idle
  <2> QED
    BY <1>0, <1>1, <2>2, <2>3, FlightStays DEF Quiet
<1> QED
  BY <1>3, <1>4

\* The receiver has flushed its message eq.
LEMMA FlushedQuiet ==
  ASSUME NEW s \in Sides, LocalInv, Flushed(s), Call(s).api = "ot_receive"
  PROVE  Quiet /\ UNCHANGED <<out, net>>
<1> DEFINE o == Other(s)
<1>0. o \in Sides /\ o # s /\ \A x \in Sides : x = s \/ x = o
  BY SideFacts
<1>1. /\ UNCHANGED <<plan, choices, fut, cur, loc, out, net, open>>
      /\ worker[s] = "flush" /\ Goto(s, "recv_masked")
  BY DEF Flushed, ownerVars, sockVars
<1>2. /\ worker'[s] = "recv_masked" /\ Next1(s)' = Next1(s) /\ Call(s)' = Call(s)
      /\ SameSide(o) /\ \A x \in Sides : SameValues(x)
  BY <1>1, GotoView DEF Tasks
<1>3. SameSide(s)
  BY <1>1, <1>2 DEF SameSide, Phase, Idle
<1> QED
  BY <1>0, <1>1, <1>2, <1>3, FlightStays DEF Quiet

-----------------------------------------------------------------------------
(* The end of a connection.                                                *)

\* What is in flight to an open socket.
LEMMA WireLeft ==
  ASSUME NEW s \in Sides, LocalInv, WireInv, open[s]
  PROVE  LeftOver(s)
<1>1. CASE open[Other(s)]
  <2>1. \A x \in Sides : open[x]
    BY <1>1, SideFacts
  <2> QED
    BY <2>1, SyncLeft DEF WireInv
<1>2. CASE ~open[Other(s)]
  BY <1>2 DEF WireInv
<1> QED
  BY <1>1, <1>2

\* Closing one's socket cuts the wire in both directions.
LEMMA CloseWire ==
  ASSUME NEW s \in Sides, LocalInv, WireInv, CloseSocket(s), plan' = plan,
         SameSide(Other(s))
  PROVE  WireInv'
<1> DEFINE o == Other(s)
<1>0. o \in Sides /\ o # s /\ Other(o) = s /\ \A x \in Sides : x = s \/ x = o
  BY SideFacts
<1>1. /\ Flight(o)' \in 0 .. Flight(o) /\ ~open'[s] /\ open'[o] = open[o]
      /\ \A i \in 1 .. Flight(o)' : Msg(o, i)' = Msg(o, i)
  BY FlightCut
<1>2. open[o] => LeftOver(o)'
  BY <1>0, <1>1, WireLeft, LeftCut
<1> QED
  BY <1>0, <1>1, <1>2 DEF WireInv

\* The destructor closes the socket, and so does a kill.
LEMMA OwnerCloses ==
  ASSUME NEW s \in Sides, LocalInv, WireInv, FlushAndClose(s) \/ Kill(s)
  PROVE  WireInv'
<1> DEFINE o == Other(s)
<1>0. o \in Sides /\ o # s
  BY SideFacts
<1>1. /\ CloseSocket(s) /\ UNCHANGED <<plan, choices, cur, loc>> /\ worker'[o] = worker[o]
  BY <1>0 DEF FlushAndClose, Kill, taskVars, LocalInv, Functions
<1> QED
  BY <1>0, <1>1, SideStays, CloseWire

\* What a task reads after SimplestOT is what it waits for.
LEMMA NoMisfit ==
  ASSUME NEW s \in Sides, LocalInv, WireInv, worker[s] \in {"recv_eq", "recv_masked"},
         net[s] # <<>>
  PROVE  Fits(s)
<1> DEFINE m == Msg(s, 1)
<1>1. Phase(s) = worker[s] /\ Phase(s) # "idle"
  BY DEF Phase, Idle
<1>2. open[s] /\ Flight(s) >= 1 /\ Head(net[s]) = m /\ Flight(s) \in Nat
  BY <1>1, PhaseFacts, FlightType
<1>3. FirstLeft(s)
  BY <1>2, WireLeft DEF LeftOver
<1>4. \/ worker[s] = "recv_eq" /\ m.kind = "eq" /\ m.n = Call(s).n
      \/ worker[s] = "recv_masked" /\ m.kind = "masked" /\ m.n = Call(s).n
  BY <1>1, <1>3 DEF FirstLeft, IsMasked
<1>5. Expects(s) = <<m.kind, m.n>>
  BY <1>4 DEF Expects
<1> QED
  BY <1>2, <1>4, <1>5 DEF Fits

\* A task that fails closes the socket.
LEMMA TaskFailsWire ==
  ASSUME NEW s \in Sides, LocalInv, WireInv, TaskFails(s)
  PROVE  WireInv'
<1> DEFINE o == Other(s)
<1>0. o \in Sides /\ o # s /\ Other(o) = s /\ \A x \in Sides : x = s \/ x = o
  BY SideFacts
<1>1. /\ UNCHANGED <<plan, choices, cur>> /\ Settle(s, Thrown) /\ worker[s] \in Tasks
      /\ worker[s] \in {"begin", "recv_A", "recv_B", "recv_seed"} => CloseSocket(s)
      /\ worker[s] \notin {"begin", "recv_A", "recv_B", "recv_seed"} => UNCHANGED <<out, net, open>>
  BY DEF TaskFails, ownerVars, sockVars, Tasks, Waits
<1>2. SameSide(o) /\ \A x \in Sides : SameValues(x)
  BY <1>1, SettleView
<1>3. CASE worker[s] \in {"begin", "recv_A", "recv_B", "recv_seed"}
  BY <1>1, <1>2, <1>3, CloseWire
<1>4. CASE worker[s] \in {"recv_eq", "recv_masked", "flush"}
  <2>1. open[s]
    BY <1>4 DEF LocalInv, ProcessOK, TaskOK, Live, Tasks
  <2>2. worker[s] \in {"recv_eq", "recv_masked"} /\ net[s] = <<>> /\ ~open[o]
    BY <1>4, <2>1, NoMisfit DEF TaskFails, ReadFails, Waits
  <2>3. Flight(s)' = 0
    <3>1. out[o] = <<>>
      BY <1>0, <2>2 DEF LocalInv, ProcessOK, SocketOK
    <3>2. net'[s] = <<>> /\ out'[o] = <<>>
      BY <1>1, <2>2, <3>1
    <3> QED
      BY <3>2, EmptyIsSeq DEF Flight
  <2> QED
    BY <1>0, <1>1, <1>4, <2>2, <2>3 DEF WireInv, LeftOver
<1> QED
  BY <1>1, <1>3, <1>4 DEF Tasks

-----------------------------------------------------------------------------
(* The turns of the conversation.                                          *)

\* Where the two sides can be, given the phase of one of them.
LEMMA SyncCases ==
  ASSUME NEW s \in Sides, InSync
  PROVE  LET o == Other(s) IN
         /\ Phase(s) = "idle" => BothEarly \/ Lags(o)
         /\ Phase(s) = "recv_B" => BothEarly \/ SentB(o) \/ Lags(o)
         /\ Phase(s) = "recv_seed" => SentB(s) \/ SentSeed(s) \/ Lags(s)
         /\ Phase(s) = "recv_eq" => SentSeed(o) \/ SentEq(o)
         /\ Phase(s) = "recv_masked" => SentEq(s) \/ SentMasked(s) \/ Lags(s)
         /\ Phase(s) = "flush" => SentMasked(o) \/ Lags(s)
<1> DEFINE o == Other(s)
<1>0. o \in Sides /\ Other(o) = s /\ \A x \in Sides : x = s \/ x = o
  BY SideFacts
<1>1. /\ SentB(s) => Phase(s) = "recv_seed"
      /\ SentB(o) => Phase(s) = "recv_B"
      /\ SentSeed(s) => Phase(s) = "recv_seed"
      /\ SentSeed(o) => Phase(s) = "recv_eq"
      /\ SentEq(s) => Phase(s) = "recv_masked"
      /\ SentEq(o) => Phase(s) = "recv_eq"
      /\ SentMasked(s) => Phase(s) = "recv_masked"
      /\ SentMasked(o) => Phase(s) = "flush"
  BY <1>0 DEF SentB, SentSeed, SentEq, SentMasked, Paired
<1>2. BothEarly => Phase(s) \in {"idle", "recv_B"}
  BY DEF BothEarly, Early
<1>3. Lags(s) => Phase(s) \in {"recv_seed", "recv_masked", "flush"}
  BY DEF Lags, LagsSeed, LagsMasked, LagsFlush
<1>4. Lags(o) => Phase(s) \in {"idle", "recv_B"}
  BY <1>0 DEF Lags, Early
<1>5. \/ BothEarly \/ Lags(s) \/ Lags(o) \/ SentB(s) \/ SentB(o) \/ SentSeed(s) \/ SentSeed(o)
      \/ SentEq(s) \/ SentEq(o) \/ SentMasked(s) \/ SentMasked(o)
  BY <1>0 DEF InSync
<1> HIDE DEF o
<1>6. /\ Phase(s) = "idle" => BothEarly \/ Lags(o)
      /\ Phase(s) = "recv_B" => BothEarly \/ SentB(o) \/ Lags(o)
      /\ Phase(s) = "recv_seed" => SentB(s) \/ SentSeed(s) \/ Lags(s)
      /\ Phase(s) = "recv_eq" => SentSeed(o) \/ SentEq(o)
      /\ Phase(s) = "recv_masked" => SentEq(s) \/ SentMasked(s) \/ Lags(s)
      /\ Phase(s) = "flush" => SentMasked(o) \/ Lags(s)
  BY <1>1, <1>2, <1>3, <1>4, <1>5
<1> QED
  BY <1>6 DEF o

\* A step of s with its socket open.
LEMMA TurnOK ==
  ASSUME NEW s \in Sides, WireInv, open[s], open' = open,
         open[Other(s)] /\ InSync => InSync',
         ~open[Other(s)] /\ LeftOver(s) => LeftOver(s)'
  PROVE  WireInv'
<1>1. Other(s) \in Sides /\ Other(Other(s)) = s /\ \A x \in Sides : x = s \/ x = Other(s)
  BY SideFacts
<1> QED
  BY <1>1 DEF WireInv

\* After a step of s both sides have read nothing for their current calls.
LEMMA ToBothEarly ==
  ASSUME NEW s \in Sides, LocalInv, plan' = plan, NEW p \in Nat, Next1(s)' = p,
         Early(s)', Early(Other(s))', Opening(s, 1)', Opening(Other(s), 1)',
         NEW u \in Nat, Next1(Other(s))' = u,
         \A i \in 1 .. Len(Script[Other(s)]) : p <= i /\ i < u => ~Speaks(Other(s), i),
         \A i \in 1 .. Len(Script[s]) : u <= i /\ i < p => ~Speaks(s, i)
  PROVE  InSync'
<1> DEFINE o == Other(s)
<1>0. o \in Sides /\ Other(o) = s /\ \A x \in Sides : x = s \/ x = o
  BY SideFacts
<1>1. Script' = Script
  BY DEF Script
<1>2. SilentFrom(o, Next1(s))'
  BY <1>1 DEF SilentFrom, Speaks
<1>3. SilentFrom(s, Next1(o))'
  BY <1>1 DEF SilentFrom, Speaks
<1> HIDE DEF o
<1>4. /\ Early(s)' /\ SilentFrom(o, Next1(s))' /\ Opening(s, 1)'
      /\ Early(o)' /\ SilentFrom(s, Next1(o))' /\ Opening(o, 1)' /\ o = Other(s)
  BY <1>2, <1>3 DEF o
<1>5. BothEarly'
  <2> SUFFICES ASSUME NEW x \in Sides
               PROVE  (Early(x) /\ SilentFrom(Other(x), Next1(x)) /\ Opening(x, 1))'
    BY DEF BothEarly
  <2>1. CASE x = s
    BY <1>4, <2>1
  <2>2. CASE x = o
    BY <1>0, <1>4, <2>2
  <2> QED
    BY <1>0, <2>1, <2>2
<1> QED
  BY <1>5 DEF InSync

\* s finishes a call that its peer has finished before.
LEMMA LagEnds ==
  ASSUME NEW s \in Sides, LocalInv, plan' = plan, Lags(s), SameSide(Other(s)),
         Phase(s)' = "idle", Next1(s)' = cur[s] + 1, Flight(Other(s))' = 0,
         Opening(Other(s), 1)'
  PROVE  InSync'
<1> DEFINE o == Other(s)
           p == cur[s] + 1
<1>0. o \in Sides
  BY SideFacts
<1>1. /\ Early(o) /\ cur[s] < Next1(o) /\ SilentFrom(o, p) /\ Phase(s) # "idle"
  BY DEF Lags, LagsSeed, LagsMasked, LagsFlush
<1>2. /\ cur[s] \in Nat /\ p \in Nat /\ Next1(o) \in Nat /\ Next1(o)' \in Nat
      /\ Next1(o) <= Next1(o)' /\ Next1(s)' = p
  BY <1>0, <1>1, PhaseFacts DEF SameSide
<1>3. p <= Next1(o)' /\ Len(Script[s]) \in Nat
  <2>1. Len(Script[s]) \in Nat
    BY ScriptFacts DEF LocalInv, Functions
  <2> QED
    BY <1>1, <1>2, <2>1
<1>4. Early(s)' /\ Early(o)' /\ Opening(s, 1)'
  BY <1>1 DEF Early, SameSide, Opening
<1> HIDE DEF p
<1>5. \A i \in 1 .. Len(Script[o]) : p <= i /\ i < Next1(o)' => ~Speaks(o, i)
  <2>1. \A i \in 1 .. Len(Script[o])' : p <= i /\ i < Next1(o)' => ~Speaks(o, i)'
    BY <1>0, <1>1, <1>2, SilentStays
  <2> QED
    BY <2>1 DEF Speaks, Script
<1>6. \A i \in 1 .. Len(Script[s]) : Next1(o)' <= i /\ i < p => ~Speaks(s, i)
  <2> DEFINE u == Next1(o)'
  <2>1. p \in Nat /\ u \in Nat /\ p <= u /\ Len(Script[s]) \in Nat
    BY <1>2, <1>3
  <2> HIDE DEF u
  <2>2. \A i \in 1 .. Len(Script[s]) : ~(u <= i /\ i < p)
    BY <2>1
  <2> QED
    BY <2>2 DEF u
<1> DEFINE u == Next1(o)'
<1>7. u \in Nat /\ Next1(o)' = u
  BY <1>2
<1>8. /\ \A i \in 1 .. Len(Script[o]) : p <= i /\ i < u => ~Speaks(o, i)
      /\ \A i \in 1 .. Len(Script[s]) : u <= i /\ i < p => ~Speaks(s, i)
  BY <1>5, <1>6
<1> HIDE DEF u
<1> QED
  BY <1>2, <1>4, <1>7, <1>8, ToBothEarly

\* s finishes a call that its peer, in the same call, has still to finish.
LEMMA LagBegins ==
  ASSUME NEW s \in Sides, LocalInv, plan' = plan, cur[Other(s)] = cur[s],
         Phase(s) # "idle", Phase(Other(s)) # "idle", SameSide(Other(s)),
         Phase(s)' = "idle", Next1(s)' = cur[s] + 1, Flight(s)' = 0,
         LagsSeed(Other(s))' \/ LagsMasked(Other(s))' \/ LagsFlush(Other(s))'
  PROVE  InSync'
<1> DEFINE o == Other(s)
<1>0. o \in Sides /\ Other(o) = s
  BY SideFacts
<1>1. cur'[o] = cur[s] /\ Script' = Script
  BY DEF SameSide, Script
<1>2. cur[s] \in Nat /\ Speaks(s, cur[s]) /\ Len(Script[s]) \in Nat
  BY PhaseFacts, ScriptFacts DEF LocalInv, Functions
<1>3. Early(s)' /\ Speaks(s, cur[o])' /\ cur'[o] < Next1(s)'
  BY <1>1, <1>2 DEF Early, Speaks
<1>4. SilentFrom(s, cur[o] + 1)'
  <2> DEFINE p == cur[s] + 1
  <2>1. cur'[o] + 1 = p /\ Next1(s)' = p /\ p \in Nat
    BY <1>1, <1>2
  <2> HIDE DEF p
  <2>2. \A i \in 1 .. Len(Script[s]) : ~(p <= i /\ i < p)
    BY <1>2, <2>1
  <2> QED
    BY <1>1, <2>1, <2>2 DEF SilentFrom
<1> HIDE DEF o
<1>5. Lags(o)'
  BY <1>0, <1>3, <1>4 DEF Lags, o
<1> QED
  BY <1>0, <1>5 DEF InSync

\* The first of the messages to s is read, and the opening of its peer remains.
LEMMA OpeningMoves ==
  ASSUME NEW s \in Sides, LocalInv, SameSide(Other(s)), Opening(Other(s), 2),
         Flight(s)' = Flight(s) - 1, \A i \in 1 .. (Flight(s) - 1) : Msg(s, i)' = Msg(s, i + 1)
  PROVE  Opening(Other(s), 1)'
<1> DEFINE o == Other(s)
<1>0. o \in Sides /\ Other(o) = s
  BY SideFacts
<1>1. Phase(o)' = Phase(o) /\ (Phase(o) = "recv_B" => loc'[o] = loc[o])
  BY DEF SameSide
<1>2. CASE Phase(o) = "recv_B"
  <2>1. Flight(s) = 2 /\ IsA(o, Msg(s, 2))
    BY <1>0, <1>2 DEF Opening
  <2>2. Flight(s)' = 1 /\ Msg(s, 1)' = Msg(s, 2)
    BY <2>1
  <2> QED
    BY <1>0, <1>1, <1>2, <2>1, <2>2 DEF Opening, IsA
<1>3. CASE Phase(o) # "recv_B"
  <2>1. Flight(s) = 1
    BY <1>0, <1>3 DEF Opening
  <2> QED
    BY <1>0, <1>1, <1>3, <2>1 DEF Opening
<1> QED
  BY <1>2, <1>3

\* s reads a message ...
LEMMA ReadView ==
  ASSUME NEW s \in Sides, LocalInv, NEW ph \in Tasks, Receive(s, ph),
         out'[Other(s)] = out[Other(s)]
  PROVE  /\ worker[s] = ph /\ open[s] /\ Head(net[s]) = Msg(s, 1) /\ Flight(s) \in Nat
         /\ Expects(s) = <<Msg(s, 1).kind, Msg(s, 1).n>> /\ net'[Other(s)] = net[Other(s)]
         /\ Flight(s) >= 1 /\ Flight(s)' = Flight(s) - 1
         /\ \A i \in 1 .. (Flight(s) - 1) : Msg(s, i)' = Msg(s, i + 1)
<1>1. /\ worker[s] = ph /\ open[s] /\ net[s] # <<>> /\ net' = [net EXCEPT ![s] = Tail(@)]
      /\ Expects(s) = <<Head(net[s]).kind, Head(net[s]).n>>
  BY ReceiveFacts
<1>2. net'[s] = Tail(net[s]) /\ net'[Other(s)] = net[Other(s)]
  BY <1>1, SideFacts DEF LocalInv, Functions
<1>3. Head(net[s]) = Msg(s, 1) /\ Flight(s) \in Nat
  BY <1>1, FlightType
<1> QED
  BY <1>1, <1>2, <1>3, FlightShrinks

\* ... and answers it with message m.
LEMMA AnswerView ==
  ASSUME NEW s \in Sides, LocalInv, NEW ph \in Tasks, Receive(s, ph),
         NEW kind, NEW n, NEW v, Say(s, kind, n, v)
  PROVE  /\ worker[s] = ph /\ open[s] /\ Head(net[s]) = Msg(s, 1) /\ Flight(s) \in Nat
         /\ Expects(s) = <<Msg(s, 1).kind, Msg(s, 1).n>>
         /\ Flight(s) >= 1 /\ Flight(s)' = Flight(s) - 1
         /\ \A i \in 1 .. (Flight(s) - 1) : Msg(s, i)' = Msg(s, i + 1)
         /\ Flight(Other(s)) = 0 =>
              /\ Flight(Other(s))' = 1
              /\ Msg(Other(s), 1)' = [kind |-> kind, n |-> n, v |-> v]
<1> DEFINE o == Other(s)
           m == [kind |-> kind, n |-> n, v |-> v]
<1>1. o \in Sides /\ o # s
  BY SideFacts
<1>2. out'[o] = out[o] /\ out'[s] = Append(out[s], m)
  BY <1>1 DEF Say, LocalInv, Functions
<1>3. net'[o] = net[o]
  BY <1>2, ReadView
<1>4. ASSUME Flight(o) = 0 PROVE Flight(o)' = 1 /\ Msg(o, 1)' = m
  <2>1. 1 \in Nat /\ 1 = Flight(o) + 1
    BY <1>4
  <2> HIDE DEF m
  <2> QED
    BY <1>2, <1>3, <2>1, FlightGrows
<1> QED
  BY <1>2, <1>4, ReadView

\* What is left to read when s has read the first message.
LEMMA LeftRead ==
  ASSUME NEW s \in Sides, LeftOver(s), Flight(s) >= 1, Flight(s)' = Flight(s) - 1,
         \A i \in 1 .. (Flight(s) - 1) : Msg(s, i)' = Msg(s, i + 1),
         \/ Phase(s)' = "idle"
         \/ Phase(s) \notin {"recv_masked", "recv_seed"}
         \/ Phase(s) = "recv_seed" /\ Call(s).api # "recv_batch"
  PROVE  LeftOver(s)'
<1>1. Flight(s) = 1 \/ (Flight(s) = 2 /\ Phase(s)' = "idle" /\ Msg(s, 2).kind = "A")
  BY DEF LeftOver
<1>2. CASE Flight(s) = 1
  <2>1. Flight(s)' = 0
    BY <1>2
  <2> QED
    BY <2>1 DEF LeftOver
<1>3. CASE Flight(s) = 2 /\ Phase(s)' = "idle" /\ Msg(s, 2).kind = "A"
  <2>1. Flight(s)' = 1 /\ Msg(s, 1)' = Msg(s, 2)
    BY <1>3
  <2> QED
    BY <1>3, <2>1 DEF LeftOver, FirstLeft
<1> QED
  BY <1>1, <1>2, <1>3

\* A receiver and a sender that are both about to transfer are in the same call.
LEMMA SameCall ==
  ASSUME NEW s \in Sides, LocalInv, BothEarly, worker[s] = "recv_A",
         Phase(Other(s)) = "recv_B"
  PROVE  /\ cur[s] = cur[Other(s)] /\ Speaks(s, cur[s]) /\ Speaks(Other(s), cur[s])
         /\ Call(Other(s)).size = Call(s).size
<1> DEFINE o == Other(s)
<1>0. o \in Sides /\ Other(o) = s /\ plan \in Plans
  BY SideFacts DEF LocalInv, Functions
<1>1. Speaks(s, cur[s]) /\ Next1(s) = cur[s] /\ cur[s] \in Nat
  <2>1. worker[s] \in Tasks /\ TaskOK(s)
    BY DEF Tasks, LocalInv, ProcessOK
  <2>2. cur[s] \in DOMAIN Script[s] /\ DOMAIN Script[s] = 1 .. Len(Script[s]) /\ cur[s] \in Nat
    BY <1>0, <2>1, CallFacts, ScriptFacts
  <2>3. ~Mute(Call(s))
    BY <2>1 DEF TaskOK, Live, Tasks
  <2> QED
    BY <2>1, <2>2, <2>3 DEF Speaks, Next1, Call
<1>2. Speaks(o, cur[o]) /\ Next1(o) = cur[o] /\ cur[o] \in Nat
  BY <1>0, PhaseFacts
<1>3. SilentFrom(o, cur[s]) /\ SilentFrom(s, cur[o])
  BY <1>0, <1>1, <1>2 DEF BothEarly
<1>4. ~(cur[o] < cur[s])
  <2> SUFFICES ASSUME cur[o] < cur[s] PROVE FALSE
    OBVIOUS
  <2>1. \E k \in Nat : k >= cur[o] /\ Speaks(s, k)
    BY <1>1, <1>2
  <2>2. Speaks(s, cur[o])
    BY <1>0, <1>2, <2>1, MatchFacts
  <2> QED
    BY <1>1, <1>2, <1>3, <2>2 DEF SilentFrom, Speaks
<1>5. ~(cur[s] < cur[o])
  <2> SUFFICES ASSUME cur[s] < cur[o] PROVE FALSE
    OBVIOUS
  <2>1. \E k \in Nat : k >= cur[s] /\ Speaks(o, k)
    BY <1>1, <1>2
  <2>2. Speaks(o, cur[s])
    BY <1>0, <1>1, <2>1, MatchFacts
  <2> QED
    BY <1>1, <1>2, <1>3, <2>2 DEF SilentFrom, Speaks
<1>6. cur[s] = cur[o]
  BY <1>1, <1>2, <1>4, <1>5
<1>7. \E k \in Nat : k >= cur[s] /\ Speaks(o, k)
  BY <1>1, <1>2, <1>6
<1>8. Script[s][cur[s]].size = Script[o][cur[s]].size
  BY <1>0, <1>1, <1>7, MatchFacts
<1> QED
  BY <1>1, <1>2, <1>6, <1>8 DEF Call

\* The sender opens the call with its group element.
LEMMA BeginSenderWire ==
  ASSUME NEW s \in Sides, LocalInv, WireInv, BeginSender(s)
  PROVE  WireInv'
<1> DEFINE o == Other(s)
<1>0. o \in Sides /\ o # s /\ Other(o) = s
  BY SideFacts
<1>1. /\ UNCHANGED <<plan, choices, cur, fut, net, open>> /\ worker[s] = "begin" /\ open[s]
      /\ Goto(s, "recv_B")
  BY DEF BeginSender, ownerVars
<1>2. PICK d \in SenderDraws :
        /\ loc' = [loc EXCEPT ![s] = d]
        /\ Say(s, "A", 0, [A |-> mulGenerator(d.a), comm |-> Commit(d.seed)])
  BY DEF BeginSender
<1> DEFINE m == [kind |-> "A", n |-> 0, v |-> [A |-> mulGenerator(d.a), comm |-> Commit(d.seed)]]
<1>3. /\ loc'[s] = d /\ loc'[o] = loc[o] /\ out'[s] = Append(out[s], m) /\ out'[o] = out[o]
  BY <1>0, <1>2 DEF Say, LocalInv, Functions
<1>4. IsA(s, m)'
  BY <1>3 DEF IsA
<1>5. /\ worker'[s] = "recv_B" /\ Next1(s)' = Next1(s) /\ SameSide(o)
      /\ \A x \in Sides : SameValues(x)
  BY <1>1, <1>3, GotoView DEF Tasks
<1>6. Phase(s) = "idle" /\ Phase(s)' = "recv_B"
  BY <1>1, <1>5 DEF Phase, Idle
<1> HIDE DEF m
<1>7. SameFlight(s)
  BY <1>1, <1>3, FlightStays
<1>8. ASSUME NEW n \in {1, 2}, Flight(o) = n - 1
      PROVE  Opening(s, n)' /\ \A i \in 1 .. (n - 1) : Msg(o, i)' = Msg(o, i)
  <2>1. n \in Nat /\ n = Flight(o) + 1
    BY <1>8
  <2>2. /\ Flight(o)' = n /\ Msg(o, n)' = m
        /\ \A i \in 1 .. (n - 1) : Msg(o, i)' = Msg(o, i)
    BY <1>1, <1>3, <2>1, FlightGrows
  <2>3. IsA(s, Msg(o, n))'
    BY <1>4, <2>2 DEF IsA
  <2> QED
    BY <1>6, <2>2, <2>3 DEF Opening
<1>9. ASSUME BothEarly PROVE InSync'
  <2>1. /\ Early(o) /\ SilentFrom(o, Next1(s)) /\ SilentFrom(s, Next1(o))
        /\ Opening(s, 1) /\ Opening(o, 1)
    BY <1>0, <1>9 DEF BothEarly
  <2>2. Opening(s, 1)'
    BY <1>6, <1>8, <2>1 DEF Opening
  <2>3. Opening(o, 1)'
    BY <1>0, <1>5, <1>7, <2>1, OpeningStays DEF Opening
  <2>4. Early(s)' /\ Early(o)'
    BY <1>5, <1>6, <2>1 DEF Early, SameSide
  <2> DEFINE p == Next1(s)
             u == Next1(o)'
  <2>5. /\ p \in Nat /\ u \in Nat /\ Next1(o) \in Nat /\ Next1(o) <= u
        /\ Next1(s)' = p /\ Next1(o)' = u /\ p <= p
    BY <1>0, <1>5, PhaseFacts DEF SameSide
  <2>6. SilentFrom(o, p)
    BY <2>1
  <2>7. \A i \in 1 .. Len(Script[s]) : Next1(o) <= i /\ i < p => ~Speaks(s, i)
    BY <2>1 DEF SilentFrom
  <2> HIDE DEF p, u
  <2>8. \A i \in 1 .. Len(Script[o])' : p <= i /\ i < Next1(o)' => ~Speaks(o, i)'
    BY <1>0, <1>1, <1>5, <2>5, <2>6, SilentStays
  <2>9. \A i \in 1 .. Len(Script[o]) : p <= i /\ i < u => ~Speaks(o, i)
    BY <1>1, <2>5, <2>8 DEF Speaks, Script
  <2>10. Len(Script[s]) \in Nat
    BY ScriptFacts DEF LocalInv, Functions
  <2>11. \A i \in 1 .. Len(Script[s]) : u <= i /\ i < p => Next1(o) <= i
    BY <2>5, <2>10
  <2>12. \A i \in 1 .. Len(Script[s]) : u <= i /\ i < p => ~Speaks(s, i)
    BY <2>7, <2>11
  <2> QED
    BY <1>1, <2>2, <2>3, <2>4, <2>5, <2>9, <2>12, ToBothEarly
<1>10. ASSUME Lags(o) PROVE InSync'
  <2>1. /\ Early(s) /\ cur[o] < Next1(s) /\ Speaks(s, cur[o])
        /\ SilentFrom(s, cur[o] + 1) /\ Flight(s) = 0 /\ Phase(o) # "idle"
    BY <1>0, <1>10 DEF Lags, LagsSeed, LagsMasked, LagsFlush
  <2>2. /\ Phase(o)' = Phase(o) /\ cur'[o] = cur[o] /\ loc'[o] = loc[o]
        /\ choices'[o][cur[o]] = choices[o][cur[o]] /\ Call(o)' = Call(o) /\ Script' = Script
    BY <1>1, <1>5, <2>1 DEF SameSide, Call, Script
  <2>3. Early(s)' /\ cur'[o] < Next1(s)' /\ Speaks(s, cur[o])' /\ Flight(s)' = 0
    BY <1>5, <1>6, <1>7, <2>1, <2>2 DEF Early, Speaks, SameFlight
  <2>4. SilentFrom(s, cur[o] + 1)'
    BY <1>5, <2>1, <2>2 DEF SilentFrom, Speaks
  <2>5. ASSUME LagsSeed(o) PROVE LagsSeed(o)'
    <3>1. Opening(s, 2)' /\ Msg(o, 1)' = Msg(o, 1)
      BY <1>0, <1>6, <1>8, <2>5 DEF LagsSeed, Opening
    <3> QED
      BY <1>0, <1>1, <2>2, <2>5, <3>1, SMTT(60) DEF LagsSeed, IsSeed
  <2>6. ASSUME LagsMasked(o) PROVE LagsMasked(o)'
    <3>1. Opening(s, 2)' /\ Msg(o, 1)' = Msg(o, 1)
      BY <1>0, <1>6, <1>8, <2>6 DEF LagsMasked, Opening
    <3> QED
      BY <1>0, <2>2, <2>6, <3>1 DEF LagsMasked, IsMasked
  <2>7. ASSUME LagsFlush(o) PROVE LagsFlush(o)'
    <3>1. Opening(s, 1)'
      BY <1>0, <1>6, <1>8, <2>7 DEF LagsFlush, Opening
    <3> QED
      BY <1>0, <2>2, <2>7, <3>1 DEF LagsFlush
  <2>8. Lags(o)'
    BY <1>0, <1>10, <2>3, <2>4, <2>5, <2>6, <2>7 DEF Lags
  <2> QED
    BY <1>0, <2>8 DEF InSync
<1>11. ASSUME InSync PROVE InSync'
  BY <1>6, <1>9, <1>10, <1>11, SyncCases
<1>12. ASSUME LeftOver(s) PROVE LeftOver(s)'
  <2>1. Flight(s) = 0 \/ (Flight(s) = 1 /\ Msg(s, 1).kind = "A")
    BY <1>6, <1>12 DEF LeftOver, FirstLeft
  <2>2. Flight(s)' = 0 \/ (Flight(s)' = 1 /\ Msg(s, 1)'.kind = "A")
    BY <1>7, <2>1 DEF SameFlight
  <2> QED
    BY <1>6, <2>2 DEF LeftOver, FirstLeft
<1> QED
  BY <1>1, <1>11, <1>12, TurnOK

\* The element that the receiver reads is the sender's for this call.
LEMMA RecvAWire ==
  ASSUME NEW s \in Sides, LocalInv, WireInv, RecvA(s)
  PROVE  WireInv'
<1> DEFINE o == Other(s)
           m == Msg(s, 1)
           q == loc[s].q
<1>0. o \in Sides /\ o # s /\ Other(o) = s
  BY SideFacts
<1>1. /\ UNCHANGED <<plan, choices, cur, fut, open>> /\ Receive(s, "recv_A")
      /\ Goto(s, "recv_seed")
  BY DEF RecvA, ownerVars
<1>2. Head(net[s]) = m /\ worker[s] = "recv_A"
  BY <1>1, ReceiveFacts, FlightType DEF Tasks
<1>3. PICK b \in [DOMAIN q -> ReceiverDraws] :
        /\ loc' = [loc EXCEPT ![s] = [q |-> q, A |-> m.v.A, comm |-> m.v.comm, b |-> b]]
        /\ Say(s, "B", Call(s).size, [i \in DOMAIN q |-> ChosenB(m.v.A, b[i], q[i])])
  BY <1>2 DEF RecvA
<1>4. DOMAIN q = 1 .. Call(s).size
  BY <1>2 DEF LocalInv, ProcessOK, TaskOK
<1> DEFINE v == [i \in DOMAIN q |-> ChosenB(m.v.A, b[i], q[i])]
           N == Call(s).size
<1>5. /\ loc'[s] = [q |-> q, A |-> m.v.A, comm |-> m.v.comm, b |-> b] /\ loc'[o] = loc[o]
  BY <1>0, <1>3 DEF LocalInv, Functions
<1>6. /\ worker'[s] = "recv_seed" /\ Call(s)' = Call(s) /\ SameSide(o)
  BY <1>1, <1>2, <1>5, GotoView DEF Tasks
<1>7. Phase(s) = "idle" /\ Phase(s)' = "recv_seed"
  BY <1>2, <1>6 DEF Phase, Idle
<1> HIDE DEF v, N
<1>8. Say(s, "B", N, v)
  BY <1>3 DEF v, N
<1>9. /\ open[s] /\ Flight(s) \in Nat /\ Flight(s) >= 1 /\ Flight(s)' = Flight(s) - 1
      /\ \A i \in 1 .. (Flight(s) - 1) : Msg(s, i)' = Msg(s, i + 1)
      /\ Flight(o) = 0 => Flight(o)' = 1 /\ Msg(o, 1)' = [kind |-> "B", n |-> N, v |-> v]
  BY <1>1, <1>8, AnswerView DEF Tasks
<1>10. ASSUME InSync PROVE InSync'
  <2>1. BothEarly
    BY <1>0, <1>7, <1>9, <1>10, SyncCases DEF Lags
  <2>2. Opening(s, 1) /\ Opening(o, 1) /\ Early(o)
    BY <1>0, <2>1 DEF BothEarly
  <2>3. Flight(o) = 0
    BY <1>7, <2>2 DEF Opening
  <2>4. Phase(o) = "recv_B" /\ Flight(s) = 1 /\ IsA(o, m)
    BY <1>0, <1>9, <2>2 DEF Opening
  <2>5. cur[s] = cur[o]
    BY <1>2, <2>1, <2>4, SameCall
  <2>6. Paired(s, "recv_seed", "recv_B")'
    BY <1>1, <1>6, <1>7, <2>4, <2>5 DEF Paired, SameSide
  <2>7. /\ Flight(s)' = 0 /\ Flight(o)' = 1 /\ Msg(o, 1)' = [kind |-> "B", n |-> N, v |-> v]
    BY <1>9, <2>3, <2>4
  <2>8. loc'[s].A = mulGenerator(loc[o].a) /\ loc'[s].comm = Commit(loc[o].seed)
    BY <1>5, <2>4 DEF IsA
  <2>9. v = [i \in 1 .. N |-> ChosenB(loc'[s].A, loc'[s].b[i], loc'[s].q[i])]
    BY <1>4, <1>5 DEF v, N
  <2>10. N = Call(s)'.size
    BY <1>6 DEF N
  <2>11. IsB(s, Msg(o, 1))'
    <3>1. Msg(o, 1)'.kind = "B" /\ Msg(o, 1)'.n = N /\ Msg(o, 1)'.v = v
      BY <2>7
    <3>2. v = [i \in 1 .. Call(s)'.size |-> ChosenB(loc'[s].A, loc'[s].b[i], loc'[s].q[i])]
      BY <2>9, <2>10, Zenon
    <3> QED
      BY <2>10, <3>1, <3>2, Zenon DEF IsB
  <2>12. SentB(s)'
    BY <1>5, <2>6, <2>7, <2>8, <2>11 DEF SentB
  <2> QED
    BY <2>12 DEF InSync
<1>11. ASSUME LeftOver(s) PROVE LeftOver(s)'
  BY <1>7, <1>9, <1>11, LeftRead
<1> QED
  BY <1>1, <1>9, <1>10, <1>11, TurnOK

\* The pads of a sender s and of its receiver agree.
LEMMA PadsAgree ==
  ASSUME NEW s \in Sides, LocalInv, SentB(Other(s)), NEW pads,
         pads = [i \in DOMAIN Msg(s, 1).v |->
                   SenderPads(loc[s].a, Msg(s, 1).v[i], i - 1, loc[s].seed)]
  PROVE  LET l == loc[Other(s)] IN
         \A i \in 1 .. Call(Other(s)).size :
           ReceiverPad(l.A, l.b[i], i - 1, loc[s].seed) = pads[i][Side(l.q[i])]
<1> DEFINE o == Other(s)
           l == loc[o]
           B == Msg(s, 1).v
<1>0. o \in Sides /\ Other(o) = s
  BY SideFacts
<1>1. /\ Phase(o) = "recv_seed" /\ Phase(s) = "recv_B" /\ l.A = mulGenerator(loc[s].a)
      /\ B = [i \in 1 .. Call(o).size |-> ChosenB(l.A, l.b[i], l.q[i])]
  BY <1>0 DEF SentB, Paired, IsB
<1>2. worker[o] = "recv_seed"
  BY <1>1 DEF Phase
<1>3. l.q \in [1 .. Call(o).size -> BOOLEAN] /\ l.b \in [1 .. Call(o).size -> ReceiverDraws]
  BY <1>0, <1>2 DEF LocalInv, ProcessOK, TaskOK
<1>4. loc[s].a \in 1 .. (Order - 1)
  BY <1>1, PhaseFacts, CurveAssumption
<1> SUFFICES ASSUME NEW i \in 1 .. Call(o).size
             PROVE  ReceiverPad(l.A, l.b[i], i - 1, loc[s].seed) = pads[i][Side(l.q[i])]
  OBVIOUS
<1>5. l.q[i] \in BOOLEAN /\ l.b[i] \in 1 .. (Order - 1)
  BY <1>3, CurveAssumption
<1>6. pads[i] = SenderPads(loc[s].a, ChosenB(l.A, l.b[i], l.q[i]), i - 1, loc[s].seed)
  BY <1>1
<1> DEFINE a == loc[s].a
           b == l.b[i]
           c == l.q[i]
           j == i - 1
           seed == loc[s].seed
<1>7. /\ a \in 1 .. (Order - 1) /\ b \in 1 .. (Order - 1) /\ c \in BOOLEAN
      /\ l.A = mulGenerator(a)
  BY <1>1, <1>4, <1>5
<1> HIDE DEF a, b, c, j, seed
<1>8. ReceiverPad(mulGenerator(a), b, j, seed)
        = SenderPads(a, ChosenB(mulGenerator(a), b, c), j, seed)[Side(c)]
  BY <1>7, PadsMatch
<1> QED
  BY <1>6, <1>7, <1>8 DEF a, b, c, j, seed

\* The elements that the sender reads answer its own for this call.
LEMMA RecvBWire ==
  ASSUME NEW s \in Sides, LocalInv, WireInv, RecvB(s)
  PROVE  WireInv'
<1> DEFINE o == Other(s)
           m == Msg(s, 1)
           pads == [i \in DOMAIN m.v |-> SenderPads(loc[s].a, m.v[i], i - 1, loc[s].seed)]
           seed == loc[s].seed
<1>0. o \in Sides /\ o # s /\ Other(o) = s
  BY SideFacts
<1>1. /\ UNCHANGED <<plan, choices, cur, open>> /\ Receive(s, "recv_B")
      /\ Say(s, "seed", 0, seed)
  BY DEF RecvB, ownerVars
<1>2. Head(net[s]) = m /\ worker[s] = "recv_B"
  BY <1>1, ReceiveFacts, FlightType DEF Tasks
<1>3. \/ /\ Call(s).api = "ot_send" /\ loc' = [loc EXCEPT ![s] = pads]
         /\ Goto(s, "recv_eq") /\ UNCHANGED fut
      \/ Call(s).api = "send_batch" /\ Settle(s, Value(pads))
  BY <1>2 DEF RecvB
<1>4. Phase(s) = "recv_B" /\ worker[s] \in Tasks
  BY <1>2 DEF Phase, Idle, Tasks
<1> HIDE DEF pads, seed
<1>5. /\ open[s] /\ Flight(s) \in Nat /\ Flight(s) >= 1 /\ Flight(s)' = Flight(s) - 1
      /\ Expects(s) = <<m.kind, m.n>>
      /\ \A i \in 1 .. (Flight(s) - 1) : Msg(s, i)' = Msg(s, i + 1)
      /\ Flight(o) = 0 => Flight(o)' = 1 /\ Msg(o, 1)' = [kind |-> "seed", n |-> 0, v |-> seed]
  BY <1>1, AnswerView DEF Tasks
<1>6. m.kind = "B"
  BY <1>2, <1>5 DEF Expects
<1>7. SameSide(o)
  <2>1. CASE Settle(s, Value(pads))
    BY <1>1, <1>4, <2>1, SettleView
  <2>2. CASE loc' = [loc EXCEPT ![s] = pads] /\ Goto(s, "recv_eq") /\ UNCHANGED fut
    <3>1. loc'[o] = loc[o]
      BY <1>0, <2>2 DEF LocalInv, Functions
    <3> QED
      BY <1>1, <1>4, <2>2, <3>1, GotoView DEF Tasks
  <2> QED
    BY <1>3, <2>1, <2>2
<1>8. ASSUME InSync PROVE InSync'
  <2>1. SentB(o)
    <3>1. ~BothEarly
      <4> SUFFICES ASSUME BothEarly PROVE FALSE
        OBVIOUS
      <4>1. Opening(o, 1)
        BY <1>0 DEF BothEarly
      <4> QED
        BY <1>0, <1>5, <1>6, <4>1 DEF Opening, IsA
    <3> QED
      BY <1>0, <1>4, <1>5, <1>8, <3>1, SyncCases DEF Lags
  <2>2. /\ cur[o] = cur[s] /\ Phase(o) = "recv_seed" /\ Flight(o) = 0 /\ Flight(s) = 1
        /\ loc[o].comm = Commit(seed)
    BY <1>0, <2>1 DEF SentB, Paired, seed
  <2>3. /\ Phase(o)' = "recv_seed" /\ cur'[o] = cur[o] /\ loc'[o] = loc[o] /\ Call(o)' = Call(o)
    BY <1>1, <1>7, <2>2 DEF SameSide, Call, Script
  <2>4. /\ Flight(s)' = 0 /\ Flight(o)' = 1 /\ Msg(o, 1)' = [kind |-> "seed", n |-> 0, v |-> seed]
    BY <1>5, <2>2
  <2>5. \A i \in 1 .. Call(o).size :
          ReceiverPad(loc[o].A, loc[o].b[i], i - 1, seed) = pads[i][Side(loc[o].q[i])]
    BY <1>0, <2>1, PadsAgree DEF pads, seed
  <2>6. /\ Msg(o, 1)'.kind = "seed" /\ Msg(o, 1)'.n = 0 /\ Commit(Msg(o, 1)'.v) = loc'[o].comm
        /\ \A i \in 1 .. Call(o)'.size :
             ReceiverPad(loc'[o].A, loc'[o].b[i], i - 1, Msg(o, 1)'.v)
               = pads[i][Side(loc'[o].q[i])]
    BY <2>2, <2>3, <2>4, <2>5
  <2>7. ASSUME loc' = [loc EXCEPT ![s] = pads], Goto(s, "recv_eq"), UNCHANGED fut
        PROVE  InSync'
    <3>1. loc'[s] = pads /\ loc'[o] = loc[o]
      BY <1>0, <2>7 DEF LocalInv, Functions
    <3>2. worker'[s] = "recv_eq"
      BY <1>1, <1>4, <2>7, <3>1, GotoView DEF Tasks
    <3>3. Phase(s)' = "recv_eq"
      BY <3>2 DEF Phase, Idle
    <3>4. Paired(o, "recv_seed", "recv_eq")'
      BY <1>0, <1>1, <2>2, <2>3, <3>3 DEF Paired
    <3>5. IsSeed(o, Msg(o, 1), loc[s])'
      BY <2>6, <3>1 DEF IsSeed
    <3>6. SentSeed(o)'
      BY <1>0, <2>4, <3>4, <3>5 DEF SentSeed
    <3> QED
      BY <1>0, <3>6 DEF InSync
  <2>8. ASSUME Call(s).api = "send_batch", Settle(s, Value(pads))
        PROVE  InSync'
    <3>1. /\ Phase(s)' = "idle" /\ Next1(s)' = cur[s] + 1 /\ fut'[s][cur[s]] = Value(pads)
      BY <1>1, <1>4, <2>8, SettleView
    <3>2. Call(o).api = "recv_batch"
      BY <1>4, <2>2, <2>8, PairFacts DEF Partner
    <3>3. Opening(s, 2)'
      BY <2>4, <3>1 DEF Opening
    <3>4. fut'[s][cur'[o]] = Value(pads) /\ Value(pads).is = "value" /\ Value(pads).v = pads
      BY <2>2, <2>3, <3>1 DEF Value
    <3>5. LagsSeed(o)'
      BY <1>0, <2>3, <2>6, <3>2, <3>3, <3>4 DEF LagsSeed, IsSeed
    <3> QED
      BY <1>1, <1>4, <1>7, <2>2, <2>4, <3>1, <3>5, LagBegins
  <2> QED
    BY <1>3, <2>7, <2>8
<1>9. ASSUME LeftOver(s) PROVE LeftOver(s)'
  BY <1>4, <1>5, <1>9, LeftRead
<1> QED
  BY <1>1, <1>5, <1>8, <1>9, TurnOK

\* The seed that the receiver reads is the sender's for this call.
LEMMA RecvSeedWire ==
  ASSUME NEW s \in Sides, LocalInv, WireInv, RecvSeed(s)
  PROVE  WireInv'
<1> DEFINE o == Other(s)
           m == Msg(s, 1)
           l == loc[s]
           r_q == [i \in DOMAIN l.q |-> ReceiverPad(l.A, l.b[i], i - 1, m.v)]
           N == Call(s).n
           eq == [i \in 1 .. N |-> choices[s][cur[s]][i] = l.q[i]]
<1>0. o \in Sides /\ o # s /\ Other(o) = s
  BY SideFacts
<1>1. UNCHANGED <<plan, choices, cur, open>> /\ Receive(s, "recv_seed")
  BY DEF RecvSeed, ownerVars
<1>2. Head(net[s]) = m /\ worker[s] = "recv_seed"
  BY <1>1, ReceiveFacts, FlightType DEF Tasks
<1>3. \/ /\ Call(s).api = "ot_receive" /\ Say(s, "eq", N, eq)
         /\ loc' = [loc EXCEPT ![s] = [r_q |-> r_q]] /\ Goto(s, "flush") /\ UNCHANGED fut
      \/ Call(s).api = "recv_batch" /\ Settle(s, Value(r_q)) /\ UNCHANGED out
  BY <1>2 DEF RecvSeed
<1>4. Phase(s) = "recv_seed" /\ worker[s] \in Tasks
  BY <1>2 DEF Phase, Idle, Tasks
<1>5. /\ l.q \in [1 .. Call(s).size -> BOOLEAN]
  BY <1>2 DEF LocalInv, ProcessOK, TaskOK
<1>6. CASE Call(s).api = "ot_receive"
  <2>1. /\ Say(s, "eq", N, eq) /\ Goto(s, "flush") /\ UNCHANGED fut
        /\ loc' = [loc EXCEPT ![s] = [r_q |-> r_q]]
    BY <1>3, <1>6
  <2>2. loc'[s] = [r_q |-> r_q] /\ loc'[o] = loc[o]
    BY <1>0, <2>1 DEF LocalInv, Functions
  <2>3. worker'[s] = "flush" /\ SameSide(o) /\ Call(s)' = Call(s)
    BY <1>1, <1>4, <2>1, <2>2, GotoView DEF Tasks
  <2>4. Phase(s)' = "recv_masked"
    BY <1>6, <2>3 DEF Phase, Idle
  <2>5. Call(s).size = N /\ choices[s][cur[s]] \in [1 .. N -> BOOLEAN]
    <3>1. /\ IsCall(Call(s)) /\ ~Mute(Call(s)) /\ choices[s][cur[s]] \in ChoicesOf(Call(s))
      BY <1>4, PhaseFacts
    <3> QED
      BY <1>6, <3>1 DEF Mute, Rejected, ChoicesOf, Receivers
  <2>6. \A i \in 1 .. N : /\ eq[i] \in BOOLEAN /\ (eq[i] = choices[s][cur[s]][i]) = l.q[i]
                          /\ r_q[i] = ReceiverPad(l.A, l.b[i], i - 1, m.v)
    BY <1>5, <2>5
  <2> HIDE DEF eq, N, r_q
  <2>7. /\ open[s] /\ Flight(s) \in Nat /\ Flight(s) >= 1 /\ Flight(s)' = Flight(s) - 1
        /\ \A i \in 1 .. (Flight(s) - 1) : Msg(s, i)' = Msg(s, i + 1)
        /\ Flight(o) = 0 => Flight(o)' = 1 /\ Msg(o, 1)' = [kind |-> "eq", n |-> N, v |-> eq]
    BY <1>1, <2>1, AnswerView DEF Tasks
  <2>8. ASSUME InSync PROVE InSync'
    <3>1. SentSeed(s)
      <4>1. ~SentB(s)
        BY <2>7 DEF SentB
      <4>2. ~Lags(s)
        BY <1>4, <1>6 DEF Lags, LagsSeed, LagsMasked, LagsFlush
      <4> QED
        BY <1>4, <2>8, <4>1, <4>2, SyncCases
    <3>2. /\ cur[s] = cur[o] /\ Phase(o) = "recv_eq" /\ Flight(s) = 1 /\ Flight(o) = 0
          /\ IsSeed(s, m, loc[o])
      BY <3>1 DEF SentSeed, Paired
    <3>3. /\ Flight(s)' = 0 /\ Flight(o)' = 1 /\ Msg(o, 1)' = [kind |-> "eq", n |-> N, v |-> eq]
      BY <2>7, <3>2
    <3>4. Paired(s, "recv_masked", "recv_eq")'
      BY <1>1, <2>3, <2>4, <3>2 DEF Paired, SameSide
    <3>5. \A i \in 1 .. N : r_q[i] = loc[o][i][Side(l.q[i])]
      BY <2>5, <2>6, <3>2 DEF IsSeed
    <3>6. \A i \in 1 .. N : /\ eq[i] \in BOOLEAN
                            /\ r_q[i] = loc[o][i][Side(eq[i] = choices[s][cur[s]][i])]
      BY <2>6, <3>5
    <3>7. /\ Msg(o, 1)'.kind = "eq" /\ Msg(o, 1)'.n = N /\ Msg(o, 1)'.v = eq
          /\ Call(s)'.n = N /\ loc'[s].r_q = r_q /\ loc'[o] = loc[o]
          /\ choices'[s][cur'[s]] = choices[s][cur[s]]
      BY <1>1, <2>2, <2>3, <3>3 DEF N
    <3>8. IsEq(s, Msg(o, 1), loc[o])'
      BY <3>6, <3>7 DEF IsEq
    <3>9. SentEq(s)'
      BY <3>3, <3>4, <3>8 DEF SentEq
    <3> QED
      BY <3>9 DEF InSync
  <2>9. ASSUME LeftOver(s) PROVE LeftOver(s)'
    BY <1>4, <1>6, <2>7, <2>9, LeftRead
  <2> QED
    BY <1>1, <2>7, <2>8, <2>9, TurnOK
<1>7. CASE Call(s).api = "recv_batch"
  <2>1. Settle(s, Value(r_q)) /\ out' = out
    BY <1>3, <1>7
  <2>2. Phase(s)' = "idle" /\ Next1(s)' = cur[s] + 1 /\ SameSide(o)
    BY <1>1, <1>4, <2>1, SettleView
  <2>3. /\ open[s] /\ Flight(s) \in Nat /\ Flight(s) >= 1 /\ Flight(s)' = Flight(s) - 1
        /\ \A i \in 1 .. (Flight(s) - 1) : Msg(s, i)' = Msg(s, i + 1)
        /\ net'[o] = net[o]
    BY <1>1, <2>1, ReadView DEF Tasks
  <2>4. SameFlight(o)
    BY <1>0, <2>1, <2>3, FlightStays
  <2>5. ASSUME InSync PROVE InSync'
    <3>1. Lags(s)
      <4>1. ~SentB(s)
        BY <2>3 DEF SentB
      <4>2. ~SentSeed(s)
        <5> SUFFICES ASSUME SentSeed(s) PROVE FALSE
          OBVIOUS
        <5>1. cur[s] = cur[o] /\ Phase(o) = "recv_eq"
          BY DEF SentSeed, Paired
        <5>2. Call(s).api = Partner(Call(o).api) /\ Call(o).api = "ot_send"
          BY <1>0, <1>4, <5>1, PairFacts, PhaseFacts
        <5> QED
          BY <1>7, <5>2 DEF Partner
      <4> QED
        BY <1>4, <2>5, <4>1, <4>2, SyncCases
    <3>2. Opening(o, 2) /\ Flight(o) = 0
      BY <1>4, <3>1 DEF Lags, LagsSeed, LagsMasked, LagsFlush
    <3>3. Opening(o, 1)' /\ Flight(o)' = 0
      BY <2>2, <2>3, <2>4, <3>2, OpeningMoves DEF SameFlight
    <3> QED
      BY <1>1, <2>2, <3>1, <3>3, LagEnds
  <2>6. ASSUME LeftOver(s) PROVE LeftOver(s)'
    BY <2>2, <2>3, <2>6, LeftRead
  <2> QED
    BY <1>1, <2>3, <2>5, <2>6, TurnOK
<1> QED
  BY <1>3, <1>6, <1>7

\* A pad that is added twice is gone.
LEMMA XorCancels ==
  ASSUME NEW x, NEW y
  PROVE  Xor(Xor(x, y), y) = x
BY DEF Xor

\* Whatever the two sides' choices are, the receiver's pad is the one with which
\* ot_send has masked the message that the receiver chose.
LEMMA MaskMatches ==
  ASSUME NEW msg, NEW r, NEW eq \in BOOLEAN, NEW c \in BOOLEAN
  PROVE  Xor(MaskPair(msg, r, eq)[Side(c)], r[Side(eq = c)]) = msg[Side(c)]
<1>1. CASE eq = TRUE
  <2>1. MaskPair(msg, r, eq)[Side(c)] = Xor(msg[Side(c)], r[Side(eq = c)])
    BY <1>1 DEF MaskPair, Side
  <2> QED
    BY <2>1, XorCancels
<1>2. CASE eq = FALSE
  <2>1. MaskPair(msg, r, eq)[Side(c)] = Xor(msg[Side(c)], r[Side(eq = c)])
    BY <1>2 DEF MaskPair, Side
  <2> QED
    BY <2>1, XorCancels
<1> QED
  BY <1>1, <1>2

\* The corrections that ot_send reads are the receiver's for this call.
LEMMA RecvEqWire ==
  ASSUME NEW s \in Sides, LocalInv, WireInv, RecvEq(s)
  PROVE  WireInv'
<1> DEFINE o == Other(s)
           m == Msg(s, 1)
           N == Call(s).n
           v == [i \in 1 .. N |-> MaskPair(Call(s).msgs[i], loc[s][i], m.v[i])]
<1>0. o \in Sides /\ o # s /\ Other(o) = s
  BY SideFacts
<1>1. /\ UNCHANGED <<plan, choices, cur, loc, fut, open>> /\ Receive(s, "recv_eq")
      /\ Goto(s, "flush")
  BY DEF RecvEq, ownerVars, taskVars
<1>2. Head(net[s]) = m /\ worker[s] = "recv_eq"
  BY <1>1, ReceiveFacts, FlightType DEF Tasks
<1>3. Say(s, "masked", N, v)
  BY <1>2 DEF RecvEq
<1>4. Phase(s) = "recv_eq" /\ worker[s] \in Tasks
  BY <1>2 DEF Phase, Idle, Tasks
<1>5. worker'[s] = "flush" /\ SameSide(o) /\ Call(s)' = Call(s)
  BY <1>1, <1>4, GotoView DEF Tasks
<1>6. Phase(s)' = "flush"
  <2>1. Call(s).api = "ot_send"
    BY <1>4, PhaseFacts
  <2> QED
    BY <1>5, <2>1 DEF Phase, Idle
<1>7. \A i \in 1 .. N : v[i] = MaskPair(Call(s).msgs[i], loc[s][i], m.v[i])
  OBVIOUS
<1> HIDE DEF N, v
<1>8. /\ open[s] /\ Flight(s) \in Nat /\ Flight(s) >= 1 /\ Flight(s)' = Flight(s) - 1
      /\ \A i \in 1 .. (Flight(s) - 1) : Msg(s, i)' = Msg(s, i + 1)
      /\ Flight(o) = 0 => Flight(o)' = 1 /\ Msg(o, 1)' = [kind |-> "masked", n |-> N, v |-> v]
  BY <1>1, <1>3, AnswerView DEF Tasks
<1>9. ASSUME InSync PROVE InSync'
  <2>1. SentEq(o)
    <3>1. ~SentSeed(o)
      BY <1>0, <1>8 DEF SentSeed
    <3> QED
      BY <1>4, <1>9, <3>1, SyncCases
  <2>2. /\ cur[o] = cur[s] /\ Phase(o) = "recv_masked" /\ Flight(o) = 0 /\ Flight(s) = 1
        /\ IsEq(o, m, loc[s])
    BY <1>0, <2>1 DEF SentEq, Paired
  <2>3. /\ Flight(s)' = 0 /\ Flight(o)' = 1 /\ Msg(o, 1)' = [kind |-> "masked", n |-> N, v |-> v]
    BY <1>8, <2>2
  <2>4. Paired(o, "recv_masked", "flush")'
    BY <1>0, <1>1, <1>5, <1>6, <2>2 DEF Paired, SameSide
  <2>5. Call(o).n = N /\ choices[o][cur[o]] \in [1 .. N -> BOOLEAN]
    <3>1. Call(o).api = "ot_receive" /\ choices[o][cur[o]] \in ChoicesOf(Call(o))
      BY <1>0, <2>2, PhaseFacts
    <3>2. Call(o).n = N /\ Call(o).n = Call(o).size
      BY <1>0, <1>4, <2>2, <3>1, PairFacts DEF N
    <3> QED
      BY <3>1, <3>2 DEF ChoicesOf, Receivers
  <2> DEFINE ch == choices[o][cur[o]]
             rq == loc[o].r_q
             msgs == Call(s).msgs
  <2>6. \A i \in 1 .. N : m.v[i] \in BOOLEAN /\ rq[i] = loc[s][i][Side(m.v[i] = ch[i])]
    BY <2>2, <2>5 DEF IsEq
  <2>7. \A i \in 1 .. N : ch[i] \in BOOLEAN
    BY <2>5
  <2>8. msgs = Script[Other(o)][cur[o]].msgs
    BY <1>0, <2>2 DEF Call
  <2> HIDE DEF ch, rq, msgs
  <2>9. ASSUME NEW i \in 1 .. N
        PROVE  Xor(v[i][Side(ch[i])], rq[i]) = msgs[i][Side(ch[i])]
    <3>1. v[i] = MaskPair(msgs[i], loc[s][i], m.v[i])
      BY <1>7 DEF msgs
    <3> DEFINE e == m.v[i]
               c == ch[i]
    <3>2. e \in BOOLEAN /\ c \in BOOLEAN /\ rq[i] = loc[s][i][Side(e = c)]
          /\ v[i] = MaskPair(msgs[i], loc[s][i], e)
      BY <2>6, <2>7, <3>1
    <3> HIDE DEF e
    <3>3. Xor(MaskPair(msgs[i], loc[s][i], e)[Side(c)], loc[s][i][Side(e = c)])
            = msgs[i][Side(c)]
      BY <3>2, MaskMatches
    <3> QED
      BY <3>2, <3>3
  <2>10. /\ Msg(o, 1)'.kind = "masked" /\ Msg(o, 1)'.n = N /\ Msg(o, 1)'.v = v
         /\ Call(o)'.n = N /\ loc'[o].r_q = rq /\ choices'[o][cur'[o]] = ch
         /\ Script'[Other(o)][cur'[o]].msgs = msgs
    BY <1>1, <2>3, <2>5, <2>8 DEF Call, Script, rq, ch
  <2>11. IsMasked(o, Msg(o, 1))'
    BY <2>9, <2>10 DEF IsMasked
  <2>12. SentMasked(o)'
    BY <1>0, <2>3, <2>4, <2>11 DEF SentMasked
  <2> QED
    BY <1>0, <2>12 DEF InSync
<1>10. ASSUME LeftOver(s) PROVE LeftOver(s)'
  BY <1>4, <1>8, <1>10, LeftRead
<1> QED
  BY <1>1, <1>8, <1>9, <1>10, TurnOK

\* The sender has flushed the masked messages.
LEMMA FlushedWire ==
  ASSUME NEW s \in Sides, LocalInv, WireInv, Flushed(s), Call(s).api = "ot_send"
  PROVE  WireInv'
<1> DEFINE o == Other(s)
<1>0. o \in Sides /\ o # s /\ Other(o) = s
  BY SideFacts
<1>1. /\ UNCHANGED <<plan, choices, cur, out, net, open>> /\ worker[s] = "flush" /\ open[s]
      /\ Settle(s, Value(Call(s).msgs))
  BY DEF Flushed, ownerVars, sockVars
<1>2. Phase(s) = "flush" /\ worker[s] \in Tasks
  BY <1>1 DEF Phase, Idle, Tasks
<1>3. Phase(s)' = "idle" /\ Next1(s)' = cur[s] + 1 /\ SameSide(o)
  BY <1>1, <1>2, SettleView
<1>4. SameFlight(s) /\ SameFlight(o)
  BY <1>0, <1>1, FlightStays
<1>5. ASSUME SentMasked(o) PROVE InSync'
  <2>1. /\ cur[o] = cur[s] /\ Phase(o) = "recv_masked" /\ Flight(o) = 1 /\ Flight(s) = 0
        /\ IsMasked(o, Msg(o, 1))
    BY <1>0, <1>5 DEF SentMasked, Paired
  <2>2. Flight(s)' = 0 /\ Flight(o)' = 1 /\ Msg(o, 1)' = Msg(o, 1)
    BY <1>4, <2>1 DEF SameFlight
  <2>3. /\ Phase(o)' = "recv_masked" /\ loc'[o] = loc[o] /\ Call(o)' = Call(o)
    BY <1>1, <1>3, <2>1 DEF SameSide, Call, Script
  <2>4. IsMasked(o, Msg(o, 1))'
    BY <1>1, <2>1, <2>2, <2>3 DEF IsMasked, Script
  <2>5. Opening(s, 2)'
    BY <1>3, <2>2 DEF Opening
  <2>6. LagsMasked(o)'
    BY <1>0, <2>3, <2>4, <2>5 DEF LagsMasked
  <2> QED
    BY <1>1, <1>2, <1>3, <2>1, <2>2, <2>6, LagBegins
<1>6. ASSUME Lags(s) PROVE InSync'
  <2>1. Opening(o, 1) /\ Flight(o) = 0
    BY <1>2, <1>6 DEF Lags, LagsSeed, LagsMasked, LagsFlush
  <2>2. Opening(o, 1)'
    BY <1>0, <1>3, <1>4, <2>1, OpeningStays DEF Opening
  <2>3. Flight(o)' = 0
    BY <1>4, <2>1 DEF SameFlight
  <2> QED
    BY <1>1, <1>3, <1>6, <2>2, <2>3, LagEnds
<1>7. ASSUME InSync PROVE InSync'
  BY <1>2, <1>5, <1>6, <1>7, SyncCases
<1>8. ASSUME LeftOver(s) PROVE LeftOver(s)'
  <2>1. Flight(s) = 0 \/ (Flight(s) = 1 /\ Msg(s, 1).kind = "A")
    BY <1>2, <1>8 DEF LeftOver, FirstLeft
  <2>2. Flight(s)' = 0 \/ (Flight(s)' = 1 /\ Msg(s, 1)'.kind = "A")
    BY <1>4, <2>1 DEF SameFlight
  <2> QED
    BY <1>3, <2>2 DEF LeftOver, FirstLeft
<1> QED
  BY <1>1, <1>7, <1>8, TurnOK

\* The masked messages that the receiver reads end the call.
LEMMA RecvMaskedWire ==
  ASSUME NEW s \in Sides, LocalInv, WireInv, RecvMasked(s)
  PROVE  WireInv'
<1> DEFINE o == Other(s)
<1>0. o \in Sides /\ o # s /\ Other(o) = s
  BY SideFacts
<1>1. /\ UNCHANGED <<plan, choices, cur, out, open>> /\ Receive(s, "recv_masked")
      /\ \E v : Settle(s, v)
  BY DEF RecvMasked, ownerVars
<1>2. /\ worker[s] = "recv_masked" /\ open[s] /\ Flight(s) \in Nat /\ Flight(s) >= 1
      /\ Flight(s)' = Flight(s) - 1 /\ net'[o] = net[o]
      /\ \A i \in 1 .. (Flight(s) - 1) : Msg(s, i)' = Msg(s, i + 1)
  BY <1>1, ReadView DEF Tasks
<1>3. Phase(s) = "recv_masked" /\ worker[s] \in Tasks
  BY <1>2 DEF Phase, Idle, Tasks
<1>4. Phase(s)' = "idle" /\ Next1(s)' = cur[s] + 1 /\ SameSide(o)
  BY <1>1, <1>3, SettleView
<1>5. SameFlight(o)
  BY <1>0, <1>1, <1>2, FlightStays
<1>6. ASSUME SentMasked(s) PROVE InSync'
  <2>1. cur[o] = cur[s] /\ Phase(o) = "flush" /\ Flight(s) = 1 /\ Flight(o) = 0
    BY <1>6 DEF SentMasked, Paired
  <2>2. Flight(s)' = 0 /\ Flight(o)' = 0 /\ Phase(o)' = "flush"
    BY <1>2, <1>4, <1>5, <2>1 DEF SameFlight, SameSide
  <2>3. LagsFlush(o)'
    BY <1>0, <1>4, <2>2 DEF LagsFlush, Opening
  <2> QED
    BY <1>1, <1>3, <1>4, <2>1, <2>2, <2>3, LagBegins
<1>7. ASSUME Lags(s) PROVE InSync'
  <2>1. Opening(o, 2) /\ Flight(o) = 0
    BY <1>3, <1>7 DEF Lags, LagsSeed, LagsMasked, LagsFlush
  <2>2. Opening(o, 1)' /\ Flight(o)' = 0
    BY <1>2, <1>4, <1>5, <2>1, OpeningMoves DEF SameFlight
  <2> QED
    BY <1>1, <1>4, <1>7, <2>2, LagEnds
<1>8. ASSUME InSync PROVE InSync'
  <2>1. ~SentEq(s)
    BY <1>2 DEF SentEq
  <2> QED
    BY <1>3, <1>6, <1>7, <1>8, <2>1, SyncCases
<1>9. ASSUME LeftOver(s) PROVE LeftOver(s)'
  BY <1>2, <1>4, <1>9, LeftRead
<1> QED
  BY <1>1, <1>2, <1>8, <1>9, TurnOK

-----------------------------------------------------------------------------
(* What ot_receive delivers.                                               *)

\* The futures that get a value are right.
LEMMA ChosenStep ==
  ASSUME NEW s \in Sides, plan' = plan, ChosenOK(s),
         \A k \in 1 .. Len(fut'[s]) : fut'[s][k].is = "value" =>
           \/ /\ k \in 1 .. Len(fut[s]) /\ fut'[s][k] = fut[s][k]
              /\ choices'[s][k] = choices[s][k]
           \/ Script[s][k].api # "ot_receive"
           \/ fut'[s][k].v = Pick(Script[Other(s)][k].msgs, choices'[s][k])
  PROVE  ChosenOK(s)'
<1>1. Script' = Script
  BY DEF Script
<1> SUFFICES ASSUME NEW k \in 1 .. Len(fut'[s]), fut'[s][k].is = "value",
                    Script[s][k].api = "ot_receive"
             PROVE  fut'[s][k].v = Pick(Script[Other(s)][k].msgs, choices'[s][k])
  BY <1>1 DEF ChosenOK, HasValue, Pick
<1>2. CASE /\ k \in 1 .. Len(fut[s]) /\ fut'[s][k] = fut[s][k]
           /\ choices'[s][k] = choices[s][k]
  <2>1. HasValue(s, k)
    BY <1>2 DEF HasValue
  <2> QED
    BY <1>2, <2>1 DEF ChosenOK
<1> QED
  BY <1>2

\* Settling one future with the right value leaves all futures right.
LEMMA ChosenSettle ==
  ASSUME NEW s \in Sides, LocalInv, \A x \in Sides : ChosenOK(x), worker[s] \in Tasks,
         NEW v, Settle(s, v), UNCHANGED <<plan, choices, cur>>,
         v.is = "value" /\ Call(s).api = "ot_receive" =>
           v.v = Pick(Script[Other(s)][cur[s]].msgs, choices[s][cur[s]])
  PROVE  \A x \in Sides : ChosenOK(x)'
<1> DEFINE o == Other(s)
<1>0. o \in Sides /\ o # s /\ \A x \in Sides : x = s \/ x = o
  BY SideFacts
<1>1. /\ fut'[s][cur[s]] = v /\ Len(fut'[s]) = Len(fut[s]) /\ fut'[o] = fut[o]
      /\ \A k \in 1 .. Len(fut[s]) : k # cur[s] => fut'[s][k] = fut[s][k]
  BY SettleView
<1>2. ChosenOK(o)'
  BY <1>0, <1>1, ChosenStep
<1>3. ChosenOK(s)'
  BY <1>1, ChosenStep DEF Call
<1> QED
  BY <1>0, <1>2, <1>3

\* Nothing is chosen from no messages.
LEMMA PickNone ==
  ASSUME NEW pairs, NEW q, DOMAIN q = 1 .. 0
  PROVE  Pick(pairs, q) = <<>>
<1> DEFINE p == Pick(pairs, q)
<1>1. DOMAIN p = 1 .. 0 /\ p = [i \in 1 .. 0 |-> p[i]]
  BY DEF Pick
<1> HIDE DEF p
<1>2. p \in Seq({})
  BY <1>1
<1>3. Len(p) = 0
  BY <1>1, <1>2
<1>4. p = <<>>
  BY <1>2, <1>3, EmptySeq
<1> QED
  BY <1>4 DEF p

\* Whatever step is taken, every settled future holds what was chosen.
LEMMA NextChosen ==
  ASSUME LocalInv, WireInv, \A x \in Sides : ChosenOK(x), NEW s \in Sides,
         OwnerStep(s) \/ WorkerStep(s) \/ Write(s) \/ SpuriousWakeup(s) \/ Kill(s)
  PROVE  \A x \in Sides : ChosenOK(x)'
<1> DEFINE o == Other(s)
<1>0. o \in Sides /\ o # s /\ \A x \in Sides : x = s \/ x = o
  BY SideFacts
<1>1. ASSUME UNCHANGED <<plan, choices, fut>> PROVE \A x \in Sides : ChosenOK(x)'
  BY <1>1, ChosenStep
<1>2. CASE Submit(s)
  <2>1. PICK ch : choices' = [choices EXCEPT ![s] = Append(@, ch)]
    BY <1>2 DEF Submit
  <2>2. fut' = [fut EXCEPT ![s] = Append(@, Pending)] /\ plan' = plan
    BY <1>2 DEF Submit
  <2>3. /\ choices'[s] = Append(choices[s], ch) /\ fut'[s] = Append(fut[s], Pending)
        /\ choices'[o] = choices[o] /\ fut'[o] = fut[o]
    BY <1>0, <2>1, <2>2 DEF LocalInv, Functions
  <2>4. IsSeq(fut[s]) /\ IsSeq(choices[s]) /\ Len(choices[s]) = Len(fut[s]) /\ Len(fut[s]) \in Nat
    BY DEF LocalInv, ProcessOK, QueueOK, IsSeq
  <2>5. /\ \A k \in 1 .. Len(fut[s]) : fut'[s][k] = fut[s][k] /\ choices'[s][k] = choices[s][k]
        /\ Len(fut'[s]) = Len(fut[s]) + 1 /\ fut'[s][Len(fut[s]) + 1] = Pending
    BY <2>3, <2>4, AppendIsSeq
  <2>6. Pending.is # "value"
    BY DEF Pending
  <2>7. \A k \in 1 .. Len(fut'[s]) : fut'[s][k].is = "value" => k \in 1 .. Len(fut[s])
    BY <2>4, <2>5, <2>6
  <2>8. ChosenOK(s)'
    BY <2>2, <2>5, <2>7, ChosenStep
  <2>9. ChosenOK(o)'
    BY <1>0, <2>2, <2>3, ChosenStep
  <2> QED
    BY <1>0, <2>8, <2>9
<1>3. CASE BeginTrivial(s)
  <2>1. worker[s] \in Tasks /\ UNCHANGED <<plan, choices, cur>>
    BY <1>3 DEF BeginTrivial, ownerVars, Tasks
  <2>2. CASE Rejected(Call(s)) /\ Settle(s, Thrown)
    BY <2>1, <2>2, ChosenSettle DEF Thrown
  <2>3. CASE Trivial(Call(s)) /\ Settle(s, Value(<<>>))
    <3>1. choices[s][cur[s]] \in ChoicesOf(Call(s)) /\ Call(s).size = 0
      BY <2>1, <2>3, CallFacts DEF Trivial
    <3>2. ASSUME Call(s).api = "ot_receive"
          PROVE  Pick(Script[o][cur[s]].msgs, choices[s][cur[s]]) = <<>>
      <4>1. DOMAIN choices[s][cur[s]] = 1 .. 0
        BY <3>1, <3>2 DEF ChoicesOf, Receivers
      <4> QED
        BY <4>1, PickNone
    <3>3. Value(<<>>).v = <<>>
      BY DEF Value
    <3> QED
      BY <2>1, <2>3, <3>2, <3>3, ChosenSettle
  <2> QED
    BY <1>3, <2>2, <2>3 DEF BeginTrivial
<1>4. CASE RecvB(s)
  <2>1. /\ worker[s] = "recv_B" /\ UNCHANGED <<plan, choices, cur>> /\ worker[s] \in Tasks
        /\ fut' = fut \/ (Call(s).api = "send_batch" /\ \E v : Settle(s, v))
    BY <1>4 DEF RecvB, Receive, ownerVars, Tasks
  <2> QED
    BY <1>1, <2>1, ChosenSettle
<1>5. CASE RecvSeed(s)
  <2>1. /\ worker[s] = "recv_seed" /\ UNCHANGED <<plan, choices, cur>> /\ worker[s] \in Tasks
        /\ fut' = fut \/ (Call(s).api = "recv_batch" /\ \E v : Settle(s, v))
    BY <1>5 DEF RecvSeed, Receive, ownerVars, Tasks
  <2> QED
    BY <1>1, <2>1, ChosenSettle
<1>6. CASE Flushed(s)
  <2>1. /\ worker[s] = "flush" /\ UNCHANGED <<plan, choices, cur>> /\ worker[s] \in Tasks
        /\ fut' = fut \/ (Call(s).api = "ot_send" /\ \E v : Settle(s, v))
    BY <1>6 DEF Flushed, ownerVars, Tasks
  <2> QED
    BY <1>1, <2>1, ChosenSettle
<1>7. CASE TaskFails(s)
  <2>1. /\ UNCHANGED <<plan, choices, cur>> /\ worker[s] \in Tasks /\ Settle(s, Thrown)
    BY <1>7 DEF TaskFails, Waits, ownerVars, Tasks
  <2> QED
    BY <2>1, ChosenSettle DEF Thrown
<1>8. CASE RecvMasked(s)
  <2> DEFINE m == Msg(s, 1)
             ch == choices[s][cur[s]]
             N == Call(s).n
             v == [i \in 1 .. N |-> Xor(Pick(m.v, ch)[i], loc[s].r_q[i])]
             msgs == Script[o][cur[s]].msgs
  <2>1. UNCHANGED <<plan, choices, cur>> /\ Receive(s, "recv_masked")
    BY <1>8 DEF RecvMasked, ownerVars
  <2>2. Head(net[s]) = m /\ worker[s] = "recv_masked" /\ open[s] /\ Flight(s) >= 1
        /\ worker[s] \in Tasks /\ Flight(s) \in Nat
    BY <2>1, ReceiveFacts, FlightType DEF Tasks
  <2>3. Settle(s, Value(v))
    BY <1>8, <2>2 DEF RecvMasked
  <2>4. Phase(s) = "recv_masked"
    BY <2>2 DEF Phase, Idle
  <2>5. IsMasked(s, m)
    BY <2>2, <2>4, WireLeft DEF LeftOver, FirstLeft
  <2>6. ch \in [1 .. N -> BOOLEAN]
    <3>1. /\ IsCall(Call(s)) /\ ~Mute(Call(s)) /\ ch \in ChoicesOf(Call(s))
          /\ Call(s).api = "ot_receive"
      BY <2>4, PhaseFacts
    <3> QED
      BY <3>1 DEF Mute, Rejected, ChoicesOf, Receivers
  <2>7. \A i \in 1 .. N : Xor(m.v[i][Side(ch[i])], loc[s].r_q[i]) = msgs[i][Side(ch[i])]
    BY <2>5 DEF IsMasked
  <2>8. /\ DOMAIN ch = 1 .. N
        /\ Pick(m.v, ch) = [i \in 1 .. N |-> m.v[i][Side(ch[i])]]
        /\ Pick(msgs, ch) = [i \in 1 .. N |-> msgs[i][Side(ch[i])]]
    BY <2>6 DEF Pick, Side
  <2>9. v = Pick(msgs, ch)
    BY <2>7, <2>8
  <2>10. Value(v).v = v
    BY DEF Value
  <2> HIDE DEF v
  <2> QED
    BY <2>1, <2>2, <2>3, <2>9, <2>10, ChosenSettle
<1>9. CASE \/ AwaitFuture(s) \/ Destroy(s) \/ Join(s) \/ FlushAndClose(s) \/ Kill(s) \/ Write(s)
           \/ SpuriousWakeup(s) \/ TakeTask(s) \/ BeginSender(s) \/ BeginReceiver(s)
           \/ RecvA(s) \/ RecvEq(s)
  <2>1. UNCHANGED <<plan, choices, fut>>
    BY <1>9 DEF AwaitFuture, Destroy, Join, FlushAndClose, Kill, Write, SpuriousWakeup, TakeTask,
                BeginSender, BeginReceiver, RecvA, RecvEq, ownerVars
  <2> QED
    BY <1>1, <2>1
<1> QED
  BY <1>2, <1>3, <1>4, <1>5, <1>6, <1>7, <1>8, <1>9 DEF OwnerStep, WorkerStep, TaskStep

-----------------------------------------------------------------------------
\* Both managers start with nothing on the wire.
LEMMA InitOT == Init => OTInv
<1> SUFFICES ASSUME Init PROVE OTInv
  OBVIOUS
<1>1. LocalInv
  BY InitLocal
<1>2. ASSUME NEW s \in Sides
      PROVE  /\ Phase(s) = "idle" /\ Next1(s) = 1 /\ Flight(s) = 0 /\ ChosenOK(s)
             /\ Len(Script[s]) \in Nat
  <2>1. worker[s] = "check" /\ cur[s] = 0 /\ net[s] = <<>> /\ out[Other(s)] = <<>> /\ fut[s] = <<>>
    BY SideFacts DEF Init
  <2>2. Len(Script[s]) \in Nat
    BY <1>1, ScriptFacts DEF LocalInv, Functions
  <2> QED
    BY <2>1, <2>2, EmptyIsSeq DEF Phase, Idle, Next1, Tasks, Flight, ChosenOK
<1>3. BothEarly
  <2> SUFFICES ASSUME NEW s \in Sides
               PROVE  Early(s) /\ SilentFrom(Other(s), Next1(s)) /\ Opening(s, 1)
    BY DEF BothEarly
  <2>1. Other(s) \in Sides
    BY SideFacts
  <2> QED
    BY <1>2, <2>1 DEF Early, SilentFrom, Opening
<1>4. \A s \in Sides : open[s]
  BY DEF Init
<1>5. WireInv
  BY <1>3, <1>4, SideFacts DEF WireInv, InSync
<1> QED
  BY <1>1, <1>2, <1>5 DEF OTInv

\* Every step keeps the managers in step with one another.
LEMMA NextOT == OTInv /\ [Next]_vars => OTInv'
<1> SUFFICES ASSUME OTInv, [Next]_vars PROVE OTInv'
  OBVIOUS
<1>0. LocalInv /\ WireInv /\ (\A x \in Sides : ChosenOK(x)) /\ LocalInv'
  BY NextLocal DEF OTInv
<1>1. CASE UNCHANGED vars
  <2>1. /\ UNCHANGED <<plan, choices, fut, worker, cur, loc, out, net, open>>
    BY <1>1 DEF vars
  <2>2. \A x \in Sides : SameSide(x) /\ SameValues(x) /\ SameFlight(x) /\ ChosenOK(x)'
    BY <1>0, <2>1, SideStays, FlightStays, ChosenStep DEF SameValues
  <2> QED
    BY <1>0, <2>1, <2>2, QuietOK DEF OTInv, Quiet
<1>2. ASSUME NEW s \in Sides,
             OwnerStep(s) \/ WorkerStep(s) \/ Write(s) \/ SpuriousWakeup(s) \/ Kill(s)
      PROVE  WireInv' /\ \A x \in Sides : ChosenOK(x)'
  <2>1. \A x \in Sides : ChosenOK(x)'
    BY <1>0, <1>2, NextChosen
  <2>2. CASE OwnerStep(s) \/ Kill(s)
    BY <1>0, <2>1, <2>2, OwnerQuiet, QuietOK, OwnerCloses DEF OwnerStep
  <2>3. CASE TakeTask(s) \/ Write(s) \/ SpuriousWakeup(s)
    BY <1>0, <2>1, <2>3, TakeTaskQuiet, WriteQuiet, OwnerQuiet, QuietOK
  <2>4. CASE BeginTrivial(s) \/ BeginReceiver(s) \/ BeginSender(s)
    BY <1>0, <2>1, <2>4, BeginQuiet, QuietOK, BeginSenderWire
  <2>5. CASE RecvA(s) \/ RecvB(s) \/ RecvSeed(s) \/ RecvEq(s) \/ RecvMasked(s)
    BY <1>0, <2>1, <2>5, RecvAWire, RecvBWire, RecvSeedWire, RecvEqWire, RecvMaskedWire
  <2>6. CASE Flushed(s)
    <3>1. Call(s).api = "ot_send" \/ Call(s).api = "ot_receive"
      BY <2>6 DEF Flushed
    <3> QED
      BY <1>0, <2>1, <2>6, <3>1, FlushedWire, FlushedQuiet, QuietOK
  <2>7. CASE TaskFails(s)
    BY <1>0, <2>1, <2>7, TaskFailsWire
  <2> QED
    BY <1>2, <2>1, <2>2, <2>3, <2>4, <2>5, <2>6, <2>7 DEF WorkerStep, TaskStep
<1> QED
  BY <1>0, <1>1, <1>2 DEF Next, OTInv

\* ot_receive delivers the message that its caller chose of the pair that the
\* matching ot_send was given, for every pair of programs, group and oracle, and
\* also when a process is killed: no message is taken for that of another call,
\* the pads of SimplestOT agree, and they and the bits eq cancel out.
THEOREM OTOutputCorrect == Spec => []OutputCorrect
<1>1. OTInv => OutputCorrect
  <2> SUFFICES ASSUME OTInv, NEW k \in DOMAIN Script["P1"], HasValue("P1", k),
                      Script["P1"][k].api = "ot_receive"
               PROVE  fut["P1"][k].v = Pick(Script["P0"][k].msgs, choices["P1"][k])
    BY DEF OutputCorrect
  <2>1. "P1" \in Sides /\ Other("P1") = "P0"
    BY DEF Sides, Other
  <2>2. LocalInv /\ ChosenOK("P1") /\ plan \in Plans
    BY <2>1 DEF OTInv, LocalInv, Functions
  <2>3. k \in 1 .. Len(Script["P1"]) /\ Len(Script["P1"]) \in Nat /\ Len(fut["P1"]) \in Nat
    BY <2>1, <2>2, ScriptFacts DEF LocalInv, ProcessOK, QueueOK, IsSeq
  <2>4. k \in 1 .. Len(fut["P1"])
    BY <2>3 DEF HasValue
  <2> QED
    BY <2>1, <2>2, <2>4 DEF ChosenOK
<1> QED
  BY <1>1, InitOT, NextOT, PTL DEF Spec

-----------------------------------------------------------------------------
(* The refinement of IdealOT.                                              *)

\* s has read something for its current call only if its peer has made that call.
Met(s) ==
  Phase(s) \in {"recv_seed", "recv_eq", "recv_masked", "flush"} =>
    Speaks(Other(s), cur[s]) /\ cur[s] <= Len(fut[Other(s)])

\* The points that a sender reads come from a call that its peer has not finished.
AnswerOK(s) ==
  Phase(s) = "recv_B" /\ Flight(s) >= 1 /\ Msg(s, 1).kind = "B" =>
    LET o == Other(s) IN
    /\ Speaks(o, cur[s]) /\ cur[s] <= Len(fut[o]) /\ fut[o][cur[s]].is # "value"
    /\ \A i \in DOMAIN Msg(s, 1).v : Msg(s, 1).v[i] \in Int

\* The seed that a recv_batch reads belongs to the pads that its peer was given.
SeedOK(s) ==
  Phase(s) = "recv_seed" /\ Call(s).api = "recv_batch" /\ Flight(s) >= 1 =>
    LET m == fut[Other(s)][cur[s]] IN
    m.is = "value" /\ IsSeed(s, Msg(s, 1), m.v)

\* A call with number j that the peer of s has begun, as the next of those that
\* transfer something.
Begun(s, j) ==
  LET o == Other(s)
      p == IF Phase(s) = "idle" THEN Next1(s) ELSE cur[s] + 1
  IN  /\ Speaks(o, j) /\ j <= Len(fut[o]) /\ SilentFrom(s, j)
      /\ Phase(s) # "idle" => cur[s] < j
      /\ \A i \in Nat : p <= i /\ i < j => ~Speaks(o, i)

OpenerOK(s) ==
  Phase(s) # "recv_B" =>
    \A i \in 1 .. Flight(s) : Msg(s, i).kind = "A" => \E j \in Nat : Begun(s, j)

\* Where the messages to s come from, also when its peer has gone.
Source(s) == Met(s) /\ AnswerOK(s) /\ SeedOK(s) /\ OpenerOK(s)
SourceOK(s) == open[s] => Source(s)

\* The pads that send_batch has delivered.
PadsOK(s) ==
  \A k \in 1 .. Len(fut[s]) :
    HasValue(s, k) /\ Script[s][k].api = "send_batch" =>
      fut[s][k].v \in [1 .. Script[s][k].size -> XWord \X XWord]

\* An owner stops early only after an exception.
StopOK(s) ==
  /\ owner[s] = "await" => Len(fut[s]) >= 1
  /\ owner[s] \in {"unwind", "join", "flush", "gone"} =>
       \/ Len(fut[s]) = Len(Script[s])
       \/ \E k \in 1 .. Len(fut[s]) : fut[s][k].is = "exception"

FaultBy(k) == \E j \in 1 .. k : Ideal!Faulty(j)

\* Nothing is left for s to read but what it needs to finish a call that its
\* peer has finished.
Alone(s) ==
  \/ Lags(s)
  \/ Early(s) /\ SilentFrom(Other(s), Next1(s)) /\ Flight(s) = 0

\* Unless a process was killed, a call fails and a socket is closed early only
\* after a faulty call, and the peer of an open socket has gone in peace.
BlameOK(s) ==
  kills = 0 =>
    /\ \A k \in 1 .. Len(fut[s]) : fut[s][k].is = "exception" => FaultBy(k)
    /\ ~open[s] => owner[s] = "gone" \/ FaultBy(cur[s])
    /\ open[s] /\ ~open[Other(s)] => owner[Other(s)] = "gone" /\ Alone(s)

RefInv ==
  /\ OTInv
  /\ \A s \in Sides : SourceOK(s) /\ PadsOK(s) /\ StopOK(s) /\ BlameOK(s)

-----------------------------------------------------------------------------
(* Where messages come from.                                               *)

\* While the two sides are in step every message comes from a call of the peer.
LEMMA SyncSource ==
  ASSUME NEW s \in Sides, LocalInv, InSync
  PROVE  Source(s)
<1> DEFINE o == Other(s)
<1>0. o \in Sides /\ o # s /\ Other(o) = s /\ plan \in Plans
  BY SideFacts DEF LocalInv, Functions
<1>1. /\ Phase(s) \in Phases /\ Phase(o) \in Phases /\ cur[s] \in Nat /\ cur[o] \in Nat
      /\ Next1(o) \in Nat /\ Next1(o) <= Len(fut[o]) + 1 /\ Len(fut[o]) \in Nat
      /\ Flight(s) \in Nat /\ Next1(s) \in Nat
  BY <1>0, PhaseFacts, FlightType
<1>2. /\ Phase(s) # "idle" => Next1(s) = cur[s]
      /\ Phase(o) # "idle" => Next1(o) = cur[o] /\ Speaks(o, cur[o]) /\ cur[o] \in 1 .. Len(fut[o])
  BY <1>0, PhaseFacts
<1>3. Met(s)
  <2> SUFFICES ASSUME Phase(s) \in {"recv_seed", "recv_eq", "recv_masked", "flush"}
               PROVE  Speaks(o, cur[s]) /\ cur[s] <= Len(fut[o])
    BY DEF Met
  <2>1. \/ cur[s] = cur[o] /\ Phase(o) # "idle"
        \/ Lags(s)
    BY <1>0, SyncCases DEF SentB, SentSeed, SentEq, SentMasked, Paired
  <2> QED
    BY <1>1, <1>2, <2>1 DEF Lags
<1>4. AnswerOK(s)
  <2> SUFFICES ASSUME Phase(s) = "recv_B", Flight(s) >= 1, Msg(s, 1).kind = "B"
               PROVE  /\ Speaks(o, cur[s]) /\ cur[s] <= Len(fut[o]) /\ fut[o][cur[s]].is # "value"
                      /\ \A i \in DOMAIN Msg(s, 1).v : Msg(s, 1).v[i] \in Int
    BY DEF AnswerOK
  <2>1. ~BothEarly
    <3> SUFFICES ASSUME BothEarly PROVE FALSE
      OBVIOUS
    <3>1. Opening(o, 1)
      BY <1>0 DEF BothEarly
    <3> QED
      BY <1>0, <1>1, <3>1 DEF Opening, IsA
  <2>2. SentB(o)
    BY <1>0, <1>1, <2>1, SyncCases DEF Lags
  <2>3. /\ cur[o] = cur[s] /\ Phase(o) = "recv_seed" /\ IsB(o, Msg(s, 1))
        /\ loc[o].A = mulGenerator(loc[s].a)
    BY <1>0, <2>2 DEF SentB, Paired
  <2>4. fut[o][cur[o]] = Pending /\ Call(o).size \in Nat
    <3>1. Live(o) /\ IsCall(Call(o))
      BY <1>0, <2>3, PhaseFacts
    <3> QED
      BY <1>0, <3>1 DEF LocalInv, ProcessOK, FuturesOK, Live, IsCall
  <2>5. loc[o].b \in [1 .. Call(o).size -> ReceiverDraws] /\ loc[s] \in SenderDraws
    <3>1. worker[o] = "recv_seed"
      BY <2>3 DEF Phase
    <3> QED
      BY <1>0, <3>1, PhaseFacts DEF LocalInv, ProcessOK, TaskOK
  <2>6. ASSUME NEW i \in 1 .. Call(o).size
        PROVE  ChosenB(loc[o].A, loc[o].b[i], loc[o].q[i]) \in Int
    <3>1. loc[o].b[i] \in 1 .. (Order - 1) /\ loc[s].a \in 1 .. (Order - 1) /\ Order \in Nat \ {0}
      BY <2>5, CurveAssumption
    <3> QED
      BY <2>3, <3>1 DEF ChosenB, Add, mulGenerator
  <2>7. \A i \in DOMAIN Msg(s, 1).v : Msg(s, 1).v[i] \in Int
    BY <2>3, <2>6 DEF IsB
  <2> QED
    BY <1>2, <2>3, <2>4, <2>7 DEF Pending
<1>5. SeedOK(s)
  <2> SUFFICES ASSUME Phase(s) = "recv_seed", Call(s).api = "recv_batch", Flight(s) >= 1
               PROVE  fut[o][cur[s]].is = "value" /\ IsSeed(s, Msg(s, 1), fut[o][cur[s]].v)
    BY DEF SeedOK
  <2>1. ~SentB(s)
    BY DEF SentB
  <2>2. ~SentSeed(s)
    <3> SUFFICES ASSUME SentSeed(s) PROVE FALSE
      OBVIOUS
    <3>1. cur[s] = cur[o] /\ Phase(o) = "recv_eq"
      BY DEF SentSeed, Paired
    <3>2. Call(o).api = "ot_send" /\ Call(o).api = Partner(Call(s).api)
      BY <1>0, <3>1, PhaseFacts, PairFacts
    <3> QED
      BY <3>2 DEF Partner
  <2>3. Lags(s)
    BY <2>1, <2>2, SyncCases
  <2> QED
    BY <2>3 DEF Lags, LagsSeed, LagsMasked, LagsFlush
<1>6. OpenerOK(s)
  <2> SUFFICES ASSUME Phase(s) # "recv_B", NEW n \in 1 .. Flight(s), Msg(s, n).kind = "A"
               PROVE  \E j \in Nat : Begun(s, j)
    BY DEF OpenerOK
  <2>1. CASE BothEarly
    <3>1. Opening(o, 1) /\ SilentFrom(o, Next1(s)) /\ SilentFrom(s, Next1(o)) /\ Phase(s) = "idle"
      BY <1>0, <2>1 DEF BothEarly, Early
    <3>2. Phase(o) = "recv_B"
      BY <1>0, <1>1, <3>1 DEF Opening
    <3>3. Begun(s, cur[o])
      BY <1>0, <1>1, <1>2, <3>1, <3>2 DEF Begun, SilentFrom, Speaks
    <3> QED
      BY <1>1, <3>3
  <2>2. CASE Lags(s)
    <3>1. /\ Phase(s) # "idle" /\ cur[s] < Next1(o) /\ SilentFrom(o, cur[s] + 1)
      BY <2>2 DEF Lags, LagsSeed, LagsMasked, LagsFlush
    <3>2. Phase(o) = "recv_B"
      <4> SUFFICES ASSUME Phase(o) # "recv_B" PROVE FALSE
        OBVIOUS
      <4>1. \/ Opening(o, 2) /\ Msg(s, 1).kind \in {"seed", "masked"}
            \/ Opening(o, 1)
        BY <2>2 DEF Lags, LagsSeed, LagsMasked, LagsFlush, IsSeed, IsMasked
      <4>2. (Flight(s) = 1 /\ Msg(s, 1).kind \in {"seed", "masked"}) \/ Flight(s) = 0
        BY <1>0, <4>1 DEF Opening
      <4> QED
        BY <4>2
    <3>3. Begun(s, cur[o])
      BY <1>0, <1>1, <1>2, <3>1, <3>2 DEF Begun, SilentFrom, Speaks
    <3> QED
      BY <1>1, <3>3
  <2>3. CASE Lags(o)
    BY <1>0, <2>3 DEF Lags
  <2>4. CASE SentB(s) \/ SentSeed(s) \/ SentEq(s) \/ SentMasked(s)
    <3>1. (Flight(s) = 1 /\ Msg(s, 1).kind \in {"seed", "masked"}) \/ Flight(s) = 0
      BY <2>4 DEF SentB, SentSeed, SentEq, SentMasked, IsSeed, IsMasked
    <3> QED
      BY <3>1
  <2>5. CASE SentSeed(o) \/ SentEq(o) \/ SentMasked(o) \/ SentB(o)
    BY <1>0, <2>5, SMTT(60) DEF SentSeed, SentEq, SentMasked, SentB, IsEq, IsB
  <2> QED
    BY <2>1, <2>2, <2>3, <2>4, <2>5, SideFacts DEF InSync
<1> QED
  BY <1>3, <1>4, <1>5, <1>6 DEF Source

\* The same for both sides, ...
LEMMA SyncSourceAll == LocalInv /\ InSync => \A s \in Sides : Source(s)
BY SyncSource

\* ... and after a step.
LEMMA SyncSourceNext == (LocalInv /\ InSync)' => (\A s \in Sides : Source(s))'
BY SyncSourceAll, PTL

\* s has got no value for a call that transfers something.
NoNews(s) ==
  \A k \in 1 .. Len(fut[s]) :
    Speaks(s, k) /\ fut[s][k].is # "value" => fut'[s][k].is # "value"

Step(s) == OwnerStep(s) \/ WorkerStep(s) \/ Write(s) \/ SpuriousWakeup(s) \/ Kill(s)

\* The threads of s, and whether its socket is open, do not change.
Apart(s) ==
  /\ plan' = plan /\ owner'[s] = owner[s] /\ choices'[s] = choices[s] /\ fut'[s] = fut[s]
  /\ worker'[s] = worker[s] /\ cur'[s] = cur[s] /\ loc'[s] = loc[s] /\ open'[s] = open[s]

\* A task that ends is not seen by the other side.
LEMMA SettleApart ==
  ASSUME NEW s \in Sides, LocalInv, NEW v, Settle(s, v), UNCHANGED <<plan, owner, choices, cur>>,
         open'[Other(s)] = open[Other(s)]
  PROVE  Apart(Other(s))
<1>1. Other(s) \in Sides /\ Other(s) # s
  BY SideFacts
<1> QED
  BY <1>1 DEF Settle, Apart, LocalInv, Functions

\* A step of s leaves its peer's threads alone.
LEMMA PeerApart ==
  ASSUME NEW s \in Sides, LocalInv, Step(s)
  PROVE  Apart(Other(s)) /\ SameSide(Other(s))
<1> DEFINE o == Other(s)
<1>0. o \in Sides /\ o # s
  BY SideFacts
<1>1. Functions
  BY DEF LocalInv
<1> SUFFICES Apart(o)
  BY <1>0, SideStays DEF Apart
<1>2. CASE Submit(s)
  BY <1>0, <1>1, <1>2 DEF Submit, taskVars, sockVars, Functions, Apart
<1>3. CASE AwaitFuture(s) \/ Destroy(s) \/ Join(s)
  BY <1>0, <1>1, <1>3 DEF AwaitFuture, Destroy, Join, taskVars, sockVars, Functions, Apart
<1>4. CASE FlushAndClose(s) \/ Kill(s)
  BY <1>0, <1>1, <1>4 DEF FlushAndClose, Kill, CloseSocket, taskVars, Functions, Apart
<1>5. CASE Write(s) \/ SpuriousWakeup(s) \/ TakeTask(s)
  BY <1>0, <1>1, <1>5 DEF Write, SpuriousWakeup, TakeTask, ownerVars, taskVars, sockVars, Functions,
                          Apart
<1>6. CASE BeginSender(s)
  BY <1>0, <1>1, <1>6 DEF BeginSender, Goto, ownerVars, Functions, Apart
<1>7. CASE BeginReceiver(s)
  BY <1>0, <1>1, <1>7 DEF BeginReceiver, Goto, ownerVars, sockVars, Functions, Apart
<1>8. CASE RecvA(s)
  BY <1>0, <1>1, <1>8 DEF RecvA, Goto, ownerVars, Functions, Apart
<1>9. CASE RecvEq(s)
  BY <1>0, <1>1, <1>9 DEF RecvEq, Goto, ownerVars, taskVars, Functions, Apart
<1>10. CASE BeginTrivial(s) \/ RecvMasked(s) \/ TaskFails(s)
  <2>1. UNCHANGED <<plan, owner, choices, cur>> /\ \E v : Settle(s, v)
    BY <1>10 DEF BeginTrivial, RecvMasked, TaskFails, ownerVars
  <2>2. open'[o] = open[o]
    BY <1>0, <1>1, <1>10 DEF BeginTrivial, RecvMasked, TaskFails, sockVars, CloseSocket, Functions
  <2> QED
    BY <2>1, <2>2, SettleApart
<1>11. CASE RecvB(s) \/ RecvSeed(s) \/ Flushed(s)
  <2>1. /\ UNCHANGED <<plan, owner, choices, cur, open>>
        /\ \/ \E v : Settle(s, v)
           \/ fut' = fut /\ (\E ph : Goto(s, ph)) /\ (loc' = loc \/ \E l : loc' = [loc EXCEPT ![s] = l])
    BY <1>11 DEF RecvB, RecvSeed, Flushed, ownerVars, sockVars
  <2>2. CASE \E v : Settle(s, v)
    BY <2>1, <2>2, SettleApart
  <2>3. CASE fut' = fut /\ (\E ph : Goto(s, ph)) /\ (loc' = loc \/ \E l : loc' = [loc EXCEPT ![s] = l])
    BY <1>0, <1>1, <2>1, <2>3 DEF Goto, Functions, Apart
  <2> QED
    BY <2>1, <2>2, <2>3
<1> QED
  BY <1>2, <1>3, <1>4, <1>5, <1>6, <1>7, <1>8, <1>9, <1>10, <1>11
     DEF Step, OwnerStep, WorkerStep, TaskStep

\* The task of s settles its future with v.
Settles(s, v) ==
  /\ worker[s] \in Tasks /\ Settle(s, v)
  /\ UNCHANGED <<plan, owner, choices, running, tasks, cur, kills>>

\* When a step of s changes a future, it is a new call or the end of a task.
LEMMA FutureSteps ==
  ASSUME NEW s \in Sides, Step(s)
  PROVE  \/ fut' = fut
         \/ Submit(s)
         \/ BeginTrivial(s) /\ Rejected(Call(s)) /\ Settles(s, Thrown)
         \/ BeginTrivial(s) /\ Trivial(Call(s)) /\ Settles(s, Value(<<>>))
         \/ TaskFails(s) /\ Settles(s, Thrown)
         \/ /\ \/ RecvB(s) /\ Call(s).api = "send_batch"
               \/ RecvSeed(s) /\ Call(s).api = "recv_batch"
               \/ Flushed(s) /\ Call(s).api = "ot_send"
               \/ RecvMasked(s)
            /\ open[s] /\ open' = open /\ \E x : Settles(s, Value(x))
<1>1. CASE OwnerStep(s) \/ Write(s) \/ SpuriousWakeup(s) \/ Kill(s) \/ TakeTask(s)
  BY <1>1 DEF OwnerStep, AwaitFuture, Destroy, Join, FlushAndClose, Kill, Write, SpuriousWakeup,
              TakeTask
<1>2. CASE BeginSender(s) \/ BeginReceiver(s) \/ RecvA(s) \/ RecvEq(s)
  BY <1>2 DEF BeginSender, BeginReceiver, RecvA, RecvEq
<1>3. CASE BeginTrivial(s)
  BY <1>3 DEF BeginTrivial, Settles, Tasks, ownerVars
<1>4. CASE TaskFails(s)
  BY <1>4 DEF TaskFails, Settles, Tasks, Waits, ownerVars
<1>5. CASE RecvB(s)
  BY <1>5 DEF RecvB, Receive, Settles, Tasks, ownerVars
<1>6. CASE RecvSeed(s)
  BY <1>6 DEF RecvSeed, Receive, Settles, Tasks, ownerVars
<1>7. CASE Flushed(s)
  BY <1>7 DEF Flushed, Settles, Tasks, ownerVars, sockVars
<1>8. CASE RecvMasked(s)
  BY <1>8 DEF RecvMasked, Receive, Settles, Tasks, ownerVars
<1> QED
  BY <1>1, <1>2, <1>3, <1>4, <1>5, <1>6, <1>7, <1>8 DEF Step, WorkerStep, TaskStep

\* A new call comes after the others.
LEMMA SubmitView ==
  ASSUME NEW s \in Sides, LocalInv, Submit(s)
  PROVE  /\ Len(fut[s]) \in Nat /\ Len(fut'[s]) = Len(fut[s]) + 1 /\ Len(fut'[s]) <= Len(Script[s])
         /\ \A k \in 1 .. Len(fut[s]) : fut'[s][k] = fut[s][k] /\ choices'[s][k] = choices[s][k]
         /\ fut'[s][Len(fut[s]) + 1] = Pending
<1>1. PICK ch : choices' = [choices EXCEPT ![s] = Append(@, ch)]
  BY DEF Submit
<1>2. fut'[s] = Append(fut[s], Pending) /\ choices'[s] = Append(choices[s], ch)
  BY <1>1 DEF Submit, LocalInv, Functions
<1>3. IsSeq(fut[s]) /\ IsSeq(choices[s]) /\ Len(fut[s]) \in Nat /\ Len(choices[s]) = Len(fut[s])
  BY DEF LocalInv, ProcessOK, QueueOK, IsSeq
<1>4. Len(fut[s]) < Len(Script[s]) /\ Len(Script[s]) \in Nat
  BY ScriptFacts DEF Submit, LocalInv, Functions
<1> QED
  BY <1>2, <1>3, <1>4, AppendIsSeq

\* s has its calls in order: those that are settled stay so.
Grown(s) ==
  /\ Len(fut[s]) \in Nat /\ Len(fut'[s]) \in Nat /\ Len(fut[s]) <= Len(fut'[s])
  /\ \A k \in 1 .. Len(fut[s]) : fut[s][k].is # "pending" => fut'[s][k] = fut[s][k]
  /\ \A k \in 1 .. Len(fut'[s]) : k > Len(fut[s]) => fut'[s][k] = Pending

\* Futures are added at the end, and one that is ready stays as it is.
LEMMA FutureView ==
  ASSUME NEW s \in Sides, LocalInv, Step(s)
  PROVE  Grown(s) /\ Grown(Other(s))
<1>0. Other(s) \in Sides
  BY SideFacts
<1>1. \A x \in Sides : Len(fut[x]) \in Nat
  BY DEF LocalInv, ProcessOK, QueueOK, IsSeq
<1>2. Grown(Other(s))
  BY <1>0, <1>1, PeerApart DEF Apart, Grown
<1> SUFFICES Grown(s)
  BY <1>2
<1>3. ASSUME NEW v, Settles(s, v) PROVE Grown(s)
  <2>1. Len(fut'[s]) = Len(fut[s]) /\ \A k \in 1 .. Len(fut[s]) : k # cur[s] => fut'[s][k] = fut[s][k]
    BY <1>3, SettleView DEF Settles
  <2>2. fut[s][cur[s]].is = "pending"
    BY <1>3 DEF Settles, LocalInv, ProcessOK, FuturesOK, Pending
  <2> QED
    BY <1>1, <2>1, <2>2 DEF Grown
<1>4. CASE Submit(s)
  BY <1>4, SubmitView DEF Grown
<1>5. CASE fut' = fut
  BY <1>1, <1>5 DEF Grown
<1> QED
  BY <1>3, <1>4, <1>5, FutureSteps

\* Part of what was in flight to s may be lost, and nothing is added.
Cut(s) == Flight(s)' \in 0 .. Flight(s) /\ \A i \in 1 .. Flight(s)' : Msg(s, i)' = Msg(s, i)

\* A process whose socket is closed, or that closes it, sends nothing and gets
\* no result.
LEMMA CloserView ==
  ASSUME NEW s \in Sides, LocalInv, Step(s), ~open'[s]
  PROVE  Cut(Other(s)) /\ NoNews(s)
<1> DEFINE o == Other(s)
<1>0. o \in Sides /\ o # s /\ Other(o) = s
  BY SideFacts
<1>1. ASSUME CloseSocket(s) PROVE Cut(o)
  BY <1>1, FlightCut DEF Cut
<1>2. ASSUME UNCHANGED <<out, net>> PROVE Cut(o)
  <2>1. SameFlight(o) /\ Flight(o) \in Nat
    BY <1>0, <1>2, FlightStays, FlightType
  <2> QED
    BY <2>1 DEF SameFlight, Cut
<1>3. Cut(o)
  <2>1. CASE OwnerStep(s) \/ SpuriousWakeup(s) \/ Kill(s) \/ TakeTask(s)
    BY <1>1, <1>2, <2>1 DEF OwnerStep, Submit, AwaitFuture, Destroy, Join, FlushAndClose, Kill,
                            SpuriousWakeup, TakeTask, sockVars
  <2>2. CASE BeginTrivial(s) \/ TaskFails(s)
    BY <1>1, <1>2, <2>2 DEF BeginTrivial, TaskFails, sockVars
  <2>3. CASE Write(s) \/ BeginSender(s) \/ BeginReceiver(s) \/ Flushed(s)
    BY <2>3 DEF Write, BeginSender, BeginReceiver, Flushed, sockVars
  <2>4. CASE RecvA(s) \/ RecvB(s) \/ RecvSeed(s) \/ RecvEq(s) \/ RecvMasked(s)
    BY <2>4 DEF RecvA, RecvB, RecvSeed, RecvEq, RecvMasked, Receive
  <2> QED
    BY <2>1, <2>2, <2>3, <2>4 DEF Step, WorkerStep, TaskStep
<1>4. NoNews(s)
  <2>1. CASE fut' = fut
    BY <2>1 DEF NoNews
  <2>2. CASE Submit(s)
    BY <2>2, SubmitView DEF NoNews
  <2>3. ASSUME Settles(s, Thrown) PROVE NoNews(s)
    <3>1. /\ fut'[s][cur[s]] = Thrown
          /\ \A k \in 1 .. Len(fut[s]) : k # cur[s] => fut'[s][k] = fut[s][k]
      BY <2>3, SettleView DEF Settles
    <3> QED
      BY <3>1 DEF NoNews, Thrown
  <2>4. ASSUME Settles(s, Value(<<>>)), Trivial(Call(s)) PROVE NoNews(s)
    <3>1. \A k \in 1 .. Len(fut[s]) : k # cur[s] => fut'[s][k] = fut[s][k]
      BY <2>4, SettleView DEF Settles
    <3>2. ~Speaks(s, cur[s])
      BY <2>4 DEF Speaks, Mute, Call
    <3> QED
      BY <3>1, <3>2 DEF NoNews
  <2> QED
    BY <2>1, <2>2, <2>3, <2>4, FutureSteps
<1> QED
  BY <1>3, <1>4

\* What s may read still comes from the same calls.
LEMMA SourceCut ==
  ASSUME NEW s \in Sides, LocalInv, plan' = plan, SameSide(s), Cut(s), Source(s),
         Grown(Other(s)), NoNews(Other(s))
  PROVE  Source(s)'
<1> DEFINE o == Other(s)
<1>0. o \in Sides /\ Flight(s) \in Nat /\ Flight(s)' \in Nat /\ Flight(s)' <= Flight(s)
  BY SideFacts, FlightType DEF Cut
<1>1. /\ Phase(s)' = Phase(s)
      /\ Phase(s) # "idle" => cur'[s] = cur[s] /\ loc'[s] = loc[s] /\ Call(s)' = Call(s)
  BY DEF SameSide, Call, Script
<1>2. \A j : Speaks(o, j)' = Speaks(o, j) /\ Speaks(s, j)' = Speaks(s, j)
  BY DEF Speaks, Script
<1>3. Len(fut[o]) \in Nat /\ Len(fut'[o]) \in Nat /\ Len(fut[o]) <= Len(fut'[o])
  BY DEF Grown
<1>4. cur[s] \in Nat /\ (Phase(s) # "idle" => cur[s] \in 1 .. Len(fut[s])) /\ Next1(s) \in Nat
  BY PhaseFacts
<1>5. Met(s)'
  BY <1>1, <1>2, <1>3, <1>4 DEF Source, Met
<1>6. AnswerOK(s)'
  <2> SUFFICES ASSUME Phase(s)' = "recv_B", Flight(s)' >= 1, Msg(s, 1)'.kind = "B"
               PROVE  /\ Speaks(o, cur[s])' /\ cur'[s] <= Len(fut'[o]) /\ fut'[o][cur'[s]].is # "value"
                      /\ \A i \in DOMAIN Msg(s, 1)'.v : Msg(s, 1)'.v[i] \in Int
    BY DEF AnswerOK
  <2>1. Phase(s) = "recv_B" /\ Flight(s) >= 1 /\ Msg(s, 1)' = Msg(s, 1) /\ cur'[s] = cur[s]
    BY <1>0, <1>1 DEF Cut
  <2>2. /\ Speaks(o, cur[s]) /\ cur[s] <= Len(fut[o]) /\ fut[o][cur[s]].is # "value"
        /\ \A i \in DOMAIN Msg(s, 1).v : Msg(s, 1).v[i] \in Int
    BY <2>1 DEF Source, AnswerOK
  <2>3. cur[s] \in 1 .. Len(fut[o])
    BY <1>3, <1>4, <2>1, <2>2
  <2>4. fut'[o][cur[s]].is # "value"
    BY <2>2, <2>3 DEF NoNews
  <2> QED
    BY <1>2, <1>3, <1>4, <2>1, <2>2, <2>4
<1>7. SeedOK(s)'
  <2> SUFFICES ASSUME Phase(s)' = "recv_seed", Call(s)'.api = "recv_batch", Flight(s)' >= 1
               PROVE  fut'[o][cur'[s]].is = "value" /\ IsSeed(s, Msg(s, 1), fut[o][cur[s]].v)'
    BY DEF SeedOK
  <2>1. /\ Phase(s) = "recv_seed" /\ Call(s).api = "recv_batch" /\ Flight(s) >= 1
        /\ Msg(s, 1)' = Msg(s, 1) /\ cur'[s] = cur[s] /\ Call(s)' = Call(s) /\ loc'[s] = loc[s]
    BY <1>0, <1>1 DEF Cut
  <2>2. fut[o][cur[s]].is = "value" /\ IsSeed(s, Msg(s, 1), fut[o][cur[s]].v)
    BY <2>1 DEF Source, SeedOK
  <2>3. cur[s] \in 1 .. Len(fut[o])
    BY <1>3, <1>4, <2>1 DEF Source, Met
  <2>4. fut'[o][cur[s]] = fut[o][cur[s]]
    BY <2>2, <2>3 DEF Grown
  <2> QED
    BY <2>1, <2>2, <2>4 DEF IsSeed
<1>8. OpenerOK(s)'
  <2> SUFFICES ASSUME Phase(s)' # "recv_B", NEW n \in 1 .. Flight(s)', Msg(s, n)'.kind = "A"
               PROVE  \E j \in Nat : Begun(s, j)'
    BY DEF OpenerOK
  <2>1. n \in 1 .. Flight(s) /\ Msg(s, n).kind = "A" /\ Phase(s) # "recv_B"
    BY <1>0, <1>1 DEF Cut
  <2>2. PICK j \in Nat : Begun(s, j)
    BY <2>1 DEF Source, OpenerOK
  <2>3. SilentFrom(s, j)'
    <3>1. SilentFrom(s, j) /\ j <= j
      BY <2>2 DEF Begun
    <3>2. \A i \in 1 .. Len(Script[s])' : j <= i /\ i < Next1(s)' => ~Speaks(s, i)'
      BY <3>1, SilentStays
    <3> QED
      BY <3>2 DEF SilentFrom
  <2>4. Phase(s) = "idle" => Next1(s)' \in Nat /\ Next1(s)' >= Next1(s)
    BY <1>4 DEF SameSide
  <2>5. Begun(s, j)'
    BY <1>1, <1>2, <1>3, <1>4, <2>2, <2>3, <2>4 DEF Begun
  <2> QED
    BY <2>5
<1> QED
  BY <1>5, <1>6, <1>7, <1>8 DEF Source

\* s has nothing to read.
LEMMA SourceEmpty ==
  ASSUME NEW s \in Sides, Flight(s)' = 0, Met(s)'
  PROVE  Source(s)'
BY DEF Source, AnswerOK, SeedOK, OpenerOK

\* s ends a call for which it has read something, and finds what its peer has sent
\* for a later one.
LEMMA SourceEnds ==
  ASSUME NEW s \in Sides, LocalInv, plan' = plan, Source(s), ~Early(s),
         Phase(s)' = "idle", Next1(s)' = cur[s] + 1, fut'[Other(s)] = fut[Other(s)],
         \A i \in 1 .. Flight(s)' : \E n \in 1 .. Flight(s) : Msg(s, i)' = Msg(s, n)
  PROVE  Source(s)'
<1> DEFINE o == Other(s)
<1>1. Phase(s) # "idle" /\ Phase(s) # "recv_B" /\ cur[s] \in Nat
  BY PhaseFacts DEF Early
<1>2. \A j : Speaks(o, j)' = Speaks(o, j) /\ Speaks(s, j)' = Speaks(s, j)
  BY DEF Speaks, Script
<1>3. Len(Script[s])' = Len(Script[s])
  BY DEF Script
<1>4. OpenerOK(s)'
  <2> SUFFICES ASSUME NEW i \in 1 .. Flight(s)', Msg(s, i)'.kind = "A"
               PROVE  \E j \in Nat : Begun(s, j)'
    BY DEF OpenerOK
  <2>1. PICK n \in 1 .. Flight(s) : Msg(s, i)' = Msg(s, n)
    OBVIOUS
  <2>2. PICK j \in Nat : Begun(s, j)
    BY <1>1, <2>1 DEF Source, OpenerOK
  <2>3. /\ Speaks(o, j) /\ j <= Len(fut[o]) /\ cur[s] < j
        /\ \A h \in Nat : cur[s] + 1 <= h /\ h < j => ~Speaks(o, h)
    BY <1>1, <2>2 DEF Begun
  <2>4. SilentFrom(s, j)'
    BY <1>1, <1>3, <2>3 DEF SilentFrom
  <2>5. Begun(s, j)'
    BY <1>2, <2>3, <2>4 DEF Begun
  <2> QED
    BY <2>5
<1> QED
  BY <1>4 DEF Source, Met, AnswerOK, SeedOK

\* The receiver that reads A from a peer that has gone is in the call that A opened.
LEMMA OpenedCall ==
  ASSUME NEW s \in Sides, LocalInv, worker[s] = "recv_A", NEW j \in Nat, Begun(s, j)
  PROVE  j = cur[s] /\ Speaks(Other(s), cur[s]) /\ cur[s] <= Len(fut[Other(s)])
<1> DEFINE o == Other(s)
<1>0. o \in Sides /\ Other(o) = s /\ plan \in Plans
  BY SideFacts DEF LocalInv, Functions
<1>1. Speaks(s, cur[s]) /\ Next1(s) = cur[s] /\ cur[s] \in Nat /\ Phase(s) = "idle"
  <2>1. worker[s] \in Tasks /\ TaskOK(s)
    BY DEF Tasks, LocalInv, ProcessOK
  <2>2. cur[s] \in DOMAIN Script[s] /\ DOMAIN Script[s] = 1 .. Len(Script[s]) /\ cur[s] \in Nat
    BY <1>0, <2>1, CallFacts, ScriptFacts
  <2>3. ~Mute(Call(s))
    BY <2>1 DEF TaskOK, Live, Tasks
  <2> QED
    BY <2>1, <2>2, <2>3 DEF Speaks, Next1, Call, Phase, Idle
<1>2. /\ Speaks(o, j) /\ j <= Len(fut[o]) /\ SilentFrom(s, j)
      /\ \A i \in Nat : cur[s] <= i /\ i < j => ~Speaks(o, i)
  BY <1>1 DEF Begun
<1>3. ~(j < cur[s])
  <2> SUFFICES ASSUME j < cur[s] PROVE FALSE
    OBVIOUS
  <2>1. \E k \in Nat : k >= j /\ Speaks(s, k)
    BY <1>1
  <2>2. Speaks(s, j)
    BY <1>0, <1>2, <2>1, MatchFacts
  <2> QED
    BY <1>1, <1>2, <2>2 DEF SilentFrom, Speaks
<1>4. ~(cur[s] < j)
  <2> SUFFICES ASSUME cur[s] < j PROVE FALSE
    OBVIOUS
  <2>1. \E k \in Nat : k >= cur[s] /\ Speaks(o, k)
    BY <1>1, <1>2
  <2>2. Speaks(o, cur[s])
    BY <1>0, <1>1, <2>1, MatchFacts
  <2> QED
    BY <1>1, <1>2, <2>2
<1>5. j = cur[s]
  BY <1>1, <1>3, <1>4
<1> QED
  BY <1>2, <1>5

\* A process whose peer has closed its socket goes on with what is left to read.
LEMMA OwnSource ==
  ASSUME NEW s \in Sides, LocalInv, WireInv, open[s], ~open[Other(s)], open'[s], Step(s), Source(s)
  PROVE  Source(s)'
<1> DEFINE o == Other(s)
<1>0. o \in Sides /\ o # s /\ Other(o) = s
  BY SideFacts
<1>1. plan' = plan /\ fut'[o] = fut[o] /\ Grown(o) /\ NoNews(o)
  BY PeerApart, FutureView DEF Apart, NoNews
<1>2. LeftOver(s) /\ Flight(s) \in Nat /\ Functions
  BY WireLeft, FlightType DEF LocalInv
<1>3. ASSUME Quiet PROVE Source(s)'
  <2>1. SameSide(s) /\ SameFlight(s)
    BY <1>3 DEF Quiet
  <2>2. Cut(s)
    BY <1>2, <2>1 DEF SameFlight, Cut
  <2> QED
    BY <1>1, <2>1, <2>2, SourceCut
<1>4. CASE \/ Submit(s) \/ AwaitFuture(s) \/ Destroy(s) \/ Join(s) \/ SpuriousWakeup(s)
           \/ TakeTask(s) \/ Write(s) \/ BeginTrivial(s) \/ BeginReceiver(s)
  BY <1>3, <1>4, OwnerQuiet, TakeTaskQuiet, WriteQuiet, BeginQuiet
<1>5. CASE FlushAndClose(s) \/ Kill(s)
  BY <1>2, <1>5 DEF FlushAndClose, Kill, CloseSocket, Functions
<1>6. CASE BeginSender(s)
  <2>1. worker[s] = "begin" /\ worker'[s] = "recv_B" /\ net'[s] = net[s] /\ out'[o] = out[o]
    BY <1>0, <1>2, <1>6 DEF BeginSender, Goto, Say, Functions
  <2>2. Phase(s) = "idle" /\ Phase(s)' = "recv_B" /\ SameFlight(s)
    BY <2>1, FlightStays DEF Phase, Idle
  <2>3. Flight(s) >= 1 => Msg(s, 1)'.kind = "A"
    BY <1>2, <2>2 DEF LeftOver, FirstLeft, SameFlight
  <2>4. AnswerOK(s)'
    BY <2>2, <2>3 DEF AnswerOK, SameFlight
  <2> QED
    BY <2>2, <2>4 DEF Source, Met, SeedOK, OpenerOK
<1>7. CASE RecvA(s)
  <2>1. /\ UNCHANGED <<cur, fut>> /\ Receive(s, "recv_A") /\ Goto(s, "recv_seed")
        /\ out'[o] = out[o]
    BY <1>0, <1>2, <1>7 DEF RecvA, Say, Functions
  <2>2. /\ worker[s] = "recv_A" /\ Expects(s) = <<Msg(s, 1).kind, Msg(s, 1).n>>
        /\ Flight(s) >= 1 /\ Flight(s)' = Flight(s) - 1
    BY <2>1, ReadView DEF Tasks
  <2>3. Msg(s, 1).kind = "A" /\ Phase(s) = "idle"
    BY <2>2 DEF Expects, Phase, Idle
  <2>4. PICK j \in Nat : Begun(s, j)
    BY <1>2, <2>2, <2>3 DEF Source, OpenerOK
  <2>5. Speaks(o, cur[s]) /\ cur[s] <= Len(fut[o])
    BY <2>2, <2>4, OpenedCall
  <2>6. Met(s)'
    BY <1>1, <2>1, <2>5 DEF Met, Speaks, Script
  <2>7. Flight(s)' = 0
    BY <1>2, <2>2, <2>3 DEF LeftOver
  <2> QED
    BY <2>6, <2>7, SourceEmpty
<1>8. CASE RecvB(s)
  <2>1. /\ UNCHANGED cur /\ Receive(s, "recv_B") /\ out'[o] = out[o]
    BY <1>0, <1>2, <1>8 DEF RecvB, Say, Functions
  <2>2. /\ worker[s] = "recv_B" /\ Expects(s) = <<Msg(s, 1).kind, Msg(s, 1).n>>
        /\ Flight(s) >= 1 /\ Flight(s)' = Flight(s) - 1
    BY <2>1, ReadView DEF Tasks
  <2>3. Msg(s, 1).kind = "B" /\ Phase(s) = "recv_B"
    BY <2>2 DEF Expects, Phase, Idle
  <2>4. Speaks(o, cur[s]) /\ cur[s] <= Len(fut[o])
    BY <2>2, <2>3 DEF Source, AnswerOK
  <2>5. Met(s)'
    BY <1>1, <2>1, <2>4 DEF Met, Speaks, Script
  <2>6. Flight(s)' = 0
    BY <1>2, <2>2, <2>3 DEF LeftOver
  <2> QED
    BY <2>5, <2>6, SourceEmpty
<1>9. CASE (RecvSeed(s) /\ Call(s).api = "ot_receive") \/ RecvEq(s)
  <2>1. /\ UNCHANGED cur /\ out'[o] = out[o]
        /\ Receive(s, "recv_seed") \/ Receive(s, "recv_eq")
    BY <1>0, <1>2, <1>9 DEF RecvSeed, RecvEq, Say, Functions, taskVars
  <2>2. /\ worker[s] \in {"recv_seed", "recv_eq"} /\ Flight(s) >= 1 /\ Flight(s)' = Flight(s) - 1
    BY <2>1, ReadView DEF Tasks
  <2>3. Phase(s) = worker[s]
    BY <2>2 DEF Phase, Idle
  <2>4. Met(s)'
    BY <1>1, <2>1, <2>2, <2>3 DEF Source, Met, Speaks, Script
  <2>5. Flight(s) = 1
    <3>1. Phase(s) # "recv_masked" /\ (Phase(s) = "recv_seed" => Call(s).api # "recv_batch")
      BY <1>9, <2>2, <2>3 DEF RecvEq, Receive
    <3> QED
      BY <1>2, <2>2, <3>1 DEF LeftOver
  <2> QED
    BY <2>2, <2>4, <2>5, SourceEmpty
<1>10. CASE (RecvSeed(s) /\ Call(s).api = "recv_batch") \/ RecvMasked(s)
  <2>1. /\ UNCHANGED <<plan, choices, cur, out>> /\ \E v : Settle(s, v)
        /\ Receive(s, "recv_seed") \/ Receive(s, "recv_masked")
    BY <1>10 DEF RecvSeed, RecvMasked, ownerVars
  <2>2. /\ worker[s] \in {"recv_seed", "recv_masked"} /\ Flight(s) >= 1 /\ Flight(s)' = Flight(s) - 1
        /\ \A i \in 1 .. (Flight(s) - 1) : Msg(s, i)' = Msg(s, i + 1)
    BY <2>1, ReadView DEF Tasks
  <2>3. ~Early(s) /\ worker[s] \in Tasks
    BY <2>2 DEF Phase, Idle, Early, Tasks
  <2>4. Phase(s)' = "idle" /\ Next1(s)' = cur[s] + 1
    BY <2>1, <2>3, SettleView
  <2>5. \A i \in 1 .. Flight(s)' : i + 1 \in 1 .. Flight(s) /\ Msg(s, i)' = Msg(s, i + 1)
    BY <1>2, <2>2
  <2> QED
    BY <1>1, <2>3, <2>4, <2>5, SourceEnds
<1>11. CASE Flushed(s)
  <2>1. CASE Call(s).api = "ot_receive"
    BY <1>3, <1>11, <2>1, FlushedQuiet
  <2>2. CASE Call(s).api = "ot_send"
    <3>1. UNCHANGED <<plan, choices, cur, out, net>> /\ worker[s] = "flush" /\ \E v : Settle(s, v)
      BY <1>11, <2>2 DEF Flushed, ownerVars, sockVars
    <3>2. ~Early(s) /\ worker[s] \in Tasks
      BY <3>1 DEF Phase, Idle, Early, Tasks
    <3>3. Phase(s)' = "idle" /\ Next1(s)' = cur[s] + 1 /\ SameFlight(s)
      BY <3>1, <3>2, SettleView, FlightStays
    <3>4. \A i \in 1 .. Flight(s)' : i \in 1 .. Flight(s) /\ Msg(s, i)' = Msg(s, i)
      BY <3>3 DEF SameFlight
    <3> QED
      BY <1>1, <3>2, <3>3, <3>4, SourceEnds
  <2> QED
    BY <1>11, <2>1, <2>2 DEF Flushed
<1>12. CASE TaskFails(s)
  <2>1. /\ UNCHANGED <<plan, choices, cur>> /\ Settle(s, Thrown) /\ worker[s] \in Tasks
        /\ worker[s] \in {"begin", "recv_A", "recv_B", "recv_seed"} => CloseSocket(s)
        /\ worker[s] \notin {"begin", "recv_A", "recv_B", "recv_seed"} => UNCHANGED <<out, net, open>>
    BY <1>12 DEF TaskFails, ownerVars, sockVars, Tasks, Waits
  <2>2. worker[s] \in {"recv_eq", "recv_masked", "flush"} /\ UNCHANGED <<out, net>>
    BY <1>2, <2>1 DEF CloseSocket, Functions, Tasks
  <2>3. net[s] = <<>>
    BY <1>12, <2>2, NoMisfit DEF TaskFails, ReadFails, Waits
  <2>4. out[o] = <<>>
    BY <1>0 DEF LocalInv, ProcessOK, SocketOK
  <2>5. Flight(s)' = 0
    BY <2>2, <2>3, <2>4, EmptyIsSeq DEF Flight
  <2>6. Phase(s)' = "idle"
    BY <2>1, SettleView
  <2> QED
    BY <2>5, <2>6, SourceEmpty DEF Met
<1> QED
  BY <1>4, <1>5, <1>6, <1>7, <1>8, <1>9, <1>10, <1>11, <1>12
     DEF Step, OwnerStep, WorkerStep, TaskStep, RecvSeed

\* A closed socket stays closed.
LEMMA StaysClosed ==
  ASSUME NEW s \in Sides, LocalInv, Step(s), open'[s]
  PROVE  open[s]
<1>1. open' = open \/ CloseSocket(s)
  <2>1. CASE OwnerStep(s) \/ SpuriousWakeup(s) \/ Kill(s) \/ TakeTask(s)
    BY <2>1 DEF OwnerStep, Submit, AwaitFuture, Destroy, Join, FlushAndClose, Kill,
                SpuriousWakeup, TakeTask, sockVars
  <2>2. CASE BeginTrivial(s) \/ TaskFails(s)
    BY <2>2 DEF BeginTrivial, TaskFails, sockVars
  <2>3. CASE Write(s) \/ BeginSender(s) \/ BeginReceiver(s) \/ Flushed(s)
    BY <2>3 DEF Write, BeginSender, BeginReceiver, Flushed, sockVars
  <2>4. CASE RecvA(s) \/ RecvB(s) \/ RecvSeed(s) \/ RecvEq(s) \/ RecvMasked(s)
    BY <2>4 DEF RecvA, RecvB, RecvSeed, RecvEq, RecvMasked
  <2> QED
    BY <2>1, <2>2, <2>3, <2>4 DEF Step, WorkerStep, TaskStep
<1>2. CloseSocket(s) => ~open'[s]
  BY DEF CloseSocket, LocalInv, Functions
<1> QED
  BY <1>1, <1>2

\* Every step leaves the messages with the calls they come from.
LEMMA StepSource ==
  ASSUME LocalInv, WireInv, LocalInv', WireInv', NEW s \in Sides, Step(s),
         \A x \in Sides : SourceOK(x)
  PROVE  \A x \in Sides : SourceOK(x)'
<1> DEFINE o == Other(s)
<1>0. o \in Sides /\ o # s /\ Other(o) = s /\ \A x \in Sides : x = s \/ x = o
  BY SideFacts
<1>1. Apart(o) /\ SameSide(o) /\ Grown(s)
  BY PeerApart, FutureView
<1>2. CASE open'[s] /\ open'[o]
  <2>1. InSync'
    BY <1>0, <1>2 DEF WireInv
  <2>2. (\A x \in Sides : Source(x))'
    BY <2>1, SyncSourceNext
  <2> QED
    BY <2>2 DEF SourceOK
<1>3. CASE open'[s] /\ ~open'[o]
  <2>1. open[s] /\ ~open[o]
    BY <1>1, <1>3, StaysClosed DEF Apart
  <2>2. Source(s)'
    BY <1>0, <1>3, <2>1, OwnSource DEF SourceOK
  <2> QED
    BY <1>0, <1>3, <2>2 DEF SourceOK
<1>4. CASE ~open'[s]
  <2>1. Cut(o) /\ NoNews(s) /\ plan' = plan /\ open'[o] = open[o]
    BY <1>1, <1>4, CloserView DEF Apart
  <2>2. open[o] => Source(o)'
    BY <1>0, <1>1, <2>1, SourceCut DEF SourceOK
  <2> QED
    BY <1>0, <1>4, <2>1, <2>2 DEF SourceOK
<1> QED
  BY <1>2, <1>3, <1>4

-----------------------------------------------------------------------------
(* The futures.                                                            *)

\* Both pads of a sender are blocks.
LEMMA PadsTyped ==
  ASSUME NEW s \in Sides, plan \in Plans, NEW k \in DOMAIN Script[s], NEW d \in SenderDraws,
         NEW i \in 1 .. Script[s][k].size, NEW B \in Int
  PROVE  SenderPads(d.a, B, i - 1, d.seed) \in XWord \X XWord
<1>1. Order \in Nat \ {0} /\ d.a \in Int
  BY CurveAssumption
<1>2. \A P \in 0 .. (Order - 1) : Oracle[<<P, i - 1, d.seed>>] \in XWord
  BY OracleAssumption, CurveAssumption DEF Script
<1>3. Mul(B, d.a) \in 0 .. (Order - 1)
  BY <1>1 DEF Mul
<1>4. \A x \in Int : Sub(Mul(B, d.a), x) \in 0 .. (Order - 1)
  BY <1>1, <1>3 DEF Sub
<1>5. Mul(mulGenerator(d.a), d.a) \in Int
  BY <1>1 DEF Mul, mulGenerator
<1> QED
  BY <1>2, <1>3, <1>4, <1>5 DEF SenderPads

\* What send_batch delivers, and to whom.
LEMMA BatchSent ==
  ASSUME NEW s \in Sides, LocalInv, SourceOK(s), RecvB(s), Call(s).api = "send_batch"
  PROVE  /\ \E pads \in [1 .. Call(s).size -> XWord \X XWord] : Settles(s, Value(pads))
         /\ LET o == Other(s) IN
            Speaks(o, cur[s]) /\ cur[s] <= Len(fut[o]) /\ fut[o][cur[s]].is # "value"
<1> DEFINE m == Msg(s, 1)
           pads == [i \in DOMAIN m.v |-> SenderPads(loc[s].a, m.v[i], i - 1, loc[s].seed)]
<1>1. Receive(s, "recv_B") /\ worker[s] = "recv_B" /\ open[s]
  BY DEF RecvB, Receive
<1>2. /\ Head(net[s]) = m /\ MsgOK(m) /\ Flight(s) >= 1
      /\ Expects(s) = <<m.kind, m.n>>
  BY <1>1, ReceiveFacts, FlightType DEF Tasks
<1>3. m.kind = "B" /\ m.n = Call(s).size /\ DOMAIN m.v = 1 .. Call(s).size
  BY <1>1, <1>2 DEF Expects, MsgOK
<1>4. Phase(s) = "recv_B"
  BY <1>1 DEF Phase, Idle
<1>5. /\ Speaks(Other(s), cur[s]) /\ cur[s] <= Len(fut[Other(s)])
      /\ fut[Other(s)][cur[s]].is # "value"
      /\ \A i \in DOMAIN m.v : m.v[i] \in Int
  BY <1>1, <1>2, <1>3, <1>4 DEF SourceOK, Source, AnswerOK
<1>6. Settles(s, Value(pads))
  BY <1>1, <1>2 DEF RecvB, Settles, Tasks, ownerVars
<1>7. loc[s] \in SenderDraws /\ cur[s] \in DOMAIN Script[s] /\ plan \in Plans
  BY <1>1, <1>4, PhaseFacts, CallFacts DEF Tasks, LocalInv, Functions
<1>8. ASSUME NEW i \in 1 .. Call(s).size
      PROVE  SenderPads(loc[s].a, m.v[i], i - 1, loc[s].seed) \in XWord \X XWord
  BY <1>3, <1>5, <1>7, PadsTyped DEF Call
<1>9. pads \in [1 .. Call(s).size -> XWord \X XWord]
  BY <1>3, <1>8
<1> HIDE DEF pads
<1> QED
  BY <1>5, <1>6, <1>9

\* The pads stay what they are.
LEMMA StepPads ==
  ASSUME LocalInv, NEW s \in Sides, Step(s), SourceOK(s), \A x \in Sides : PadsOK(x)
  PROVE  \A x \in Sides : PadsOK(x)'
<1> DEFINE o == Other(s)
<1>0. o \in Sides /\ o # s /\ \A x \in Sides : x = s \/ x = o
  BY SideFacts
<1>1. Apart(o) /\ plan' = plan /\ Script' = Script
  BY PeerApart DEF Apart, Script
<1>2. PadsOK(o)'
  BY <1>0, <1>1 DEF PadsOK, HasValue, Apart
<1>3. PadsOK(s)'
  <2> SUFFICES ASSUME NEW k \in 1 .. Len(fut'[s]), fut'[s][k].is = "value",
                      Script[s][k].api = "send_batch"
               PROVE  fut'[s][k].v \in [1 .. Script[s][k].size -> XWord \X XWord]
    BY <1>1 DEF PadsOK, HasValue
  <2>1. ASSUME k \in 1 .. Len(fut[s]), fut'[s][k] = fut[s][k]
        PROVE  fut'[s][k].v \in [1 .. Script[s][k].size -> XWord \X XWord]
    BY <2>1 DEF PadsOK, HasValue
  <2>2. CASE fut' = fut
    BY <2>1, <2>2
  <2>3. CASE Submit(s)
    <3>1. k \in 1 .. Len(fut[s])
      BY <2>3, SubmitView DEF Pending
    <3> QED
      BY <2>1, <2>3, <3>1, SubmitView
  <2>4. ASSUME NEW v, Settles(s, v), k = cur[s] => v.v \in [1 .. Script[s][k].size -> XWord \X XWord]
        PROVE  fut'[s][k].v \in [1 .. Script[s][k].size -> XWord \X XWord]
    <3>1. /\ fut'[s][cur[s]] = v /\ Len(fut'[s]) = Len(fut[s])
          /\ \A j \in 1 .. Len(fut[s]) : j # cur[s] => fut'[s][j] = fut[s][j]
      BY <2>4, SettleView DEF Settles
    <3> QED
      BY <2>1, <2>4, <3>1
  <2>5. ASSUME NEW v, Settles(s, v), v.is # "value"
        PROVE  fut'[s][k].v \in [1 .. Script[s][k].size -> XWord \X XWord]
    <3>1. fut'[s][cur[s]] = v
      BY <2>5, SettleView DEF Settles
    <3> QED
      BY <2>4, <2>5, <3>1
  <2>6. ASSUME NEW v, Settles(s, v), Call(s).api # "send_batch"
        PROVE  fut'[s][k].v \in [1 .. Script[s][k].size -> XWord \X XWord]
    BY <2>4, <2>6 DEF Call
  <2>7. CASE RecvB(s) /\ Call(s).api = "send_batch"
    <3>1. PICK pads \in [1 .. Call(s).size -> XWord \X XWord] : Settles(s, Value(pads))
      BY <2>7, BatchSent
    <3>2. Value(pads).v = pads
      BY DEF Value
    <3> QED
      BY <2>4, <3>1, <3>2 DEF Call
  <2>8. CASE Settles(s, Thrown)
    BY <2>5, <2>8 DEF Thrown
  <2>9. CASE Trivial(Call(s)) /\ Settles(s, Value(<<>>))
    BY <2>6, <2>9 DEF Trivial
  <2>10. CASE /\ \/ RecvSeed(s) /\ Call(s).api = "recv_batch"
                 \/ Flushed(s) /\ Call(s).api = "ot_send"
              /\ \E x : Settles(s, Value(x))
    BY <2>6, <2>10
  <2>11. CASE RecvMasked(s) /\ \E x : Settles(s, Value(x))
    <3>1. Phase(s) = "recv_masked"
      BY <2>11 DEF RecvMasked, Receive, Phase, Idle
    <3> QED
      BY <2>6, <2>11, <3>1, PhaseFacts
  <2> QED
    BY <2>2, <2>3, <2>7, <2>8, <2>9, <2>10, <2>11, FutureSteps
<1> QED
  BY <1>0, <1>2, <1>3

\* An owner that has stopped has made all its calls, or seen one fail.
LEMMA StepStop ==
  ASSUME LocalInv, LocalInv', NEW s \in Sides, Step(s), \A x \in Sides : StopOK(x)
  PROVE  \A x \in Sides : StopOK(x)'
<1> DEFINE o == Other(s)
<1>0. o \in Sides /\ o # s /\ \A x \in Sides : x = s \/ x = o
  BY SideFacts
<1>1. Apart(o) /\ Script' = Script /\ Grown(s)
  BY PeerApart, FutureView DEF Apart, Script
<1>2. StopOK(o)'
  BY <1>0, <1>1 DEF StopOK, Apart
<1>3. /\ Len(fut[s]) \in Nat /\ Len(fut'[s]) \in Nat /\ Len(fut[s]) <= Len(fut'[s])
      /\ Len(fut'[s]) <= Len(Script[s]) /\ Len(Script[s]) \in Nat /\ Functions
  BY <1>1, ScriptFacts DEF Grown, LocalInv, ProcessOK, QueueOK, Functions
<1> DEFINE Done == Len(fut[s]) = Len(Script[s]) \/ \E k \in 1 .. Len(fut[s]) : fut[s][k].is = "exception"
<1>4. Done => \/ Len(fut'[s]) = Len(Script[s])
              \/ \E k \in 1 .. Len(fut'[s]) : fut'[s][k].is = "exception"
  <2>1. ASSUME NEW k \in 1 .. Len(fut[s]), fut[s][k].is = "exception"
        PROVE  k \in 1 .. Len(fut'[s]) /\ fut'[s][k].is = "exception"
    BY <1>1, <1>3, <2>1 DEF Grown
  <2> QED
    BY <1>3, <2>1
<1>5. /\ owner'[s] = "await" => Len(fut'[s]) >= 1
      /\ owner'[s] \in {"unwind", "join", "flush", "gone"} => Done
  <2>1. CASE owner'[s] = owner[s]
    BY <1>3, <2>1 DEF StopOK
  <2>2. CASE Submit(s)
    BY <1>3, <2>2, SubmitView DEF Submit, Functions
  <2>3. CASE AwaitFuture(s)
    <3>1. owner[s] = "await" /\ (owner'[s] = "run" \/ (owner'[s] = "unwind" /\ Last(s).is = "exception"))
      BY <1>3, <2>3 DEF AwaitFuture, Functions
    <3>2. Len(fut[s]) \in 1 .. Len(fut[s])
      BY <1>3, <3>1 DEF StopOK
    <3> QED
      BY <3>1, <3>2 DEF Last
  <2>4. CASE Destroy(s)
    BY <1>3, <2>4 DEF Destroy, StopOK, Functions
  <2>5. CASE Join(s) \/ FlushAndClose(s)
    BY <1>3, <2>5 DEF Join, FlushAndClose, StopOK, Functions
  <2>6. CASE Kill(s)
    BY <1>3, <2>6 DEF Kill, Functions
  <2>7. CASE WorkerStep(s) \/ Write(s) \/ SpuriousWakeup(s)
    <3>1. owner' = owner
      BY <2>7 DEF WorkerStep, TakeTask, TaskStep, BeginTrivial, BeginSender, BeginReceiver, RecvA, RecvB,
                  RecvSeed, RecvEq, RecvMasked, Flushed, TaskFails, Write, SpuriousWakeup, ownerVars
    <3> QED
      BY <2>1, <3>1
  <2> QED
    BY <2>2, <2>3, <2>4, <2>5, <2>6, <2>7 DEF Step, OwnerStep
<1>6. StopOK(s)'
  BY <1>1, <1>4, <1>5 DEF StopOK
<1> QED
  BY <1>0, <1>2, <1>6

-----------------------------------------------------------------------------
(* Who is to blame for a failure.                                          *)

\* Two senders do not wait for each other.
LEMMA OneSender ==
  ASSUME NEW s \in Sides, LocalInv, BothEarly, Phase(s) = "recv_B"
  PROVE  Phase(Other(s)) # "recv_B"
<1> DEFINE o == Other(s)
<1> SUFFICES ASSUME Phase(o) = "recv_B" PROVE FALSE
  OBVIOUS
<1>0. o \in Sides /\ Other(o) = s /\ plan \in Plans
  BY SideFacts DEF LocalInv, Functions
<1>1. Speaks(s, cur[s]) /\ Next1(s) = cur[s] /\ cur[s] \in Nat /\ Call(s).api \in Senders
  BY PhaseFacts
<1>2. Speaks(o, cur[o]) /\ Next1(o) = cur[o] /\ cur[o] \in Nat /\ Call(o).api \in Senders
  BY <1>0, PhaseFacts
<1>3. SilentFrom(o, cur[s]) /\ SilentFrom(s, cur[o])
  BY <1>0, <1>1, <1>2 DEF BothEarly
<1>4. ~(cur[o] < cur[s])
  <2> SUFFICES ASSUME cur[o] < cur[s] PROVE FALSE
    OBVIOUS
  <2>1. \E k \in Nat : k >= cur[o] /\ Speaks(s, k)
    BY <1>1, <1>2
  <2>2. Speaks(s, cur[o])
    BY <1>0, <1>2, <2>1, MatchFacts
  <2> QED
    BY <1>1, <1>2, <1>3, <2>2 DEF SilentFrom, Speaks
<1>5. ~(cur[s] < cur[o])
  <2> SUFFICES ASSUME cur[s] < cur[o] PROVE FALSE
    OBVIOUS
  <2>1. \E k \in Nat : k >= cur[s] /\ Speaks(o, k)
    BY <1>1, <1>2
  <2>2. Speaks(o, cur[s])
    BY <1>0, <1>1, <2>1, MatchFacts
  <2> QED
    BY <1>1, <1>2, <1>3, <2>2 DEF SilentFrom, Speaks
<1>6. cur[s] = cur[o]
  BY <1>1, <1>2, <1>4, <1>5
<1>7. Call(o).api = Partner(Call(s).api)
  BY <1>0, <1>6, PairFacts
<1> QED
  BY <1>1, <1>2, <1>7 DEF Partner, Senders

\* While both sockets are open no task fails: what comes is what it waits for.
LEMMA NoFail ==
  ASSUME NEW s \in Sides, LocalInv, InSync, WireInv, open[s], open[Other(s)]
  PROVE  ~TaskFails(s)
<1> DEFINE o == Other(s)
           m == Msg(s, 1)
<1> SUFFICES ASSUME TaskFails(s) PROVE FALSE
  OBVIOUS
<1>0. o \in Sides /\ o # s /\ Other(o) = s
  BY SideFacts
<1>1. Waits(s) /\ net[s] # <<>> /\ ~Fits(s)
  BY DEF TaskFails, ReadFails
<1>2. Flight(s) \in Nat /\ Flight(s) >= 1 /\ Head(net[s]) = m
  BY <1>1, FlightType
<1>3. CASE worker[s] = "recv_A"
  <2>1. Phase(s) = "idle"
    BY <1>3 DEF Phase, Idle
  <2>2. BothEarly
    BY <1>0, <1>2, <2>1, SyncCases DEF Lags
  <2>3. Opening(o, 1)
    BY <1>0, <2>2 DEF BothEarly
  <2>4. m.kind = "A" /\ m.n = 0
    BY <1>0, <1>2, <2>3 DEF Opening, IsA
  <2> QED
    BY <1>1, <1>2, <1>3, <2>4 DEF Fits, Expects
<1>4. CASE worker[s] = "recv_B"
  <2>1. Phase(s) = "recv_B"
    BY <1>4 DEF Phase, Idle
  <2>2. ~BothEarly
    <3> SUFFICES ASSUME BothEarly PROVE FALSE
      OBVIOUS
    <3>1. Opening(o, 1) /\ Phase(o) # "recv_B"
      BY <1>0, <2>1, OneSender DEF BothEarly
    <3> QED
      BY <1>0, <1>2, <3>1 DEF Opening
  <2>3. SentB(o)
    BY <1>0, <1>2, <2>1, <2>2, SyncCases DEF Lags
  <2>4. cur[o] = cur[s] /\ Phase(o) = "recv_seed" /\ IsB(o, m)
    BY <1>0, <2>3 DEF SentB, Paired
  <2>5. Call(o).size = Call(s).size
    BY <1>0, <2>1, <2>4, PairFacts
  <2>6. m.kind = "B" /\ m.n = Call(s).size
    BY <2>4, <2>5 DEF IsB
  <2> QED
    BY <1>1, <1>2, <1>4, <2>6 DEF Fits, Expects
<1>5. CASE worker[s] = "recv_seed"
  <2>1. Phase(s) = "recv_seed"
    BY <1>5 DEF Phase, Idle
  <2>2. ~SentB(s)
    BY <1>2 DEF SentB
  <2>3. SentSeed(s) \/ Lags(s)
    BY <2>1, <2>2, SyncCases
  <2>4. \E pads : IsSeed(s, m, pads)
    BY <2>1, <2>3 DEF SentSeed, Lags, LagsSeed, LagsMasked, LagsFlush
  <2>5. m.kind = "seed" /\ m.n = 0 /\ Commit(m.v) = loc[s].comm
    BY <2>4 DEF IsSeed
  <2> QED
    BY <1>1, <1>2, <1>5, <2>5 DEF Fits, Expects
<1>6. CASE worker[s] \in {"recv_eq", "recv_masked"}
  BY <1>1, <1>6, NoMisfit
<1> QED
  BY <1>1, <1>3, <1>4, <1>5, <1>6 DEF Waits

\* A fault stays one, and is one for later calls too.
LEMMA FaultStays ==
  ASSUME plan' = plan, NEW j \in Nat, NEW k \in Nat, j <= k, FaultBy(j)
  PROVE  FaultBy(k) /\ FaultBy(k)'
<1>1. PICK i \in 1 .. j : Ideal!Faulty(i)
  BY DEF FaultBy
<1>2. Ideal!Faulty(i)'
  BY <1>1 DEF Ideal!Faulty, Script
<1> QED
  BY <1>1, <1>2 DEF FaultBy

\* A call that the peer has passed in silence is one that it got wrong.
LEMMA SilentFault ==
  ASSUME NEW s \in Sides, LocalInv, NEW k \in Nat, Speaks(s, k), ~Speaks(Other(s), k)
  PROVE  FaultBy(k)
<1> DEFINE o == Other(s)
<1>0. o \in Sides /\ Other(o) = s /\ plan \in Plans
  BY SideFacts DEF LocalInv, Functions
<1>1. k \in DOMAIN Script[s] /\ ~Mute(Script[s][k]) /\ IsCall(Script[s][k]) /\ k >= 1
  BY <1>0, ScriptFacts DEF Speaks
<1>2. Script[s][k].size # 0
  BY <1>1 DEF IsCall, Mute, Rejected, Trivial, Senders, Receivers
<1>3. CASE k \notin DOMAIN Script[o]
  <2>1. Ideal!Faulty(k)
    BY <1>0, <1>3 DEF Ideal!Faulty, Ideal!Sides, Sides
  <2> QED
    BY <1>1, <2>1 DEF FaultBy
<1>4. CASE k \in DOMAIN Script[o]
  <2>1. Mute(Script[o][k])
    BY <1>0, <1>4, ScriptFacts DEF Speaks
  <2>2. Rejected(Script[o][k]) \/ Script[o][k].size # Script[s][k].size
    BY <1>2, <2>1 DEF Mute, Trivial
  <2>3. Ideal!Faulty(k)
    BY <1>0, <1>1, <1>4, <2>2 DEF Ideal!Faulty, Ideal!Sides, Ideal!Rejected, Ideal!Other, Sides, Rejected, Other
  <2> QED
    BY <1>1, <2>3 DEF FaultBy
<1> QED
  BY <1>3, <1>4

\* If no process was killed, a task fails only in a faulty call or after one.
LEMMA FailBlame ==
  ASSUME NEW s \in Sides, LocalInv, WireInv, kills = 0, TaskFails(s),
         \A x \in Sides : StopOK(x) /\ BlameOK(x)
  PROVE  FaultBy(cur[s])
<1> DEFINE o == Other(s)
<1>0. o \in Sides /\ o # s /\ Other(o) = s /\ \A x \in Sides : x = s \/ x = o
  BY SideFacts
<1>1. worker[s] \in Tasks
  BY DEF TaskFails, Tasks, Waits
<1>2. CASE ~open[s]
  <2>1. owner[s] = "gone" => worker[s] = "gone"
    BY DEF LocalInv, ProcessOK, ThreadsOK
  <2> QED
    BY <1>1, <1>2, <2>1 DEF BlameOK, Tasks
<1>3. CASE open[s] /\ open[o]
  <2>1. InSync
    BY <1>0, <1>3 DEF WireInv
  <2> QED
    BY <1>3, <2>1, NoFail
<1>4. CASE open[s] /\ ~open[o]
  <2>1. owner[o] = "gone" /\ Alone(s)
    BY <1>4 DEF BlameOK
  <2>2. worker[o] = "gone" /\ out[o] = <<>> /\ cur[o] = Len(fut[o]) /\ Len(fut[o]) \in Nat
    <3>1. worker[o] = "gone" /\ tasks[o] = <<>> /\ out[o] = <<>>
      BY <1>0, <1>4, <2>1 DEF LocalInv, ProcessOK, ThreadsOK, SocketOK
    <3>2. Len(tasks[o]) = 0 /\ Len(tasks[o]) = Len(fut[o]) - cur[o] /\ cur[o] \in 0 .. Len(fut[o])
          /\ Len(fut[o]) \in Nat
      BY <1>0, <3>1, EmptyIsSeq DEF LocalInv, ProcessOK, QueueOK, IsSeq
    <3> QED
      BY <3>1, <3>2
  <2>3. Phase(o) = "idle" /\ Next1(o) = Len(fut[o]) + 1
    BY <2>2 DEF Phase, Idle, Next1, Tasks
  <2>4. Waits(s) /\ (net[s] = <<>> \/ ~Fits(s))
    BY <1>4 DEF TaskFails, ReadFails
  <2>5. Len(net[s]) = Flight(s) /\ Flight(s) \in Nat
    BY <2>2, FlightType, EmptyIsSeq DEF Flight
  <2>6. ~Lags(s)
    <3> SUFFICES ASSUME Lags(s) PROVE FALSE
      OBVIOUS
    <3>1. LagsSeed(s) \/ LagsMasked(s)
      BY <2>4 DEF Lags, LagsFlush, Phase, Waits, Idle
    <3>2. Flight(s) = 1
      BY <1>0, <2>3, <3>1 DEF LagsSeed, LagsMasked, Opening
    <3>3. net[s] # <<>> /\ Head(net[s]) = Msg(s, 1)
      BY <2>5, <3>2, FlightType, EmptyIsSeq
    <3>4. CASE LagsSeed(s)
      <4>1. worker[s] = "recv_seed"
        BY <3>4 DEF LagsSeed, Phase
      <4>2. Msg(s, 1).kind = "seed" /\ Msg(s, 1).n = 0 /\ Commit(Msg(s, 1).v) = loc[s].comm
        BY <3>4 DEF LagsSeed, IsSeed
      <4> QED
        BY <2>4, <3>3, <4>1, <4>2 DEF Fits, Expects
    <3>5. CASE LagsMasked(s)
      <4>1. worker[s] = "recv_masked"
        BY <2>4, <3>5 DEF LagsMasked, Phase, Waits
      <4> QED
        BY <2>4, <3>3, <4>1, NoMisfit
    <3> QED
      BY <3>1, <3>4, <3>5
  <2>7. Early(s) /\ SilentFrom(o, Next1(s))
    BY <2>1, <2>6 DEF Alone
  <2>8. Live(s) /\ Next1(s) = cur[s] /\ cur[s] \in Nat /\ cur[s] >= 1 /\ Speaks(s, cur[s])
    <3>1. Live(s)
      BY <2>4 DEF Live, Waits, Tasks
    <3>2. ~Mute(Call(s))
      BY <3>1 DEF LocalInv, ProcessOK, TaskOK
    <3>3. cur[s] \in DOMAIN Script[s] /\ DOMAIN Script[s] = 1 .. Len(Script[s]) /\ cur[s] \in Nat
      BY <1>1, CallFacts, ScriptFacts DEF LocalInv, Functions
    <3> QED
      BY <1>1, <3>1, <3>2, <3>3 DEF Next1, Speaks, Call
  <2>9. CASE ~Speaks(o, cur[s])
    BY <2>8, <2>9, SilentFault
  <2>10. CASE Speaks(o, cur[s])
    <3>1. cur[s] \in 1 .. Len(Script[o]) /\ Len(Script[o]) \in Nat
      BY <1>0, <2>10, ScriptFacts DEF Speaks, LocalInv, Functions
    <3>2. cur[s] > Len(fut[o])
      BY <2>2, <2>3, <2>7, <2>8, <2>10, <3>1 DEF SilentFrom
    <3>3. PICK k \in 1 .. Len(fut[o]) : fut[o][k].is = "exception"
      BY <1>0, <2>1, <2>2, <3>1, <3>2 DEF StopOK
    <3>4. FaultBy(k)
      BY <1>0, <3>3 DEF BlameOK
    <3>5. PICK j \in 1 .. k : Ideal!Faulty(j)
      BY <3>4 DEF FaultBy
    <3>6. j \in 1 .. cur[s]
      BY <2>2, <2>8, <3>2
    <3> QED
      BY <3>5, <3>6 DEF FaultBy
  <2> QED
    BY <2>9, <2>10
<1> QED
  BY <1>2, <1>3, <1>4

\* An owner that has joined its worker leaves nothing unsaid.
LEMMA CloseAlone ==
  ASSUME NEW s \in Sides, LocalInv, WireInv, open[s], open[Other(s)], FlushAndClose(s)
  PROVE  Alone(Other(s))'
<1> DEFINE o == Other(s)
<1>0. o \in Sides /\ o # s /\ Other(o) = s /\ \A x \in Sides : x = s \/ x = o
  BY SideFacts
<1>1. InSync /\ Functions
  BY <1>0 DEF WireInv, LocalInv
<1>2. /\ UNCHANGED <<plan, choices, fut, worker, cur, loc>> /\ CloseSocket(s) /\ out[s] = <<>>
      /\ owner[s] = "flush"
  BY DEF FlushAndClose, taskVars
<1>3. \A x \in Sides : SameSide(x) /\ SameValues(x)
  BY <1>2, SideStays DEF SameValues
<1>4. Phase(s) = "idle" /\ worker[s] = "gone"
  BY <1>2 DEF LocalInv, ProcessOK, ThreadsOK, Phase, Idle
<1>5. Cut(o) /\ Flight(o) \in Nat /\ Flight(s) \in Nat
  BY <1>0, <1>2, FlightCut, FlightType DEF Cut
<1>6. CASE BothEarly
  <2>1. Early(o) /\ SilentFrom(s, Next1(o)) /\ Opening(s, 1)
    BY <1>0, <1>6 DEF BothEarly
  <2>2. Flight(o)' = 0
    BY <1>4, <1>5, <2>1 DEF Opening, Cut
  <2>3. Early(o)' /\ SilentFrom(s, Next1(o))'
    BY <1>2, <2>1 DEF Early, Phase, Call, Script, SilentFrom, Next1, Speaks
  <2> QED
    BY <1>0, <2>2, <2>3 DEF Alone
<1>7. CASE Lags(o)
  <2>1. Flight(s) = 0
    BY <1>0, <1>7 DEF Lags
  <2>2. net[s] = <<>> /\ out[o] = <<>>
    <3>1. /\ Len(net[s]) \in Nat /\ Len(out[o]) \in Nat /\ IsSeq(net[s]) /\ IsSeq(out[o])
          /\ Len(net[s]) + Len(out[o]) = 0
      BY <2>1, FlightType DEF Flight
    <3>2. Len(net[s]) = 0 /\ Len(out[o]) = 0
      <4>1. \A a, b \in Nat : a + b = 0 => a = 0 /\ b = 0
        OBVIOUS
      <4> QED
        BY <3>1, <4>1
    <3> QED
      BY <3>1, <3>2, EmptyIsSeq DEF IsSeq
  <2>3. net'[o] = net[o] /\ out'[s] = out[s] /\ net'[s] = net[s] /\ out'[o] = out[o]
    <3>1. net' = [net EXCEPT ![s] = <<>>, ![o] = SubSeq(@, 1, Len(net[o]))]
          /\ out' = [out EXCEPT ![s] = <<>>]
      BY <1>2, <2>2 DEF CloseSocket
    <3>2. SubSeq(net[o], 1, Len(net[o])) = net[o]
      <4>1. IsSeq(net[o])
        BY <1>0, FlightType
      <4> QED
        BY <4>1, PrefixIsSeq DEF IsSeq
    <3> QED
      BY <1>0, <1>1, <1>2, <2>2, <3>1, <3>2 DEF Functions
  <2>4. \A x \in Sides : SameFlight(x)
    BY <1>0, <2>3, FlightStays
  <2>5. Lags(o)'
    BY <1>0, <1>2, <1>3, <1>7, <2>4, LagsStays
  <2> QED
    BY <2>5 DEF Alone
<1> QED
  BY <1>1, <1>4, <1>6, <1>7, SyncCases

\* s ends the call that its peer had finished before it left.
LEMMA AloneEnds ==
  ASSUME NEW s \in Sides, LocalInv, Lags(s), Apart(Other(s)), Phase(s)' = "idle",
         Next1(s)' = cur[s] + 1, Flight(s)' = 0
  PROVE  Alone(s)'
<1>1. SilentFrom(Other(s), cur[s] + 1)
  BY DEF Lags
<1>2. SilentFrom(Other(s), Next1(s))'
  BY <1>1 DEF SilentFrom, Speaks, Script, Apart, Next1
<1> QED
  BY <1>2 DEF Alone, Early

\* s goes on alone when its peer has left.
LEMMA AloneStep ==
  ASSUME NEW s \in Sides, LocalInv, WireInv, Alone(s), open[s], ~open[Other(s)], open'[s],
         worker[Other(s)] = "gone", Step(s)
  PROVE  Alone(s)'
<1> DEFINE o == Other(s)
<1>0. o \in Sides /\ o # s /\ Other(o) = s /\ \A x \in Sides : x = s \/ x = o
  BY SideFacts
<1>1. Apart(o) /\ plan' = plan /\ SameSide(o) /\ Phase(o) = "idle"
  BY PeerApart DEF Apart, Phase, Idle
<1>2. /\ Functions /\ Flight(s) \in Nat /\ Flight(o) \in Nat /\ out[o] = <<>> /\ Next1(s) \in Nat
      /\ Next1(o) \in Nat
  BY <1>0, FlightType, PhaseFacts DEF LocalInv, ProcessOK, SocketOK
<1>3. ASSUME Quiet, UNCHANGED <<out, net>> \/ Early(s) PROVE Alone(s)'
  <2>1. SameSide(s) /\ SameFlight(s) /\ \A x \in Sides : SameSide(x) /\ SameValues(x)
    BY <1>3 DEF Quiet
  <2>2. CASE Lags(s)
    <3>1. ~Early(s)
      BY <2>2 DEF Lags, LagsSeed, LagsMasked, LagsFlush, Early
    <3>2. \A x \in Sides : SameFlight(x)
      BY <1>3, <3>1, FlightStays
    <3> QED
      BY <1>1, <2>1, <2>2, <3>2, LagsStays DEF Alone
  <2>3. CASE Early(s) /\ SilentFrom(o, Next1(s)) /\ Flight(s) = 0
    <3>1. Early(s)' /\ Flight(s)' = 0 /\ Next1(s)' \in Nat /\ Next1(s) <= Next1(s)'
      BY <1>2, <2>1, <2>3 DEF SameSide, SameFlight, Early
    <3>2. \A i \in 1 .. Len(Script[o])' : Next1(s)' <= i /\ i < Next1(o)' => ~Speaks(o, i)'
      BY <1>0, <1>1, <1>2, <2>3, <3>1, SilentStays
    <3> QED
      BY <3>1, <3>2 DEF Alone, SilentFrom
  <2> QED
    BY <2>2, <2>3 DEF Alone
<1>4. CASE \/ Submit(s) \/ AwaitFuture(s) \/ Destroy(s) \/ Join(s) \/ SpuriousWakeup(s)
           \/ TakeTask(s) \/ BeginTrivial(s) \/ BeginReceiver(s)
  BY <1>3, <1>4, OwnerQuiet, TakeTaskQuiet, BeginQuiet
<1>5. CASE FlushAndClose(s) \/ Kill(s)
  BY <1>2, <1>5 DEF FlushAndClose, Kill, CloseSocket, Functions
<1>6. CASE Write(s)
  <2>1. out[s] # <<>> /\ Quiet
    BY <1>6, WriteQuiet DEF Write
  <2>2. Flight(o) # 0
    <3>1. Len(net[o]) \in Nat /\ Len(out[s]) \in Nat /\ IsSeq(out[s])
      BY <1>0, FlightType
    <3>2. Len(out[s]) # 0
      BY <2>1, <3>1, EmptyIsSeq DEF IsSeq
    <3>3. \A a, b \in Nat : a + b = 0 => b = 0
      OBVIOUS
    <3> QED
      BY <1>0, <3>1, <3>2, <3>3 DEF Flight
  <2>3. Early(s)
    BY <2>2 DEF Alone, Lags
  <2> QED
    BY <1>3, <2>1, <2>3
<1>7. CASE BeginSender(s)
  <2>1. /\ worker[s] = "begin" /\ worker'[s] = "recv_B" /\ net'[s] = net[s] /\ out'[o] = out[o]
        /\ cur'[s] = cur[s]
    BY <1>0, <1>2, <1>7 DEF BeginSender, Goto, Say, Functions
  <2>2. /\ Phase(s) = "idle" /\ Phase(s)' = "recv_B" /\ SameFlight(s) /\ Next1(s)' = Next1(s)
    BY <2>1, FlightStays DEF Phase, Idle, Next1, Tasks
  <2>3. SilentFrom(o, Next1(s)) /\ Flight(s) = 0
    BY <2>2 DEF Alone, Lags, LagsSeed, LagsMasked, LagsFlush
  <2>4. SilentFrom(o, Next1(s))'
    BY <1>1, <2>2, <2>3 DEF SilentFrom, Speaks, Script, Apart, Next1
  <2> QED
    BY <2>2, <2>3, <2>4 DEF Alone, Early, SameFlight
<1>8. ASSUME NEW ph \in {"recv_A", "recv_B", "recv_seed", "recv_eq", "recv_masked"},
             Receive(s, ph)
      PROVE  /\ Lags(s) /\ Flight(s) = 1 /\ ph \in {"recv_seed", "recv_masked"}
             /\ ph = "recv_seed" => Call(s).api = "recv_batch"
  <2>1. Flight(s) >= 1 /\ worker[s] = ph
    BY <1>8, FlightType DEF Receive
  <2>2. Lags(s)
    BY <2>1 DEF Alone
  <2>3. LagsSeed(s) \/ LagsMasked(s)
    BY <1>0, <1>1, <2>1, <2>2 DEF Lags, LagsFlush, Opening
  <2>4. Flight(s) = 1
    BY <1>0, <1>1, <2>3 DEF LagsSeed, LagsMasked, Opening
  <2>5. Waits(s)
    BY <2>1 DEF Waits
  <2>6. worker[s] = Phase(s)
    BY <2>3, <2>5 DEF LagsSeed, LagsMasked, Phase, Waits
  <2> QED
    BY <2>1, <2>2, <2>3, <2>4, <2>6 DEF LagsSeed, LagsMasked
<1>9. CASE RecvA(s) \/ RecvB(s) \/ RecvEq(s)
  BY <1>8, <1>9 DEF RecvA, RecvB, RecvEq
<1>10. CASE RecvSeed(s) \/ RecvMasked(s)
  <2>1. /\ Lags(s) /\ Flight(s) = 1 /\ worker[s] \in Tasks
        /\ Receive(s, "recv_seed") \/ Receive(s, "recv_masked")
        /\ RecvSeed(s) => Call(s).api = "recv_batch"
    BY <1>8, <1>10 DEF RecvSeed, RecvMasked, Tasks, Receive
  <2>2. UNCHANGED <<plan, choices, cur, out>> /\ \E v : Settle(s, v)
    BY <1>10, <2>1 DEF RecvSeed, RecvMasked, ownerVars
  <2>3. Flight(s)' = 0
    BY <2>1, <2>2, ReadView DEF Tasks
  <2>4. Phase(s)' = "idle" /\ Next1(s)' = cur[s] + 1
    BY <2>1, <2>2, SettleView
  <2> QED
    BY <1>1, <2>1, <2>3, <2>4, AloneEnds
<1>11. CASE Flushed(s)
  <2>1. CASE Call(s).api = "ot_receive"
    BY <1>3, <1>11, <2>1, FlushedQuiet
  <2>2. CASE Call(s).api = "ot_send"
    <3>1. UNCHANGED <<plan, choices, cur, out, net>> /\ worker[s] = "flush" /\ \E v : Settle(s, v)
      BY <1>11, <2>2 DEF Flushed, ownerVars, sockVars
    <3>2. Phase(s) = "flush" /\ worker[s] \in Tasks
      BY <2>2, <3>1 DEF Phase, Idle, Tasks
    <3>3. Phase(s)' = "idle" /\ Next1(s)' = cur[s] + 1 /\ SameFlight(s)
      BY <3>1, <3>2, SettleView, FlightStays
    <3>4. Lags(s) /\ LagsFlush(s)
      BY <3>2 DEF Alone, Early, Lags, LagsSeed, LagsMasked
    <3>5. Flight(s) = 0
      BY <1>0, <1>1, <3>4 DEF LagsFlush, Opening
    <3> QED
      BY <1>1, <3>3, <3>4, <3>5, AloneEnds DEF SameFlight
  <2> QED
    BY <1>11, <2>1, <2>2 DEF Flushed
<1>12. CASE TaskFails(s)
  <2>1. /\ UNCHANGED <<plan, choices, cur>> /\ Settle(s, Thrown) /\ worker[s] \in Tasks
        /\ worker[s] \in {"begin", "recv_A", "recv_B", "recv_seed"} => CloseSocket(s)
        /\ worker[s] \notin {"begin", "recv_A", "recv_B", "recv_seed"} => UNCHANGED <<out, net, open>>
    BY <1>12 DEF TaskFails, ownerVars, sockVars, Tasks, Waits
  <2>2. worker[s] \in {"recv_eq", "recv_masked", "flush"} /\ UNCHANGED <<out, net>>
    BY <1>2, <2>1 DEF CloseSocket, Functions, Tasks
  <2>3. net[s] = <<>>
    BY <1>12, <2>2, NoMisfit DEF TaskFails, ReadFails, Waits
  <2>4. Flight(s)' = 0
    BY <1>2, <2>2, <2>3, EmptyIsSeq DEF Flight
  <2>5. Phase(s)' = "idle" /\ Next1(s)' = cur[s] + 1
    BY <2>1, SettleView
  <2>6. Lags(s)
    BY <2>2 DEF Alone, Early, Phase, Idle
  <2> QED
    BY <1>1, <2>4, <2>5, <2>6, AloneEnds
<1> QED
  BY <1>4, <1>5, <1>6, <1>7, <1>9, <1>10, <1>11, <1>12
     DEF Step, OwnerStep, WorkerStep, TaskStep

\* A process that has gone takes no step.
LEMMA GoneStops ==
  ASSUME NEW s \in Sides, LocalInv, owner[s] = "gone"
  PROVE  ~Step(s)
<1>1. worker[s] = "gone"
  BY DEF LocalInv, ProcessOK, ThreadsOK
<1>2. ~(OwnerStep(s) \/ Write(s) \/ SpuriousWakeup(s) \/ Kill(s) \/ TakeTask(s))
  BY <1>1 DEF OwnerStep, Submit, AwaitFuture, Destroy, Join, FlushAndClose, Kill, Write, LoopFree,
              SpuriousWakeup, TakeTask
<1>3. ~(BeginTrivial(s) \/ BeginSender(s) \/ BeginReceiver(s) \/ Flushed(s) \/ TaskFails(s))
  BY <1>1 DEF BeginTrivial, BeginSender, BeginReceiver, Flushed, TaskFails, Waits
<1>4. ~(RecvA(s) \/ RecvB(s) \/ RecvSeed(s) \/ RecvEq(s) \/ RecvMasked(s))
  BY <1>1 DEF RecvA, RecvB, RecvSeed, RecvEq, RecvMasked, Receive
<1> QED
  BY <1>2, <1>3, <1>4 DEF Step, WorkerStep, TaskStep

\* Who closes a socket.
LEMMA Closers ==
  ASSUME NEW s \in Sides, LocalInv, Step(s), open[s], ~open'[s]
  PROVE  FlushAndClose(s) \/ Kill(s) \/ TaskFails(s)
<1>1. ~(Submit(s) \/ AwaitFuture(s) \/ Destroy(s) \/ Join(s) \/ Write(s) \/ SpuriousWakeup(s)
        \/ TakeTask(s))
  BY DEF Submit, AwaitFuture, Destroy, Join, Write, SpuriousWakeup, TakeTask, sockVars
<1>2. ~(BeginTrivial(s) \/ BeginSender(s) \/ BeginReceiver(s) \/ Flushed(s))
  BY DEF BeginTrivial, BeginSender, BeginReceiver, Flushed, sockVars
<1>3. ~(RecvA(s) \/ RecvB(s) \/ RecvSeed(s) \/ RecvEq(s) \/ RecvMasked(s))
  BY DEF RecvA, RecvB, RecvSeed, RecvEq, RecvMasked
<1> QED
  BY <1>1, <1>2, <1>3 DEF Step, OwnerStep, WorkerStep, TaskStep

\* The calls are taken in order, and only a kill is counted.
LEMMA CurGrows ==
  ASSUME NEW s \in Sides, LocalInv, Step(s)
  PROVE  /\ cur[s] \in Nat /\ cur'[s] \in Nat /\ cur[s] <= cur'[s]
         /\ kills \in Nat /\ ((Kill(s) /\ kills' = kills + 1) \/ kills' = kills)
<1>1. cur[s] \in Nat /\ kills \in Nat /\ Functions /\ QueueOK(s)
  BY PhaseFacts DEF LocalInv, Functions, ProcessOK
<1>2. CASE TakeTask(s)
  <2>1. cur'[s] = cur[s] \/ (tasks[s] # <<>> /\ cur'[s] = Head(tasks[s]))
    BY <1>1, <1>2 DEF TakeTask, Functions
  <2>2. tasks[s] # <<>> => Head(tasks[s]) = cur[s] + 1
    <3> SUFFICES ASSUME tasks[s] # <<>> PROVE Head(tasks[s]) = cur[s] + 1
      OBVIOUS
    <3>1. Len(tasks[s]) \in Nat /\ Len(tasks[s]) >= 1 /\ Head(tasks[s]) = tasks[s][1]
      BY <1>1, TailIsSeq DEF QueueOK, IsSeq
    <3>2. 1 \in 1 .. Len(tasks[s])
      BY <3>1
    <3> QED
      BY <1>1, <3>1, <3>2 DEF QueueOK
  <2>3. kills' = kills
    BY <1>2 DEF TakeTask
  <2> QED
    BY <1>1, <2>1, <2>2, <2>3
<1>3. CASE OwnerStep(s) \/ Write(s) \/ SpuriousWakeup(s)
  BY <1>1, <1>3 DEF OwnerStep, Submit, AwaitFuture, Destroy, Join, FlushAndClose, Write,
                    SpuriousWakeup, taskVars
<1>4. CASE Kill(s)
  BY <1>1, <1>4 DEF Kill, taskVars
<1>5. CASE BeginTrivial(s) \/ BeginSender(s) \/ BeginReceiver(s) \/ Flushed(s) \/ TaskFails(s)
  BY <1>1, <1>5 DEF BeginTrivial, BeginSender, BeginReceiver, Flushed, TaskFails
<1>6. CASE RecvA(s) \/ RecvB(s) \/ RecvSeed(s) \/ RecvEq(s) \/ RecvMasked(s)
  BY <1>1, <1>6, SMTT(60) DEF RecvA, RecvB, RecvSeed, RecvEq, RecvMasked, taskVars
<1> QED
  BY <1>2, <1>3, <1>4, <1>5, <1>6 DEF Step, WorkerStep, TaskStep

\* A call fails for a reason.
LEMMA StepBlame ==
  ASSUME LocalInv, WireInv, NEW s \in Sides, Step(s), \A x \in Sides : StopOK(x) /\ BlameOK(x)
  PROVE  \A x \in Sides : BlameOK(x)'
<1> DEFINE o == Other(s)
<1>0. o \in Sides /\ o # s /\ Other(o) = s /\ \A x \in Sides : x = s \/ x = o
  BY SideFacts
<1> SUFFICES ASSUME kills' = 0 PROVE BlameOK(s)' /\ BlameOK(o)'
  BY <1>0 DEF BlameOK
<1>1. kills = 0 /\ ~Kill(s) /\ cur[s] \in Nat /\ cur'[s] \in Nat /\ cur[s] <= cur'[s]
  <2>1. kills \in Nat /\ ((Kill(s) /\ kills' = kills + 1) \/ kills' = kills)
        /\ (Kill(s) => kills' = kills + 1)
    BY CurGrows DEF Kill
  <2> QED
    BY <2>1, CurGrows
<1>2. Apart(o) /\ plan' = plan /\ owner[s] # "gone"
  BY PeerApart, GoneStops DEF Apart
<1>3. \A x \in Sides : Len(fut[x]) \in Nat
  BY DEF LocalInv, ProcessOK, QueueOK, IsSeq
<1>4. ASSUME NEW x \in Sides, NEW k \in 1 .. Len(fut[x]), fut[x][k].is = "exception"
      PROVE  FaultBy(k)'
  <2>1. FaultBy(k) /\ k \in Nat /\ k <= k
    BY <1>1, <1>3, <1>4 DEF BlameOK
  <2> QED
    BY <1>2, <2>1, FaultStays
<1>5. ASSUME open[s], ~open'[s]
      PROVE  (FlushAndClose(s) /\ owner'[s] = "gone") \/ TaskFails(s)
  <2>1. FlushAndClose(s) => owner'[s] = "gone"
    BY DEF FlushAndClose, LocalInv, Functions
  <2> QED
    BY <1>1, <1>5, <2>1, Closers
<1>6. BlameOK(o)'
  <2>1. \A k \in 1 .. Len(fut'[o]) : fut'[o][k].is = "exception" => FaultBy(k)'
    BY <1>0, <1>2, <1>4 DEF Apart
  <2>2. ~open'[o] => owner'[o] = "gone" \/ FaultBy(cur[o])'
    <3> SUFFICES ASSUME ~open[o], FaultBy(cur[o]) PROVE FaultBy(cur[o])'
      BY <1>0, <1>1, <1>2 DEF Apart, BlameOK
    <3>1. cur[o] \in Nat /\ cur[o] <= cur[o] /\ cur'[o] = cur[o]
      BY <1>0, <1>2, PhaseFacts DEF Apart
    <3> DEFINE c == cur[o]
    <3>2. c \in Nat /\ c <= c /\ FaultBy(c)
      BY <3>1
    <3> HIDE DEF c
    <3>3. PICK i \in 1 .. c : Ideal!Faulty(i)
      BY <3>2 DEF FaultBy
    <3>4. Ideal!Faulty(i)'
      BY <1>2, <3>3 DEF Ideal!Faulty, Script
    <3> QED
      BY <3>1, <3>3, <3>4 DEF FaultBy, c
  <2>3. ASSUME open'[o], ~open'[s] PROVE owner'[s] = "gone" /\ Alone(o)'
    <3>1. open[o] /\ open[s]
      BY <1>0, <1>1, <1>2, <2>3 DEF Apart, BlameOK
    <3>2. InSync
      BY <1>0, <3>1 DEF WireInv
    <3>3. ~TaskFails(s)
      BY <3>1, <3>2, NoFail
    <3>4. FlushAndClose(s) /\ owner'[s] = "gone"
      BY <1>5, <2>3, <3>1, <3>3
    <3> QED
      BY <3>1, <3>4, CloseAlone
  <2> QED
    BY <1>0, <2>1, <2>2, <2>3 DEF BlameOK
<1>7. BlameOK(s)'
  <2>1. ASSUME NEW k \in 1 .. Len(fut'[s]), fut'[s][k].is = "exception" PROVE FaultBy(k)'
    <3>1. ASSUME k \in 1 .. Len(fut[s]), fut'[s][k] = fut[s][k] PROVE FaultBy(k)'
      BY <1>4, <2>1, <3>1
    <3>2. CASE fut' = fut
      BY <2>1, <3>1, <3>2
    <3>3. CASE Submit(s)
      <4>1. k \in 1 .. Len(fut[s])
        BY <2>1, <3>3, SubmitView DEF Pending
      <4> QED
        BY <3>1, <3>3, <4>1, SubmitView
    <3>4. ASSUME NEW v, Settles(s, v), k = cur[s] => v.is # "exception" \/ FaultBy(k)
          PROVE  FaultBy(k)'
      <4>1. /\ fut'[s][cur[s]] = v /\ Len(fut'[s]) = Len(fut[s])
            /\ \A j \in 1 .. Len(fut[s]) : j # cur[s] => fut'[s][j] = fut[s][j]
        BY <3>4, SettleView DEF Settles
      <4>2. k \in 1 .. Len(fut[s]) /\ k \in Nat /\ k <= k
        BY <1>3, <4>1
      <4>3. CASE k # cur[s]
        BY <3>1, <4>1, <4>2, <4>3
      <4>4. CASE k = cur[s]
        <5>1. FaultBy(k)
          BY <2>1, <3>4, <4>1, <4>4
        <5> QED
          BY <1>2, <4>2, <5>1, FaultStays
      <4> QED
        BY <4>3, <4>4
    <3>5. CASE Rejected(Call(s)) /\ Settles(s, Thrown)
      <4>1. Ideal!Faulty(cur[s])
        BY <3>5 DEF Ideal!Faulty, Ideal!Sides, Ideal!Rejected, Sides, Rejected, Call
      <4>2. k = cur[s] => FaultBy(k)
        BY <1>1, <2>1, <4>1 DEF FaultBy
      <4> QED
        BY <3>4, <3>5, <4>2
    <3>6. CASE TaskFails(s) /\ Settles(s, Thrown)
      <4>1. FaultBy(cur[s])
        BY <1>1, <3>6, FailBlame
      <4> QED
        BY <3>4, <3>6, <4>1
    <3>7. ASSUME NEW x, Settles(s, Value(x)) PROVE FaultBy(k)'
      <4>1. Value(x).is # "exception"
        BY DEF Value
      <4> QED
        BY <3>4, <3>7, <4>1
    <3> QED
      BY <3>2, <3>3, <3>5, <3>6, <3>7, FutureSteps
  <2>2. ASSUME ~open'[s] PROVE owner'[s] = "gone" \/ FaultBy(cur[s])'
    <3>1. CASE open[s] /\ FlushAndClose(s)
      BY <1>5, <2>2, <3>1 DEF FlushAndClose, LocalInv, Functions
    <3>2. CASE ~open[s] \/ TaskFails(s)
      <4>1. FaultBy(cur[s])
        BY <1>1, <1>2, <3>2, FailBlame DEF BlameOK
      <4> DEFINE c == cur[s]
                 d == cur'[s]
      <4>2. c \in Nat /\ d \in Nat /\ c <= d /\ FaultBy(c)
        BY <1>1, <4>1
      <4> HIDE DEF c, d
      <4>3. PICK i \in 1 .. c : Ideal!Faulty(i)
        BY <4>2 DEF FaultBy
      <4>4. i \in 1 .. d /\ Ideal!Faulty(i)'
        BY <1>2, <4>2, <4>3 DEF Ideal!Faulty, Script
      <4> QED
        BY <4>4 DEF FaultBy, d
    <3> QED
      BY <1>5, <2>2, <3>1, <3>2
  <2>3. ASSUME open'[s], ~open'[o] PROVE owner'[o] = "gone" /\ Alone(s)'
    <3>1. open[s] /\ ~open[o]
      BY <1>2, <2>3, StaysClosed DEF Apart
    <3>2. owner[o] = "gone" /\ Alone(s)
      BY <1>1, <3>1 DEF BlameOK
    <3>3. worker[o] = "gone"
      BY <1>0, <3>2 DEF LocalInv, ProcessOK, ThreadsOK
    <3> QED
      BY <1>2, <2>3, <3>1, <3>2, <3>3, AloneStep DEF Apart
  <2> QED
    BY <2>1, <2>2, <2>3 DEF BlameOK
<1> QED
  BY <1>6, <1>7

-----------------------------------------------------------------------------
(* The steps of IdealOT.                                                   *)

\* Every manager starts in order.
LEMMA InitRef == Init => RefInv
<1> SUFFICES ASSUME Init PROVE RefInv
  OBVIOUS
<1>1. OTInv /\ LocalInv /\ WireInv
  BY InitOT DEF OTInv
<1>2. \A s \in Sides : open[s] /\ fut[s] = <<>> /\ owner[s] = "run"
  BY DEF Init
<1>3. InSync
  BY <1>1, <1>2 DEF WireInv
<1>4. ASSUME NEW s \in Sides PROVE SourceOK(s) /\ PadsOK(s) /\ StopOK(s) /\ BlameOK(s)
  <2>1. Source(s)
    BY <1>1, <1>3, SyncSource
  <2>2. Len(fut[s]) = 0 /\ Other(s) \in Sides
    BY <1>2, EmptyIsSeq, SideFacts
  <2> QED
    BY <1>2, <2>1, <2>2 DEF SourceOK, PadsOK, StopOK, BlameOK
<1> QED
  BY <1>1, <1>4 DEF RefInv

\* Every step keeps them so.
LEMMA NextRef == RefInv /\ [Next]_vars => RefInv'
<1> SUFFICES ASSUME RefInv, [Next]_vars PROVE RefInv'
  OBVIOUS
<1>1. OTInv /\ LocalInv /\ WireInv /\ OTInv' /\ LocalInv' /\ WireInv'
  BY NextOT DEF RefInv, OTInv
<1>2. CASE UNCHANGED vars
  <2>1. ASSUME NEW s \in Sides
        PROVE  SourceOK(s)' /\ PadsOK(s)' /\ StopOK(s)' /\ BlameOK(s)'
    <3>1. SourceOK(s)' = SourceOK(s)
      BY <1>2 DEF vars, SourceOK, Source, Met, AnswerOK, SeedOK, OpenerOK, Begun, Phase, Next1, Flight, Msg,
                  Speaks, SilentFrom, IsSeed, Call, Script
    <3>2. PadsOK(s)' = PadsOK(s) /\ StopOK(s)' = StopOK(s)
      BY <1>2 DEF vars, PadsOK, StopOK, HasValue, Script
    <3>3. BlameOK(s)' = BlameOK(s)
      BY <1>2 DEF vars, BlameOK, FaultBy, Ideal!Faulty, Alone, Early, Lags, LagsSeed, LagsMasked,
                  LagsFlush, Opening, IsA, IsSeed, IsMasked, Phase, Next1, Flight, Msg, Speaks,
                  SilentFrom, Call, Script
    <3> QED
      BY <3>1, <3>2, <3>3 DEF RefInv
  <2> QED
    BY <1>1, <2>1 DEF RefInv
<1>3. ASSUME NEW s \in Sides, Step(s)
      PROVE  RefInv'
  BY <1>1, <1>3, StepSource, StepPads, StepStop, StepBlame DEF RefInv
<1> QED
  BY <1>2, <1>3 DEF Next, Step

\* The two specifications share the interface.
LEMMA IdealNames ==
  /\ Ideal!Sides = Sides /\ Ideal!XWord = XWord
  /\ Ideal!Pending = Pending /\ Ideal!Thrown = Thrown
  /\ \A v : Ideal!Value(v) = Value(v)
  /\ \A s : Ideal!Other(s) = Other(s)
  /\ \A c : /\ Ideal!Rejected(c) = Rejected(c) /\ Ideal!Trivial(c) = Trivial(c)
            /\ Ideal!ChoicesOf(c) = ChoicesOf(c) /\ Ideal!Mute(c) = Mute(c)
  /\ \A p, q : Ideal!Pick(p, q) = Pick(p, q)
BY DEF Ideal!Sides, Sides, Ideal!XWord, XWord, Ideal!Pending, Pending, Ideal!Thrown, Thrown,
       Ideal!Value, Value, Ideal!Other, Other, Ideal!Rejected, Rejected, Ideal!Trivial, Trivial,
       Ideal!ChoicesOf, ChoicesOf, Ideal!Receivers, Receivers, Ideal!Pick, Pick,
       Ideal!Mute, Mute

\* The call that the task of s runs is the oldest without a result.
LEMMA OldestCall ==
  ASSUME NEW s \in Sides, LocalInv, worker[s] \in Tasks
  PROVE  /\ Ideal!Oldest(s, cur[s]) /\ cur[s] \in 1 .. Len(fut[s])
<1>1. cur[s] \in 1 .. Len(fut[s]) /\ cur[s] \in Nat /\ Len(fut[s]) \in Nat
  BY CallFacts, PhaseFacts
<1>2. fut[s][cur[s]] = Pending /\ \A k \in 1 .. Len(fut[s]) : k < cur[s] => fut[s][k].is # "pending"
  BY DEF LocalInv, ProcessOK, FuturesOK
<1>3. Pending.is = "pending"
  BY DEF Pending
<1>4. \A j \in 1 .. cur[s] - 1 : j \in 1 .. Len(fut[s]) /\ j < cur[s]
  BY <1>1
<1>5. \A j \in 1 .. cur[s] - 1 : fut[s][j] # Pending
  BY <1>2, <1>3, <1>4
<1> QED
  BY <1>1, <1>2, <1>5, IdealNames DEF Ideal!Oldest, Ideal!Made

\* The task of s delivers what the trusted party may deliver, ...
LEMMA Delivers ==
  ASSUME NEW s \in Sides, LocalInv, NEW x, Settles(s, Value(x)), x \in Ideal!Outcomes(s, cur[s])
  PROVE  Ideal!Next
<1>1. Ideal!Oldest(s, cur[s]) /\ cur[s] \in 1 .. Len(fut[s])
  BY OldestCall DEF Settles
<1>2. fut' = [fut EXCEPT ![s][cur[s]] = Value(x)] /\ UNCHANGED <<Script, choices, kills>>
  BY DEF Settles, Settle, Script
<1>3. Ideal!Deliver(s, cur[s])
  BY <1>1, <1>2, IdealNames DEF Ideal!Deliver
<1> QED
  BY <1>1, <1>3, IdealNames DEF Ideal!Next

\* ... or fails for a reason.
LEMMA Fails ==
  ASSUME NEW s \in Sides, LocalInv, Settles(s, Thrown), kills > 0 \/ FaultBy(cur[s])
  PROVE  Ideal!Next
<1>1. Ideal!Oldest(s, cur[s]) /\ cur[s] \in 1 .. Len(fut[s])
  BY OldestCall DEF Settles
<1>2. fut' = [fut EXCEPT ![s][cur[s]] = Thrown] /\ UNCHANGED <<Script, choices, kills>>
  BY DEF Settles, Settle, Script
<1>3. Ideal!Fail(s, cur[s])
  BY <1>1, <1>2, IdealNames DEF Ideal!Fail, FaultBy
<1> QED
  BY <1>1, <1>3, IdealNames DEF Ideal!Next

\* What the trusted party may deliver for a call that transfers something.
LEMMA OutcomeCases ==
  ASSUME NEW s \in Sides, LocalInv, NEW k \in Nat, Speaks(s, k), k <= Len(fut[Other(s)]), NEW x
  PROVE  LET c == Script[s][k]
             o == Other(s)
         IN  /\ c.api = "ot_send" /\ x = c.msgs => x \in Ideal!Outcomes(s, k)
             /\ c.api = "ot_receive" /\ x = Pick(Script[o][k].msgs, choices[s][k])
                  => x \in Ideal!Outcomes(s, k)
             /\ /\ c.api = "send_batch" /\ x \in [1 .. c.size -> XWord \X XWord]
                /\ fut[o][k].is # "value"
                => x \in Ideal!Outcomes(s, k)
             /\ /\ c.api = "recv_batch" /\ x \in [1 .. c.size -> XWord]
                /\ x = Pick(fut[o][k].v, choices[s][k])
                => x \in Ideal!Outcomes(s, k)
<1> DEFINE c == Script[s][k]
           o == Other(s)
<1>1. ~Rejected(c) /\ ~Trivial(c) /\ ~Mute(c)
  BY DEF Speaks, Mute
<1>2. Ideal!Made(o, k)
  BY DEF Ideal!Made
<1>3. c.api = "ot_send" => Ideal!Outcomes(s, k) = {c.msgs}
  BY <1>1, <1>2, IdealNames DEF Ideal!Outcomes
<1>4. c.api = "ot_receive" => Ideal!Outcomes(s, k) = {Pick(Script[o][k].msgs, choices[s][k])}
  BY <1>1, <1>2, IdealNames DEF Ideal!Outcomes
<1>5. c.api = "send_batch" =>
        Ideal!Outcomes(s, k) = {v \in [1 .. c.size -> XWord \X XWord] :
                                  Ideal!Held(o, k) => fut[o][k].v = Pick(v, choices[o][k])}
  BY <1>1, <1>2, IdealNames DEF Ideal!Outcomes
<1>6. c.api = "recv_batch" =>
        Ideal!Outcomes(s, k) = {v \in [1 .. c.size -> XWord] :
                                  Ideal!Held(o, k) => v = Pick(fut[o][k].v, choices[s][k])}
  BY <1>1, <1>2, IdealNames DEF Ideal!Outcomes
<1>7. Ideal!Held(o, k) => fut[o][k].is = "value"
  BY DEF Ideal!Held
<1> QED
  BY <1>3, <1>4, <1>5, <1>6, <1>7

\* What recv_batch delivers is what its caller chose of its peer's pads.
LEMMA BatchReceived ==
  ASSUME NEW s \in Sides, LocalInv, SourceOK(s), PadsOK(Other(s)), RecvSeed(s),
         Call(s).api = "recv_batch"
  PROVE  \E x : Settles(s, Value(x)) /\ x \in Ideal!Outcomes(s, cur[s])
<1> DEFINE o == Other(s)
           m == Msg(s, 1)
           l == loc[s]
           N == Call(s).size
           pads == fut[o][cur[s]].v
           r_q == [i \in DOMAIN l.q |-> ReceiverPad(l.A, l.b[i], i - 1, m.v)]
<1>0. o \in Sides /\ Other(o) = s /\ plan \in Plans
  BY SideFacts DEF LocalInv, Functions
<1>1. Receive(s, "recv_seed") /\ worker[s] = "recv_seed" /\ open[s] /\ worker[s] \in Tasks
  BY DEF RecvSeed, Receive, Tasks
<1>2. Head(net[s]) = m /\ Flight(s) >= 1
  BY <1>1, ReceiveFacts, FlightType DEF Tasks
<1>3. Phase(s) = "recv_seed"
  BY <1>1 DEF Phase, Idle
<1>4. Speaks(o, cur[s]) /\ cur[s] <= Len(fut[o]) /\ fut[o][cur[s]].is = "value" /\ IsSeed(s, m, pads)
  BY <1>1, <1>2, <1>3 DEF SourceOK, Source, Met, SeedOK
<1>5. Speaks(s, cur[s]) /\ cur[s] \in Nat /\ cur[s] \in 1 .. Len(fut[o]) /\ Len(fut[o]) \in Nat
  BY <1>0, <1>3, <1>4, PhaseFacts
<1>6. Script[o][cur[s]].api = "send_batch" /\ Script[o][cur[s]].size = N
  <2>1. \E k \in Nat : k >= cur[s] /\ Speaks(o, k)
    BY <1>4, <1>5
  <2>2. Script[o][cur[s]].api = Partner(Call(s).api) /\ Call(s).size = Script[o][cur[s]].size
    BY <1>0, <1>5, <2>1, MatchFacts DEF Call
  <2> QED
    BY <2>2 DEF Partner
<1>7. pads \in [1 .. N -> XWord \X XWord]
  BY <1>4, <1>5, <1>6 DEF PadsOK, HasValue
<1>8. l.q \in [1 .. N -> BOOLEAN] /\ l.q = choices[s][cur[s]]
  BY <1>1 DEF LocalInv, ProcessOK, TaskOK
<1>9. ASSUME NEW i \in 1 .. N
      PROVE  /\ ReceiverPad(l.A, l.b[i], i - 1, m.v) = pads[i][IF l.q[i] THEN 2 ELSE 1]
             /\ pads[i][IF l.q[i] THEN 2 ELSE 1] \in XWord
  BY <1>4, <1>7, <1>8 DEF IsSeed, Side
<1>10. r_q \in [1 .. N -> XWord] /\ r_q = Pick(pads, choices[s][cur[s]])
  <2>1. DOMAIN l.q = 1 .. N
    BY <1>8
  <2> QED
    BY <1>8, <1>9, <2>1 DEF Pick
<1>11. Settles(s, Value(r_q))
  BY <1>1, <1>2 DEF RecvSeed, Settles, ownerVars
<1> HIDE DEF r_q
<1>12. r_q \in Ideal!Outcomes(s, cur[s])
  BY <1>4, <1>5, <1>10, OutcomeCases DEF Call
<1> QED
  BY <1>11, <1>12

\* Nothing is delivered where there is nothing to transfer.
LEMMA TrivialOutcome ==
  ASSUME NEW s, NEW k, Trivial(Script[s][k])
  PROVE  <<>> \in Ideal!Outcomes(s, k)
<1>1. ~Rejected(Script[s][k]) /\ Mute(Script[s][k])
  BY DEF Trivial, Rejected, Mute
<1>2. Ideal!Outcomes(s, k) = {<<>>}
  BY <1>1, IdealNames DEF Ideal!Outcomes
<1> QED
  BY <1>2

\* Every step of the managers is one of the trusted party, or unseen.
LEMMA StepIdeal ==
  ASSUME RefInv, NEW s \in Sides, Step(s), \A x \in Sides : ChosenOK(x)'
  PROVE  Ideal!Next \/ UNCHANGED Ideal!ivars
<1> DEFINE o == Other(s)
<1>0. o \in Sides /\ o # s /\ Other(o) = s
  BY SideFacts
<1>1. LocalInv /\ WireInv /\ plan' = plan /\ UNCHANGED Script
      /\ \A x \in Sides : SourceOK(x) /\ PadsOK(x) /\ StopOK(x) /\ BlameOK(x)
  BY PeerApart DEF RefInv, OTInv, Apart, Script
<1>2. kills \in Nat /\ ((Kill(s) /\ kills' = kills + 1) \/ kills' = kills)
  BY <1>1, CurGrows
<1>3. CASE Submit(s)
  <2>1. Ideal!Make(s)
    BY <1>1, <1>3, IdealNames DEF Submit, Ideal!Make
  <2> QED
    BY <2>1, IdealNames DEF Ideal!Next
<1>4. CASE Kill(s)
  <2>1. UNCHANGED <<Script, choices, fut>> /\ kills' > 0
    BY <1>1, <1>2, <1>4 DEF Kill
  <2> QED
    BY <2>1 DEF Ideal!Next, Ideal!Die
<1>5. CASE fut' = fut /\ ~Submit(s) /\ ~Kill(s)
  <2>1. choices' = choices
    <3>1. CASE OwnerStep(s) \/ Write(s) \/ SpuriousWakeup(s) \/ TakeTask(s)
      BY <1>5, <3>1 DEF OwnerStep, AwaitFuture, Destroy, Join, FlushAndClose, Write, SpuriousWakeup,
                        TakeTask, ownerVars
    <3>2. CASE TaskStep(s)
      BY <3>2 DEF TaskStep, BeginTrivial, BeginSender, BeginReceiver, RecvA, RecvB, RecvSeed, RecvEq,
                  RecvMasked, Flushed, TaskFails, ownerVars
    <3> QED
      BY <1>5, <3>1, <3>2 DEF Step, WorkerStep
  <2> QED
    BY <1>1, <1>2, <1>5, <2>1 DEF Ideal!ivars
<1>6. CASE Rejected(Call(s)) /\ Settles(s, Thrown)
  <2>1. Ideal!Faulty(cur[s]) /\ cur[s] \in Nat /\ cur[s] >= 1
    BY <1>1, <1>6, CallFacts DEF Ideal!Faulty, Ideal!Sides, Ideal!Rejected, Sides, Rejected, Call, Settles
  <2>2. FaultBy(cur[s])
    BY <2>1 DEF FaultBy
  <2> QED
    BY <1>1, <1>6, <2>2, Fails
<1>7. CASE TaskFails(s) /\ Settles(s, Thrown)
  <2>1. kills > 0 \/ FaultBy(cur[s])
    BY <1>1, <1>2, <1>7, FailBlame
  <2> QED
    BY <1>1, <1>7, <2>1, Fails
<1>8. CASE Trivial(Call(s)) /\ Settles(s, Value(<<>>))
  BY <1>1, <1>8, TrivialOutcome, Delivers DEF Call
<1>9. CASE RecvB(s) /\ Call(s).api = "send_batch"
  <2>1. PICK pads \in [1 .. Call(s).size -> XWord \X XWord] : Settles(s, Value(pads))
    BY <1>1, <1>9, BatchSent
  <2>2. cur[s] <= Len(fut[o]) /\ fut[o][cur[s]].is # "value"
    BY <1>1, <1>9, BatchSent
  <2>3. Speaks(s, cur[s]) /\ cur[s] \in Nat
    <3>1. Phase(s) = "recv_B"
      BY <1>9 DEF RecvB, Receive, Phase, Idle
    <3> QED
      BY <1>1, <3>1, PhaseFacts
  <2>4. pads \in Ideal!Outcomes(s, cur[s])
    BY <1>1, <1>9, <2>2, <2>3, OutcomeCases DEF Call
  <2> QED
    BY <1>1, <2>1, <2>4, Delivers
<1>10. CASE RecvSeed(s) /\ Call(s).api = "recv_batch"
  BY <1>0, <1>1, <1>10, BatchReceived, Delivers
<1>11. CASE Flushed(s) /\ Call(s).api = "ot_send"
  <2>1. Settles(s, Value(Call(s).msgs)) /\ open[s] /\ worker[s] = "flush"
    BY <1>11 DEF Flushed, Settles, Tasks, ownerVars
  <2>2. Phase(s) = "flush"
    BY <1>11, <2>1 DEF Phase, Idle
  <2>3. Speaks(s, cur[s]) /\ cur[s] \in Nat /\ cur[s] <= Len(fut[o])
    BY <1>1, <2>1, <2>2, PhaseFacts DEF SourceOK, Source, Met
  <2>4. Call(s).msgs \in Ideal!Outcomes(s, cur[s])
    BY <1>1, <1>11, <2>3, OutcomeCases DEF Call
  <2> QED
    BY <1>1, <2>1, <2>4, Delivers
<1>12. ASSUME RecvMasked(s), NEW x, Settles(s, Value(x)) PROVE Ideal!Next
  <2>1. worker[s] = "recv_masked" /\ open[s] /\ Phase(s) = "recv_masked"
    BY <1>12 DEF RecvMasked, Receive, Phase, Idle
  <2>2. /\ Speaks(s, cur[s]) /\ cur[s] \in Nat /\ cur[s] <= Len(fut[o]) /\ Call(s).api = "ot_receive"
        /\ cur[s] \in 1 .. Len(fut[s])
    BY <1>1, <2>1, PhaseFacts DEF SourceOK, Source, Met
  <2>3. fut'[s][cur[s]] = Value(x) /\ Len(fut'[s]) = Len(fut[s]) /\ choices' = choices
    BY <1>1, <1>12, SettleView DEF Settles
  <2>4. x = Pick(Script[o][cur[s]].msgs, choices[s][cur[s]])
    <3>1. Value(x).is = "value" /\ Value(x).v = x
      BY DEF Value
    <3>2. cur[s] \in 1 .. Len(fut'[s]) /\ fut'[s][cur[s]].is = "value"
          /\ Script'[s][cur[s]].api = "ot_receive"
      BY <1>1, <2>2, <2>3, <3>1 DEF Call
    <3>3. fut'[s][cur[s]].v = Pick(Script'[o][cur[s]].msgs, choices'[s][cur[s]])
      BY <3>2 DEF ChosenOK, HasValue
    <3> QED
      BY <1>1, <2>3, <3>1, <3>3
  <2>5. x \in Ideal!Outcomes(s, cur[s])
    BY <1>1, <2>2, <2>4, OutcomeCases DEF Call
  <2> QED
    BY <1>1, <1>12, <2>5, Delivers
<1> QED
  BY <1>3, <1>4, <1>5, <1>6, <1>7, <1>8, <1>9, <1>10, <1>11, <1>12, FutureSteps

\* Two OTManagers, their threads and their socket implement the trusted party of
\* IdealOT, for every pair of programs, group and oracle, with or without kills: a
\* receiver gets what it chose, a future is set once and in the order of the
\* calls, nothing is delivered before the peer has made its call, and a call
\* fails only after a kill or a call that one side got wrong.
THEOREM OTImplements == Spec => ImplementsIdealOT
<1>1. Init => Ideal!Init
  BY IdealNames DEF Init, Ideal!Init
<1>2. RefInv /\ RefInv' /\ [Next]_vars => [Ideal!Next]_(Ideal!ivars)
  <2> SUFFICES ASSUME RefInv, RefInv', [Next]_vars PROVE Ideal!Next \/ UNCHANGED Ideal!ivars
    OBVIOUS
  <2>1. CASE UNCHANGED vars
    BY <2>1 DEF vars, Ideal!ivars, Script
  <2>2. ASSUME NEW s \in Sides, Step(s) PROVE Ideal!Next \/ UNCHANGED Ideal!ivars
    BY <2>2, StepIdeal DEF RefInv, OTInv
  <2> QED
    BY <2>1, <2>2 DEF Next, Step
<1> QED
  BY <1>1, <1>2, InitRef, NextRef, PTL DEF Spec, ImplementsIdealOT, Ideal!Spec
=============================================================================
