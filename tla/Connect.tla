------------------------------ MODULE Connect ------------------------------
(***************************************************************************)
(* How the processes of the programs find each other (mpc/network.hpp and  *)
(* the first lines of run_p0, run_p1, run_p2): servers that accept one     *)
(* connection on a port of their own, clients that retry until somebody    *)
(* listens.  The processes are started by hand, in any order; one may be   *)
(* killed and started again while the others are still connecting.         *)
(*                                                                         *)
(* TCP (external): a connection is complete for the client as soon as the  *)
(* port is open and waits in the backlog of the port until it is accepted. *)
(* Closing the port resets what is left in the backlog.  A reset is not    *)
(* seen before the first transfer, which comes after all of this.          *)
(***************************************************************************)
EXTENDS Naturals, Sequences, Functions

CONSTANTS
  Setups,     \* which programs are run
  MaxKills    \* how many processes may be killed (a bound of the model)

ASSUME ConnectAssumption ==
  Setups \subseteq {"mpcops_test", "main", "ot_tests"} /\ MaxKills \in Nat

Roles == {"P0", "P1", "P2"}
Ports == {9000, 9001, 9100, 12000}

VARIABLES
  setup,    \* the program that is run, in three or two roles
  up,       \* up[r]: the process of r is running
  inc,      \* inc[r]: how often it was killed
  step,     \* step[r]: its next step in Script
  asleep,   \* asleep[r]: it sleeps before the next attempt to connect
  owner,    \* owner[port]: who listens on the port, or "nobody"
  backlog,  \* backlog[port]: the connections that nobody has accepted
  socks,    \* socks[r]: the sockets of r, in the order of its script
  dead      \* the connections that have lost one of their ends

vars == <<setup, up, inc, step, asleep, owner, backlog, socks, dead>>

-----------------------------------------------------------------------------
(* The programs.                                                           *)

connect(port) == <<[op |-> "connect", port |-> port]>>
bind(port) == <<[op |-> "bind", port |-> port]>>
accept(port) == <<[op |-> "accept", port |-> port]>>
close(port) == <<[op |-> "close", port |-> port]>>

\* Mutant of make_server: the port stays open.
MakeServerKeepsOpen(port) == bind(port) \o accept(port)

\* make_server and accept_on: the acceptor is a local variable.
make_server(port) == bind(port) \o accept(port) \o close(port)

\* Mutant of run_p0: P0 waits for P1 before it connects to P2.
RunP0PeerFirst ==
  IF setup = "ot_tests" THEN make_server(12000) ELSE make_server(9100) \o connect(9000)

run_p0 ==
  IF setup = "ot_tests" THEN make_server(12000) ELSE connect(9000) \o make_server(9100)

\* Mutant of run_p1: P1 connects to the port that P2 has for P0.
RunP1SamePort ==
  IF setup = "ot_tests" THEN connect(12000) ELSE connect(9000) \o connect(9100)

run_p1 ==
  IF setup = "ot_tests" THEN connect(12000) ELSE connect(9001) \o connect(9100)

\* main keeps both acceptors of P2 open, mpcops_test and locoram_test open the
\* second one only when the first has done its work.
run_p2 ==
  IF setup = "ot_tests" THEN <<>>
  ELSE IF setup = "main" THEN bind(9000) \o bind(9001) \o accept(9000) \o accept(9001)
  ELSE make_server(9000) \o make_server(9001)

Script(r) == IF r = "P0" THEN run_p0 ELSE IF r = "P1" THEN run_p1 ELSE run_p2

\* The role with which a program labels its sockets, in the order of Script.
Label(r) ==
  IF setup = "ot_tests"
  THEN [P0 |-> <<"P1">>, P1 |-> <<"P0">>, P2 |-> <<>>][r]
  ELSE [P0 |-> <<"P2", "P1">>, P1 |-> <<"P2", "P0">>, P2 |-> <<"P0", "P1">>][r]

At(r, op) == up[r] /\ step[r] \in DOMAIN Script(r) /\ Script(r)[step[r]].op = op
Port(r) == Script(r)[step[r]].port

Advance(r) == step' = [step EXCEPT ![r] = @ + 1]

-----------------------------------------------------------------------------
(* Steps of a process.                                                     *)

\* async_connect finds the port open.  The same pair of processes never
\* connects twice, so the ends identify the connection.
Connected(r) ==
  /\ At(r, "connect") /\ ~asleep[r] /\ owner[Port(r)] # "nobody"
  /\ LET srv == owner[Port(r)]
         c == [client |-> r, cinc |-> inc[r], server |-> srv, sinc |-> inc[srv], port |-> Port(r)]
     IN  /\ backlog' = [backlog EXCEPT ![Port(r)] = Append(@, c)]
         /\ socks' = [socks EXCEPT ![r] = Append(@, c)]
  /\ Advance(r)
  /\ UNCHANGED <<setup, up, inc, asleep, owner, dead>>

\* Nobody listens: connect_with_retry sleeps and tries again, without end.
Refused(r) ==
  /\ At(r, "connect") /\ ~asleep[r] /\ owner[Port(r)] = "nobody"
  /\ asleep' = [asleep EXCEPT ![r] = TRUE]
  /\ UNCHANGED <<setup, up, inc, step, owner, backlog, socks, dead>>

Wake(r) ==
  /\ up[r] /\ asleep[r]
  /\ asleep' = [asleep EXCEPT ![r] = FALSE]
  /\ UNCHANGED <<setup, up, inc, step, owner, backlog, socks, dead>>

Bind(r) ==
  /\ At(r, "bind") /\ owner[Port(r)] = "nobody"
  /\ owner' = [owner EXCEPT ![Port(r)] = r]
  /\ Advance(r)
  /\ UNCHANGED <<setup, up, inc, asleep, backlog, socks, dead>>

Accept(r) ==
  /\ At(r, "accept") /\ backlog[Port(r)] # <<>>
  /\ socks' = [socks EXCEPT ![r] = Append(@, Head(backlog[Port(r)]))]
  /\ backlog' = [backlog EXCEPT ![Port(r)] = Tail(@)]
  /\ Advance(r)
  /\ UNCHANGED <<setup, up, inc, asleep, owner, dead>>

\* Mutant of ClosePorts: the backlog outlives the acceptor.
ClosePortsKeepBacklog(ports) ==
  /\ owner' = [port \in Ports |-> IF port \in ports THEN "nobody" ELSE owner[port]]
  /\ UNCHANGED backlog

ClosePorts(ports) ==
  /\ owner' = [port \in Ports |-> IF port \in ports THEN "nobody" ELSE owner[port]]
  /\ backlog' = [port \in Ports |-> IF port \in ports THEN <<>> ELSE backlog[port]]

Waiting(ports) == UNION {Range(backlog[port]) : port \in ports}

Close(r) ==
  /\ At(r, "close")
  /\ ClosePorts({Port(r)})
  /\ dead' = dead \cup Waiting({Port(r)})
  /\ Advance(r)
  /\ UNCHANGED <<setup, up, inc, asleep, socks>>

\* All sockets are there: NetPeer, MPCContext and the protocol come next.
Ready(r) == up[r] /\ step[r] > Len(Script(r))
AllReady == \A r \in Roles : Ready(r)

-----------------------------------------------------------------------------
(* What the user and the machine do.                                       *)

Start(r) ==
  /\ ~up[r]
  /\ up' = [up EXCEPT ![r] = TRUE]
  /\ UNCHANGED <<setup, inc, step, asleep, owner, backlog, socks, dead>>

Kills == inc["P0"] + inc["P1"] + inc["P2"]

\* The kernel closes the sockets and the ports of the process.
Kill(r) ==
  /\ up[r] /\ ~AllReady /\ Kills < MaxKills
  /\ LET ports == {port \in Ports : owner[port] = r}
     IN  ClosePorts(ports) /\ dead' = dead \cup Range(socks[r]) \cup Waiting(ports)
  /\ up' = [up EXCEPT ![r] = FALSE]
  /\ inc' = [inc EXCEPT ![r] = @ + 1]
  /\ step' = [step EXCEPT ![r] = 1]
  /\ asleep' = [asleep EXCEPT ![r] = FALSE]
  /\ socks' = [socks EXCEPT ![r] = <<>>]
  /\ UNCHANGED setup

-----------------------------------------------------------------------------
Init ==
  /\ setup \in Setups
  /\ up = [r \in Roles |-> FALSE]
  /\ inc = [r \in Roles |-> 0]
  /\ step = [r \in Roles |-> 1]
  /\ asleep = [r \in Roles |-> FALSE]
  /\ owner = [port \in Ports |-> "nobody"]
  /\ backlog = [port \in Ports |-> <<>>]
  /\ socks = [r \in Roles |-> <<>>]
  /\ dead = {}

RoleStep(r) == Connected(r) \/ Refused(r) \/ Wake(r) \/ Bind(r) \/ Accept(r) \/ Close(r)

Next == \E r \in Roles : RoleStep(r) \/ Start(r) \/ Kill(r)

\* Processes that run take their steps; nobody promises to start one.
Spec == Init /\ [][Next]_vars
FairSpec == Spec /\ \A r \in Roles : WF_vars(RoleStep(r))

-----------------------------------------------------------------------------
TypeOK ==
  /\ up \in [Roles -> BOOLEAN] /\ asleep \in [Roles -> BOOLEAN]
  /\ inc \in [Roles -> 0 .. MaxKills]
  /\ owner \in [Ports -> Roles \cup {"nobody"}]
  /\ \A r \in Roles : step[r] \in 1 .. (Len(Script(r)) + 1)
  /\ \A port \in Ports : owner[port] = "nobody" => backlog[port] = <<>>
  /\ \A port \in Ports : owner[port] # "nobody" => up[owner[port]]

\* The other end of c, seen from r.
OtherEnd(c, r) == IF c.client = r THEN c.server ELSE c.client

\* A socket is connected to the role that the program takes it for, also after
\* kills and restarts: no message says who is calling, only the port does.
LabelsRight ==
  \A r \in Roles : \A i \in DOMAIN socks[r] : OtherEnd(socks[r][i], r) = Label(r)[i]

\* When all three are ready every socket is paired with one of the role it is
\* labelled with, or the next transfer on it fails: none is left in a backlog
\* that nobody serves.  (main keeps its acceptors open and does leave the
\* connection of a restarted process there until P2 ends.)
ReadyMeansPaired ==
  AllReady => \A r \in Roles : \A i \in DOMAIN socks[r] :
                \/ socks[r][i] \in Range(socks[Label(r)[i]])
                \/ socks[r][i] \in dead
                \/ setup = "main" /\ dead # {}

\* A process that runs never waits for a connection that cannot come: when all
\* three run from some time on, whatever the order in which they were started
\* and restarted, and no connection has been lost, all become ready.
EverybodyJoins ==
  (<>[](\A r \in Roles : up[r]) /\ [](dead = {})) => <>AllReady
=============================================================================
