------------------------------- MODULE MpcOps -------------------------------
(***************************************************************************)
(* The three-party operations of mpc/mpcops.hpp and mpc/shares.hpp, run by *)
(* the programs mpcops_test and mpc_async with RandomnessMode::Online.     *)
(*                                                                         *)
(* P0 and P1 hold shares and compute; P2 deals correlated randomness and   *)
(* never waits for an answer.  All three run the same straight-line        *)
(* program, each as one coroutine, and nothing but the FIFO order of the   *)
(* TCP connections keeps them in step.                                     *)
(*                                                                         *)
(* The values that one co_await (a && b && ...) moves over one socket are  *)
(* one message, in wire order.  The field k of a message is a ghost, the   *)
(* step it was made for: no action reads it.                               *)
(***************************************************************************)
EXTENDS Words, Fifo

CONSTANTS
  Program,      \* the steps that the three coroutines execute
  InA, InX,     \* the shares that a party may start from
  RandA, RandX, \* the values that arc4random_buf may return
  MaxCrashes    \* how many processes may be killed

Parties == {"P0", "P1"}
Roles == Parties \cup {"P2"}
Peer(p) == IF p = "P0" THEN "P1" ELSE "P0"

(***************************************************************************)
(* A step names an operation and the earlier steps whose results are its   *)
(* operands.  "bit" takes bit b of the word of step a; the other           *)
(* operations with one operand ignore b.                                   *)
(***************************************************************************)
InOps    == {"inA", "inX"}
DealtOps == {"mul", "and", "or", "mask"}
OpenOps  == {"openA", "openX"}
Ops      == InOps \cup {"bit"} \cup DealtOps \cup OpenOps
Steps    == 1 .. Len(Program)

\* The operations that give an AShare and those that give an XShare; the
\* open ones give both parties the same plain word.
AShares == {"inA", "mul"}
XShares == {"inX", "bit", "and", "or", "mask"}
Result(op) == IF op \in AShares \cup {"openA"} THEN AWord ELSE XWord

\* The operations whose results op takes as operands.
TakesA(op) == op \in {"mul", "mask", "openA"}
Operands(op) == IF TakesA(op) THEN AShares ELSE XShares

\* Operands come from earlier steps and are of the type the code takes.
ASSUME ProgramAssumption ==
  /\ Program \in Seq([op : Ops, a : Nat, b : Nat])
  /\ \A i \in Steps :
       LET s == Program[i] IN
         /\ s.op \notin InOps =>
              s.a \in 1 .. (i - 1) /\ Program[s.a].op \in Operands(s.op)
         /\ s.op \in {"mul", "and", "or"} =>
              s.b \in 1 .. (i - 1) /\ Program[s.b].op \in Operands(s.op)

ASSUME SampleAssumption ==
  /\ InA \subseteq AWord /\ RandA \subseteq AWord
  /\ InX \subseteq XWord /\ RandX \subseteq XWord
  /\ MaxCrashes \in Nat

(***************************************************************************)
(* mpc_eqz(x), as the steps at, at+1, ...: the masked word, its W bits,    *)
(* and the OR tree over them.  The code reduces level by level, pairing    *)
(* neighbours; with W a power of two that is the order in which the j-th   *)
(* OR takes the nodes 2j-1 and 2j of the leaves followed by the ORs.       *)
(***************************************************************************)
EqzSteps(x, at) ==
  [i \in 1 .. (2 * W) |->
     CASE i = 1 -> [op |-> "mask", a |-> x, b |-> 0]
       [] i \in 2 .. (W + 1) -> [op |-> "bit", a |-> at, b |-> i - 2]
       [] OTHER -> LET j == i - (W + 1)
                   IN  [op |-> "or", a |-> at + 2 * j - 1, b |-> at + 2 * j]]

VARIABLES
  st,       \* st[p]: "run", or how the coroutine of p ended
  pc,       \* pc[p]: "start" of a step, or "wait" for the peer's values
  mat,      \* mat[p]: the material (X, Y, gamma) of the current step
  reg,      \* reg[p]: the results of the steps p has completed
  deal,     \* what P2 has drawn, one entry per step it has completed
  dealt,    \* dealt[p]: what P2 has sent to p and p has not read
  talk,     \* talk[p]: what the peer of p has sent to p and p has not read
  crashes

vars == <<st, pc, mat, reg, deal, dealt, talk, crashes>>

\* The step that role p executes, and its operation.
Cur(p) == IF p = "P2" THEN Len(deal) + 1 ELSE Len(reg[p]) + 1
Op(p) == Program[Cur(p)].op

\* Role p is running its current step, which is one of ops.
Running(p, ops) == st[p] = "run" /\ Cur(p) \in Steps /\ Op(p) \in ops

X(p) == reg[p][Program[Cur(p)].a]
Y(p) == reg[p][Program[Cur(p)].b]

\* Queue w to role q after p has written v: a write to a process that has
\* ended is lost.
Written(w, p, q, v) == IF st[q] = "run" THEN Append(w, [k |-> Cur(p), v |-> v]) ELSE w

(***************************************************************************)
(* When the coroutine of p ends, its sockets close.  What was in flight to *)
(* p is gone.  What p had sent stays readable, unless p closes a socket    *)
(* with unread data: the connection is then reset and any suffix of what   *)
(* p had sent on it may be lost.                                           *)
(***************************************************************************)
Kept(p) ==
  LET sent == Len(talk[Peer(p)])
  IN  IF talk[p] = <<>> THEN {sent} ELSE 0 .. sent

\* Mutant of CloseSockets: closing a socket discards what was sent on it.
CloseDiscards(p) ==
  \/ p = "P2" /\ dealt' = [q \in Parties |-> <<>>] /\ UNCHANGED talk
  \/ /\ p \in Parties
     /\ dealt' = [dealt EXCEPT ![p] = <<>>]
     /\ talk' = [q \in Parties |-> <<>>]

CloseSockets(p) ==
  \/ p = "P2" /\ UNCHANGED <<dealt, talk>>
  \/ /\ p \in Parties
     /\ dealt' = [dealt EXCEPT ![p] = <<>>]
     /\ \E n \in Kept(p) :
          talk' = [talk EXCEPT ![p] = <<>>, ![Peer(p)] = SubSeq(@, 1, n)]

End(p, how) ==
  /\ st' = [st EXCEPT ![p] = how]
  /\ CloseSockets(p)
  /\ UNCHANGED <<pc, mat, reg, deal>>

-----------------------------------------------------------------------------
(* P2, the dealer.                                                         *)

Draws(op) ==
  CASE op = "mul" -> [X0 : RandA, Y0 : RandA, X1 : RandA, Y1 : RandA]
    [] op \in {"and", "or"} -> [X0 : RandX, Y0 : RandX, X1 : RandX, Y1 : RandX]
    [] op = "mask" -> [r : RandA, r0AS : RandA, r0XS : RandX]

\* The material that P2 sends to p for one operation.
Material(op, p, d) ==
  CASE op = "mul" -> MulWire(p, d)
    [] op \in {"and", "or"} -> AndTriple(p, d)
    [] op = "mask" -> EqzMask(p, d)

\* Mutant of Deal: P2 does not send what it draws for mpc_mul.
DealNotSent ==
  /\ Running("P2", DealtOps)
  /\ \E d \in Draws(Op("P2")) :
       /\ deal' = Append(deal, d)
       /\ dealt' = [p \in Parties |->
                     IF Op("P2") = "mul" THEN dealt[p]
                     ELSE Written(dealt[p], "P2", p, Material(Op("P2"), p, d))]
  /\ UNCHANGED <<st, pc, mat, reg, talk, crashes>>

\* The P2 branch of an operation: draw, derive, send to both parties.
Deal ==
  /\ Running("P2", DealtOps)
  /\ \E d \in Draws(Op("P2")) :
       /\ deal' = Append(deal, d)
       /\ dealt' = [p \in Parties |->
                     Written(dealt[p], "P2", p, Material(Op("P2"), p, d))]
  /\ UNCHANGED <<st, pc, mat, reg, talk, crashes>>

\* P2 builds dummy shares for the inputs and leaves of the program, and has
\* no part in reconstruct_remote.
NoDraw == [none |-> 0]

DealerLocal ==
  /\ Running("P2", InOps \cup {"bit"} \cup OpenOps)
  /\ deal' = Append(deal, NoDraw)
  /\ UNCHANGED <<st, pc, mat, reg, dealt, talk, crashes>>

-----------------------------------------------------------------------------
(* P0 and P1.                                                              *)

\* A share constructed from a value, and the leaf bits of mpc_eqz.
Local(p) ==
  /\ Running(p, InOps \cup {"bit"})
  /\ \E v \in CASE Op(p) = "inA" -> InA
                [] Op(p) = "inX" -> InX
                [] Op(p) = "bit" -> {BitOf(X(p), Program[Cur(p)].b)} :
       reg' = [reg EXCEPT ![p] = Append(@, v)]
  /\ UNCHANGED <<st, pc, mat, deal, dealt, talk, crashes>>

Blinded(op, x, y, m) ==
  CASE op = "mul" -> MulBlind(x, y, m)
    [] op \in {"and", "or"} -> AndBlind(x, y, m)
    [] op = "mask" -> EqzBlind(x, m)

OutShare(op, p, x, y, m, t) ==
  CASE op = "mul" -> MulShare(x, y, m, t)
    [] op = "and" -> AndShare(x, y, m, t)
    [] op = "or" -> OrShare(x, y, m, t)
    [] op = "mask" -> EqzShare(p, x, m, t)

\* Second operand of the current step; mpc_eqz has none.
Y2(p) == IF Op(p) = "mask" THEN 0 ELSE Y(p)

\* p writes v to its peer.
Tell(p, v) == talk' = [talk EXCEPT ![Peer(p)] = Written(@, p, Peer(p), v)]

\* With material m in hand, p starts its writes of the blinded shares and its
\* reads of the peer's: both are posted before p waits for either.
BlindWith(p, m) ==
  /\ mat' = [mat EXCEPT ![p] = m]
  /\ pc' = [pc EXCEPT ![p] = "wait"]
  /\ Tell(p, Blinded(Op(p), X(p), Y2(p), m))

\* co_await ((self >> X) && (self >> Y) && (self >> gamma)), then the writes.
Blind(p) ==
  /\ Running(p, DealtOps) /\ pc[p] = "start"
  /\ dealt[p] # <<>>
  /\ dealt' = [dealt EXCEPT ![p] = Tail(@)]
  /\ BlindWith(p, Head(dealt[p]).v)
  /\ UNCHANGED <<st, reg, deal, crashes>>

\* Mutant of Complete: the step ends without leaving its wait.
CompleteStillWaiting(p, v) ==
  /\ talk' = [talk EXCEPT ![p] = Tail(@)]
  /\ reg' = [reg EXCEPT ![p] = Append(@, v)]
  /\ mat' = [mat EXCEPT ![p] = <<>>]
  /\ UNCHANGED pc

\* p reads a message of its peer and completes its step with result v.
Complete(p, v) ==
  /\ talk' = [talk EXCEPT ![p] = Tail(@)]
  /\ reg' = [reg EXCEPT ![p] = Append(@, v)]
  /\ pc' = [pc EXCEPT ![p] = "start"]
  /\ mat' = [mat EXCEPT ![p] = <<>>]

\* The peer's blinded values arrive; the output share is computed.
Exchange(p) ==
  /\ Running(p, DealtOps) /\ pc[p] = "wait"
  /\ talk[p] # <<>>
  /\ Complete(p, OutShare(Op(p), p, X(p), Y2(p), mat[p], Head(talk[p]).v))
  /\ UNCHANGED <<st, deal, dealt, crashes>>

\* Mutant of SendShare: the read comes before the write.
SendShareLast(p) ==
  /\ Running(p, OpenOps) /\ pc[p] = "start"
  /\ talk[p] # <<>>
  /\ Tell(p, <<X(p)>>)
  /\ pc' = [pc EXCEPT ![p] = "wait"]
  /\ UNCHANGED <<st, mat, reg, deal, dealt, crashes>>

\* reconstruct_remote: co_await the write of one's own share, ...
SendShare(p) ==
  /\ Running(p, OpenOps) /\ pc[p] = "start"
  /\ Tell(p, <<X(p)>>)
  /\ pc' = [pc EXCEPT ![p] = "wait"]
  /\ UNCHANGED <<st, mat, reg, deal, dealt, crashes>>

\* Mutant of Combine: the own share is left out.
CombineOther(op, s0, s1) == s1

Combine(op, s0, s1) == IF op = "openA" THEN CombineA(s0, s1) ELSE CombineX(s0, s1)

\* ... then the read of the peer's.
RecvShare(p) ==
  /\ Running(p, OpenOps) /\ pc[p] = "wait"
  /\ talk[p] # <<>>
  /\ Complete(p, Combine(Op(p), X(p), Head(talk[p]).v[1]))
  /\ UNCHANGED <<st, deal, dealt, crashes>>

-----------------------------------------------------------------------------
(* How a coroutine ends.  An exception thrown in it is dropped by          *)
(* co_spawn(..., detached): the process just ends.                         *)

Finish(p) ==
  /\ st[p] = "run" /\ Cur(p) = Len(Program) + 1
  /\ End(p, "done")
  /\ UNCHANGED crashes

\* p \in Parties waits for its material, and for what its peer sends.
WaitsForDeal(p) == Running(p, DealtOps) /\ pc[p] = "start"
WaitsForPeer(p) == Running(p, DealtOps \cup OpenOps) /\ pc[p] = "wait"

\* The roles that p is about to write to.
WritesTo(p) ==
  IF p = "P2"
  THEN IF Running(p, DealtOps) THEN Parties ELSE {}
  ELSE IF \/ Running(p, OpenOps) /\ pc[p] = "start"
          \/ WaitsForDeal(p) /\ dealt[p] # <<>>
       THEN {Peer(p)} ELSE {}

\* Reading from a role that has ended, with nothing left to read, throws; so
\* may writing to one.
IoError(p) ==
  /\ \/ /\ p \in Parties
        /\ \/ WaitsForDeal(p) /\ st["P2"] # "run" /\ dealt[p] = <<>>
           \/ WaitsForPeer(p) /\ st[Peer(p)] # "run" /\ talk[p] = <<>>
     \/ \E q \in WritesTo(p) : st[q] # "run"
  /\ End(p, "threw")
  /\ UNCHANGED crashes

\* The process of p is killed.
Crash(p) ==
  /\ st[p] = "run" /\ crashes < MaxCrashes
  /\ End(p, "killed")
  /\ crashes' = crashes + 1

-----------------------------------------------------------------------------
Init ==
  /\ st = [p \in Roles |-> "run"]
  /\ pc = [p \in Parties |-> "start"]
  /\ mat = [p \in Parties |-> <<>>]
  /\ reg = [p \in Parties |-> <<>>]
  /\ deal = <<>>
  /\ dealt = [p \in Parties |-> <<>>]
  /\ talk = [p \in Parties |-> <<>>]
  /\ crashes = 0

PartyStep(p) ==
  Local(p) \/ Blind(p) \/ Exchange(p) \/ SendShare(p) \/ RecvShare(p)

DealerStep == Deal \/ DealerLocal

RoleStep(p) ==
  \/ p \in Parties /\ PartyStep(p)
  \/ p = "P2" /\ DealerStep
  \/ Finish(p)
  \/ IoError(p)

Next == \E p \in Roles : RoleStep(p) \/ Crash(p)

Spec == Init /\ [][Next]_vars

\* Each role is one process whose event loop runs every ready operation, and
\* TCP delivers what was sent; nothing forces a crash.
FairSpec == Spec /\ \A p \in Roles : WF_vars(RoleStep(p))

-----------------------------------------------------------------------------
MaterialType(op) ==
  CASE op = "mul" -> AWord \X AWord \X AWord
    [] op \in {"and", "or"} -> XWord \X XWord \X XWord
    [] op = "mask" -> AWord \X XWord

\* What P0 and P1 send each other in a step: blinded values, or a share.
BlindType(op) ==
  CASE op = "mul" -> AWord \X AWord
    [] op \in {"and", "or"} -> XWord \X XWord
    [] op \in {"mask", "openA"} -> [1 .. 1 -> AWord]
    [] op = "openX" -> [1 .. 1 -> XWord]

\* The steps in which P2 sends to the parties, and they to each other.
DealSteps == {j \in Steps : Program[j].op \in DealtOps}
TalkSteps == {j \in Steps : Program[j].op \in DealtOps \cup OpenOps}

RegType(p) ==
  /\ IsSeq(reg[p]) /\ Len(reg[p]) <= Len(Program)
  /\ \A j \in 1 .. Len(reg[p]) : reg[p][j] \in Result(Program[j].op)

WaitType(p) ==
  pc[p] = "wait" =>
    /\ Cur(p) \in Steps /\ Op(p) \in DealtOps \cup OpenOps
    /\ Op(p) \in DealtOps => mat[p] \in MaterialType(Op(p))

DealType ==
  /\ IsSeq(deal) /\ Len(deal) <= Len(Program)
  /\ \A j \in 1 .. Len(deal) :
       Program[j].op \in DealtOps => deal[j] \in Draws(Program[j].op)

DealtType(p) ==
  /\ IsSeq(dealt[p])
  /\ \A i \in 1 .. Len(dealt[p]) :
       /\ dealt[p][i].k \in DealSteps
       /\ dealt[p][i].v \in MaterialType(Program[dealt[p][i].k].op)

TalkType(p) ==
  /\ IsSeq(talk[p])
  /\ \A i \in 1 .. Len(talk[p]) :
       /\ talk[p][i].k \in TalkSteps
       /\ talk[p][i].v \in BlindType(Program[talk[p][i].k].op)

\* Types.  Words are untyped on the wire and in the code; here the type of
\* every word follows from the step that made it.
TypeOK ==
  /\ st \in [Roles -> {"run", "done", "threw", "killed"}]
  /\ pc \in [Parties -> {"start", "wait"}]
  /\ mat = [p \in Parties |-> mat[p]]
  /\ reg = [p \in Parties |-> reg[p]]
  /\ dealt = [p \in Parties |-> dealt[p]]
  /\ talk = [p \in Parties |-> talk[p]]
  /\ \A p \in Parties : RegType(p) /\ WaitType(p) /\ DealtType(p) /\ TalkType(p)
  /\ DealType
  /\ crashes \in 0 .. MaxCrashes

\* The steps of which both parties hold the result, and the secret behind
\* step j: the two shares combined the way its operation shares them.
Shared == 1 .. (IF Len(reg["P0"]) < Len(reg["P1"]) THEN Len(reg["P0"]) ELSE Len(reg["P1"]))

Secret(j) ==
  IF Program[j].op \in AShares
  THEN CombineA(reg["P0"][j], reg["P1"][j])
  ELSE CombineX(reg["P0"][j], reg["P1"][j])

\* Nothing but FIFO order matches messages to operations: whatever the
\* interleaving, and however far the dealer has run ahead, what a party is
\* about to read was made for the very step it is executing.
Aligned ==
  \A p \in Parties :
    /\ WaitsForDeal(p) /\ dealt[p] # <<>> => Head(dealt[p]).k = Cur(p)
    /\ WaitsForPeer(p) /\ talk[p] # <<>> => Head(talk[p]).k = Cur(p)

\* The secret behind every completed operation is that operation applied to
\* the secrets behind its operands (mpc_mul, mpc_and, mpc_or), although the
\* wire hands P0 and P1 of mpc_mul other factors than the tape would.
OpCorrect ==
  \A j \in Shared :
    LET s == Program[j] IN
      /\ s.op = "mul" => Secret(j) = Wrap(Secret(s.a) * Secret(s.b))
      /\ s.op = "and" => Secret(j) = Secret(s.a) \cap Secret(s.b)
      /\ s.op = "or" => Secret(j) = Secret(s.a) \cup Secret(s.b)

\* reconstruct_remote gives both parties the secret, the same one.
OpenCorrect ==
  \A j \in Shared :
    Program[j].op \in OpenOps =>
      \A p \in Parties : reg[p][j] = Secret(Program[j].a)

\* A run in which no process is killed never throws: a party is not cut off
\* by the dealer or the peer that has finished and closed its sockets.
CleanRun == crashes = 0 => \A p \in Roles : st[p] # "threw"

\* All three processes end: nobody waits forever, even on a killed peer.
Termination == <>(\A p \in Roles : st[p] # "run")

-----------------------------------------------------------------------------
(***************************************************************************)
(* The inductive invariant.  Everything a party computes is a function of  *)
(* the shares it started from and of what P2 has drawn; the messages in    *)
(* flight are those functions for the steps between what the reader has    *)
(* read and what the writer has written, in order and without a gap.       *)
(***************************************************************************)

\* The first step for which role p has not yet written its messages.
Ahead(p) == IF p \in Parties /\ pc[p] = "wait" THEN Cur(p) + 1 ELSE Cur(p)

Mat(p, j) == Material(Program[j].op, p, deal[j])
Operand2(p, j) == IF Program[j].op = "mask" THEN 0 ELSE reg[p][Program[j].b]

\* What p tells its peer in step j, and what it then computes.
Told(p, j) ==
  IF Program[j].op \in OpenOps
  THEN <<reg[p][Program[j].a]>>
  ELSE Blinded(Program[j].op, reg[p][Program[j].a], Operand2(p, j), Mat(p, j))

Output(p, j) ==
  IF Program[j].op \in OpenOps
  THEN Combine(Program[j].op, reg[p][Program[j].a], Told(Peer(p), j)[1])
  ELSE OutShare(Program[j].op, p, reg[p][Program[j].a], Operand2(p, j), Mat(p, j),
                Told(Peer(p), j))

\* Nothing that p has sent to q is lost.
Up(p, q) == st[p] \in {"run", "done"} /\ st[q] = "run"

\* The messages in flight to p are those between what p has read and what P2,
\* or the peer, has written ...
DealLink(p) == LinkOK(dealt[p], Ahead(p), Cur("P2"), DealSteps, Up("P2", p))
TalkLink(p) == LinkOK(talk[p], Cur(p), Ahead(Peer(p)), TalkSteps, Up(Peer(p), p))

\* ... with the contents of the step they were made for.
WireContents ==
  \A p \in Parties :
    /\ \A i \in 1 .. Len(dealt[p]) : dealt[p][i].v = Mat(p, dealt[p][i].k)
    /\ \A i \in 1 .. Len(talk[p]) : talk[p][i].v = Told(Peer(p), talk[p][i].k)

\* No party is past an exchange that P2 or the peer has not reached.
PacedByDealer(p) == \A j \in DealSteps : j < Ahead(p) => j < Cur("P2")
PacedByPeer(p) == \A j \in TalkSteps : j < Cur(p) => j < Ahead(Peer(p))

MatInv ==
  \A p \in Parties :
    pc[p] = "wait" /\ Op(p) \in DealtOps => mat[p] = Mat(p, Cur(p))

RegInv ==
  \A p \in Parties : \A j \in 1 .. Len(reg[p]) :
    Program[j].op \in DealtOps \cup OpenOps => reg[p][j] = Output(p, j)

Ended(p) ==
  /\ st[p] = "done" => Cur(p) = Len(Program) + 1
  /\ crashes = 0 => st[p] \in {"run", "done"}

FlowInv ==
  /\ TypeOK
  /\ \A p \in Roles : Ended(p)
  /\ \A p \in Parties : DealLink(p) /\ TalkLink(p) /\ PacedByDealer(p) /\ PacedByPeer(p)

IndInv == FlowInv /\ WireContents /\ MatInv /\ RegInv
=============================================================================
