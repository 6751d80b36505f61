----------------------------- MODULE MpcProofs -----------------------------
(***************************************************************************)
(* Proofs about MpcOps.  First the flow of messages: FlowInv is inductive, *)
(* so that every word has its type, every message is read by the step it   *)
(* was made for, and nothing throws unless a process has been killed, for  *)
(* every program, word size, interleaving and crash.                       *)
(*                                                                         *)
(* Then the words.  IndInv says that messages and results are functions of *)
(* the input shares and of what P2 has drawn; it is inductive, and with    *)
(* the algebra of OperatorProofs it makes every operation and every        *)
(* reconstruction correct.                                                 *)
(*                                                                         *)
(* Last, MpcOps implements IdealOps: what the two parties hold together is *)
(* what a trusted machine computes on the secrets.  For the program that   *)
(* tests a secret for zero it follows that x == 0 opens to 1 exactly if    *)
(* the secret is not zero.                                                 *)
(***************************************************************************)
EXTENDS MCMpcOps, OperatorProofs

(* Types of the operators.                                                 *)

\* Wrapping gives an additive word.
LEMMA WrapType == ASSUME NEW n \in Int PROVE Wrap(n) \in AWord
BY WordSize DEF Wrap, AWord

\* Xor gives an XOR word.
LEMMA XorType == ASSUME NEW a \in XWord, NEW b \in XWord PROVE Xor(a, b) \in XWord
BY DEF Xor, XWord

\* And gives an XOR word.
LEMMA CapType == ASSUME NEW a \in XWord, NEW b \in XWord PROVE a \cap b \in XWord
BY DEF XWord

\* The bits of a number form an XOR word.
LEMMA BitsType == ASSUME NEW n PROVE Bits(n) \in XWord
BY DEF Bits, XWord

\* A single bit is an XOR word.
LEMMA BitOfType == ASSUME NEW w, NEW i PROVE BitOf(w, i) \in XWord
BY WordSize DEF BitOf, XWord

\* Additive words are integers.
LEMMA AWordInt == ASSUME NEW n \in AWord PROVE n \in Int
BY WordSize DEF AWord

\* What P2 derives from its draws has the type of the material.
LEMMA MaterialTyped ==
  ASSUME NEW op \in DealtOps, NEW p \in Parties, NEW d \in Draws(op)
  PROVE  Material(op, p, d) \in MaterialType(op)
<1>1. CASE op = "mul"
  <2>1. d \in [X0 : AWord, Y0 : AWord, X1 : AWord, Y1 : AWord]
    BY <1>1, SampleAssumption DEF Draws
  <2>a. d.X0 \in Int /\ d.Y0 \in Int /\ d.X1 \in Int /\ d.Y1 \in Int
    BY <2>1, AWordInt
  <2>2. d.X0 * d.Y1 \in Int /\ d.X1 * d.Y0 \in Int
    BY <2>a
  <2>3. MulWire(p, d) \in AWord \X AWord \X AWord
    BY <2>1, <2>2, WrapType DEF MulWire
  <2> QED
    BY <2>3, <1>1 DEF Material, MaterialType
<1>2. CASE op \in {"and", "or"}
  <2>1. d \in [X0 : XWord, Y0 : XWord, X1 : XWord, Y1 : XWord]
    BY <1>2, SampleAssumption DEF Draws
  <2>2. AndTriple(p, d) \in XWord \X XWord \X XWord
    BY <2>1, CapType DEF AndTriple
  <2> QED
    BY <2>2, <1>2 DEF Material, MaterialType
<1>3. CASE op = "mask"
  <2>1. d \in [r : AWord, r0AS : AWord, r0XS : XWord]
    BY <1>3, SampleAssumption DEF Draws
  <2>2. d.r - d.r0AS \in Int
    BY <2>1, AWordInt
  <2>3. EqzMask(p, d) \in AWord \X XWord
    BY <2>1, <2>2, WrapType, XorType, BitsType DEF EqzMask
  <2> QED
    BY <2>3, <1>3 DEF Material, MaterialType
<1> QED
  BY <1>1, <1>2, <1>3 DEF DealtOps

\* The words that an operation takes.
Words(op) == IF TakesA(op) THEN AWord ELSE XWord

\* Blinded values have the type of what the parties exchange.
LEMMA BlindedTyped ==
  ASSUME NEW op \in DealtOps, NEW x \in Words(op), NEW y,
         op # "mask" => y \in Words(op), NEW m \in MaterialType(op)
  PROVE  Blinded(op, x, y, m) \in BlindType(op)
<1>1. CASE op = "mul"
  <2>1. x \in AWord /\ y \in AWord /\ m \in AWord \X AWord \X AWord
    BY <1>1 DEF Words, TakesA, MaterialType
  <2>2. x + m[1] \in Int /\ y + m[2] \in Int
    BY <2>1, AWordInt
  <2> QED
    BY <2>2, WrapType, <1>1 DEF Blinded, BlindType, MulBlind
<1>2. CASE op \in {"and", "or"}
  <2>1. x \in XWord /\ y \in XWord /\ m \in XWord \X XWord \X XWord
    BY <1>2 DEF Words, TakesA, MaterialType
  <2>2. Xor(x, m[1]) \in XWord /\ Xor(y, m[2]) \in XWord
    BY <2>1, XorType
  <2> QED
    BY <2>2, <1>2 DEF Blinded, BlindType, AndBlind
<1>3. CASE op = "mask"
  <2>1. x \in AWord /\ m \in AWord \X XWord
    BY <1>3 DEF Words, TakesA, MaterialType
  <2>2. x + m[1] \in Int
    BY <2>1, AWordInt
  <2> QED
    BY <2>2, WrapType, <1>3 DEF Blinded, BlindType, EqzBlind
<1> QED
  BY <1>1, <1>2, <1>3 DEF DealtOps

\* Output shares have the type of the result.
LEMMA OutShareTyped ==
  ASSUME NEW op \in DealtOps, NEW p \in Parties, NEW x \in Words(op), NEW y,
         op # "mask" => y \in Words(op), NEW m \in MaterialType(op),
         NEW t \in BlindType(op)
  PROVE  OutShare(op, p, x, y, m, t) \in Result(op)
<1>1. CASE op = "mul"
  <2>1. /\ x \in AWord /\ y \in AWord /\ m \in AWord \X AWord \X AWord
        /\ t \in AWord \X AWord
    BY <1>1 DEF Words, TakesA, MaterialType, BlindType
  <2>2. /\ x \in Int /\ y \in Int /\ m[2] \in Int /\ m[3] \in Int
        /\ t[1] \in Int /\ t[2] \in Int
    BY <2>1, AWordInt
  <2>3. x * (y + t[2]) - m[2] * t[1] + m[3] \in Int
    BY <2>2
  <2> QED
    BY <2>3, WrapType, <1>1 DEF OutShare, MulShare, Result, AShares
<1>2. CASE op \in {"and", "or"}
  <2>1. /\ x \in XWord /\ y \in XWord /\ m \in XWord \X XWord \X XWord
        /\ t \in XWord \X XWord
    BY <1>2 DEF Words, TakesA, MaterialType, BlindType
  <2>2. /\ m[2] \in XWord /\ m[3] \in XWord /\ t[1] \in XWord /\ t[2] \in XWord
    BY <2>1
  <2>3. AndShare(x, y, m, t) \in XWord
    BY <2>1, <2>2, XorType, CapType DEF AndShare
  <2>4. OrShare(x, y, m, t) \in XWord
    BY <2>1, <2>3, XorType DEF OrShare
  <2> QED
    BY <2>3, <2>4, <1>2 DEF OutShare, Result, AShares
<1>3. CASE op = "mask"
  <2>1. m \in AWord \X XWord
    BY <1>3 DEF MaterialType
  <2>2. EqzShare(p, x, m, t) \in XWord
    BY <2>1, XorType, BitsType DEF EqzShare
  <2> QED
    BY <2>2, <1>3 DEF OutShare, Result, AShares
<1> QED
  BY <1>1, <1>2, <1>3 DEF DealtOps

\* An opened value has the type of the result.
LEMMA CombineTyped ==
  ASSUME NEW op \in OpenOps, NEW x \in Words(op), NEW y \in Words(op)
  PROVE  Combine(op, x, y) \in Result(op)
<1>1. CASE op = "openA"
  <2>1. x + y \in Int
    BY <1>1, AWordInt DEF Words, TakesA
  <2> QED
    BY <2>1, <1>1, WrapType DEF Combine, CombineA, Result, AShares
<1>2. CASE op = "openX"
  BY <1>2, XorType DEF Combine, CombineX, Result, AShares, Words, TakesA
<1> QED
  BY <1>1, <1>2 DEF OpenOps

-----------------------------------------------------------------------------
(* Facts about a state of the right type.                                  *)

\* The other party.
LEMMA PeerFacts ==
  ASSUME NEW p \in Parties
  PROVE  Peer(p) \in Parties /\ Peer(p) # p /\ Peer(Peer(p)) = p /\ p # "P2" /\ p \in Roles
BY DEF Parties, Peer, Roles

\* What ProgramAssumption says about a step.
LEMMA ProgramFacts ==
  /\ Len(Program) \in Nat /\ Steps \subseteq Nat
  /\ \A i \in Steps : Program[i].op \in Ops
  /\ DealSteps \subseteq TalkSteps /\ TalkSteps \subseteq Steps
  /\ DealSteps \in SUBSET Nat /\ TalkSteps \in SUBSET Nat
<1> DEFINE R == [op : Ops, a : Nat, b : Nat]
<1>1. Program \in Seq(R)
  BY ProgramAssumption
<1>2. ASSUME NEW r \in R PROVE r.op \in Ops
  OBVIOUS
<1> HIDE DEF R
<1>3. Len(Program) \in Nat
  BY <1>1
<1>4. ASSUME NEW i \in Steps PROVE i \in Nat /\ Program[i] \in R
  BY <1>1, <1>3, ElementOfSeq DEF Steps
<1> QED
  BY <1>2, <1>3, <1>4 DEF DealSteps, TalkSteps

\* The current step of each role is one after the last completed one.
LEMMA CurFacts ==
  ASSUME TypeOK
  PROVE  /\ Len(deal) \in Nat /\ Cur("P2") = Len(deal) + 1 /\ Cur("P2") \in Nat
         /\ \A p \in Parties :
              /\ Len(reg[p]) \in Nat /\ Cur(p) = Len(reg[p]) + 1 /\ Cur(p) \in Nat
              /\ pc[p] = "wait" => Ahead(p) = Cur(p) + 1
              /\ pc[p] = "start" => Ahead(p) = Cur(p)
              /\ Ahead(p) \in Nat
<1>1. Len(deal) \in Nat /\ Cur("P2") = Len(deal) + 1
  BY DEF TypeOK, DealType, IsSeq, Cur
<1>2. ASSUME NEW p \in Parties
      PROVE  Len(reg[p]) \in Nat /\ Cur(p) = Len(reg[p]) + 1
  BY PeerFacts DEF TypeOK, RegType, IsSeq, Cur
<1> QED
  BY <1>1, <1>2 DEF Ahead, TypeOK

\* The operands of the step that a party executes are words it holds.
LEMMA OperandFacts ==
  ASSUME TypeOK, NEW p \in Parties, NEW j \in 1 .. Cur(p), j \in TalkSteps
  PROVE  /\ Program[j].a \in 1 .. Len(reg[p]) /\ Program[j].a < j
         /\ reg[p][Program[j].a] \in Words(Program[j].op)
         /\ Program[j].op \in DealtOps \ {"mask"} =>
              /\ Program[j].b \in 1 .. Len(reg[p]) /\ Program[j].b < j
              /\ reg[p][Program[j].b] \in Words(Program[j].op)
<1>1. /\ Cur(p) = Len(reg[p]) + 1 /\ Len(reg[p]) \in Nat /\ j \in Steps
      /\ \A i \in 1 .. Len(reg[p]) : reg[p][i] \in Result(Program[i].op)
  BY CurFacts, ProgramFacts DEF TypeOK, RegType
<1>2. Program[j].a \in 1 .. (j - 1) /\ Program[Program[j].a].op \in Operands(Program[j].op)
  BY <1>1, ProgramAssumption DEF TalkSteps, InOps, DealtOps, OpenOps
<1>3. Program[j].op \in DealtOps \ {"mask"} =>
        Program[j].b \in 1 .. (j - 1) /\ Program[Program[j].b].op \in Operands(Program[j].op)
  BY <1>1, ProgramAssumption DEF DealtOps
<1>4. ASSUME NEW op, op \in Operands(Program[j].op)
      PROVE  Result(op) = Words(Program[j].op)
  BY <1>4 DEF Operands, Result, Words, AShares, XShares
<1>5. Program[j].a \in 1 .. Len(reg[p]) /\ Program[j].a < j
  BY <1>1, <1>2
<1>6. Program[j].op \in DealtOps \ {"mask"} => Program[j].b \in 1 .. Len(reg[p]) /\ Program[j].b < j
  BY <1>1, <1>3
<1> QED
  BY <1>1, <1>2, <1>3, <1>4, <1>5, <1>6

\* A running party that is in an exchange.
LEMMA RunningFacts ==
  ASSUME TypeOK, NEW p \in Parties, Running(p, DealtOps \cup OpenOps)
  PROVE  /\ Cur(p) \in TalkSteps /\ Cur(p) \in 1 .. Cur(p)
         /\ X(p) \in Words(Op(p))
         /\ Op(p) \in DealtOps \ {"mask"} => Y2(p) \in Words(Op(p))
<1>1. Cur(p) \in TalkSteps /\ Cur(p) \in 1 .. Cur(p)
  BY CurFacts DEF Running, TalkSteps, Op, Steps
<1> QED
  BY <1>1, OperandFacts DEF X, Y, Y2, Op

-----------------------------------------------------------------------------
(* FlowInv is preserved.  The actions share three effects on the state: a  *)
(* party appends a result, tells its peer something, completes a step.     *)

\* A party appends the result of its step.
LEMMA GrowReg ==
  ASSUME TypeOK, NEW p \in Parties, Cur(p) \in Steps, NEW v \in Result(Op(p)),
         reg' = [reg EXCEPT ![p] = Append(@, v)], deal' = deal
  PROVE  /\ reg' = [q \in Parties |-> reg'[q]]
         /\ \A q \in Parties : RegType(q)'
         /\ Cur(p)' = Cur(p) + 1 /\ Cur("P2")' = Cur("P2")
         /\ Cur(Peer(p))' = Cur(Peer(p)) /\ reg'[Peer(p)] = reg[Peer(p)]
         /\ Len(reg'[p]) = Len(reg[p]) + 1 /\ reg'[p][Len(reg[p]) + 1] = v
         /\ \A j \in 1 .. Len(reg[p]) : reg'[p][j] = reg[p][j]
<1>1. /\ reg = [q \in Parties |-> reg[q]] /\ \A q \in Parties : RegType(q)
      /\ Len(reg[p]) \in Nat /\ Cur(p) = Len(reg[p]) + 1 /\ IsSeq(reg[p])
  BY CurFacts DEF TypeOK, RegType
<1>2. reg'[p] = Append(reg[p], v) /\ \A q \in Parties : q # p => reg'[q] = reg[q]
  BY <1>1
<1>3. reg' = [q \in Parties |-> reg'[q]]
  BY <1>1
<1>4. /\ IsSeq(reg'[p]) /\ Len(reg'[p]) = Len(reg[p]) + 1
      /\ reg'[p][Len(reg[p]) + 1] = v
      /\ \A j \in 1 .. Len(reg[p]) : reg'[p][j] = reg[p][j]
  BY <1>1, <1>2, AppendIsSeq
<1>5. RegType(p)'
  <2>1. Len(reg[p]) + 1 <= Len(Program)
    BY <1>1, ProgramFacts DEF Steps
  <2>2. ASSUME NEW j \in 1 .. Len(reg'[p])
        PROVE  reg'[p][j] \in Result(Program[j].op)
    <3>1. CASE j = Len(reg[p]) + 1
      BY <3>1, <1>1, <1>4 DEF Op
    <3>2. CASE j \in 1 .. Len(reg[p])
      BY <3>2, <1>1, <1>4 DEF RegType
    <3> QED
      BY <3>1, <3>2, <1>1, <1>4
  <2> QED
    BY <2>1, <2>2, <1>4 DEF RegType
<1>6. ASSUME NEW q \in Parties, q # p PROVE RegType(q)'
  BY <1>6, <1>1, <1>2 DEF RegType
<1>7. /\ Cur(p)' = Cur(p) + 1 /\ Cur("P2")' = Cur("P2")
      /\ Cur(Peer(p))' = Cur(Peer(p)) /\ reg'[Peer(p)] = reg[Peer(p)]
  BY <1>1, <1>2, <1>4, PeerFacts DEF Cur
<1> QED
  BY <1>3, <1>4, <1>5, <1>6, <1>7

\* A party constructs a share, or takes a bit of one.
LEMMA FlowLocal ==
  ASSUME FlowInv, NEW p \in Parties, Local(p)
  PROVE  FlowInv'
<1> USE DEF FlowInv
<1>1. /\ Running(p, InOps \cup {"bit"}) /\ Cur(p) \in Steps
      /\ Cur(p) \notin TalkSteps /\ Cur(p) \notin DealSteps /\ st[p] = "run"
  BY DEF Local, Running, Op, TalkSteps, DealSteps, InOps, DealtOps, OpenOps
<1>2. pc[p] = "start"
  BY <1>1 DEF TypeOK, WaitType, Op, TalkSteps
<1>3. PICK v \in Result(Op(p)) : reg' = [reg EXCEPT ![p] = Append(@, v)]
  <2>1. CASE Op(p) = "inA"
    BY <2>1, SampleAssumption DEF Local, Result, AShares
  <2>2. CASE Op(p) = "inX"
    BY <2>2, SampleAssumption DEF Local, Result, AShares
  <2>3. CASE Op(p) = "bit"
    BY <2>3, BitOfType DEF Local, Result, AShares
  <2> QED
    BY <2>1, <2>2, <2>3, <1>1 DEF Running, InOps
<1>4. /\ reg' = [q \in Parties |-> reg'[q]]
      /\ \A q \in Parties : RegType(q)'
      /\ Cur(p)' = Cur(p) + 1 /\ Cur("P2")' = Cur("P2") /\ Cur(Peer(p))' = Cur(Peer(p))
  BY <1>1, <1>3, GrowReg DEF Local
<1>5. UNCHANGED <<st, pc, mat, deal, dealt, talk, crashes>>
  BY DEF Local
<1>6. /\ Ahead(p) = Cur(p) /\ Ahead(p)' = Ahead(p) + 1 /\ Ahead(Peer(p))' = Ahead(Peer(p))
      /\ Cur(p) \in Nat /\ Ahead(Peer(p)) \in Nat /\ Cur(Peer(p)) \in Nat /\ Cur("P2") \in Nat
  BY <1>2, <1>4, <1>5, CurFacts, PeerFacts DEF Ahead
<1>7. TypeOK'
  <2>1. ASSUME NEW q \in Parties PROVE WaitType(q)'
    <3>1. CASE q = p
      BY <3>1, <1>2, <1>5 DEF WaitType
    <3>2. CASE q = Peer(p)
      BY <3>2, <1>4, <1>5 DEF WaitType, Op, TypeOK
    <3> QED
      BY <3>1, <3>2 DEF Parties, Peer
  <2>2. ASSUME NEW q \in Parties PROVE DealtType(q)' /\ TalkType(q)'
    BY <1>5 DEF TypeOK, DealtType, TalkType
  <2> QED
    BY <2>1, <2>2, <1>4, <1>5 DEF TypeOK, DealType
<1>8. DealLink(p)' /\ TalkLink(p)'
  <2>1. \A q \in Roles : Up(q, p)' = Up(q, p) /\ Up(q, p) \in BOOLEAN
    BY <1>5 DEF Up
  <2>2. LinkOK(dealt[p], Ahead(p) + 1, Cur("P2"), DealSteps, Up("P2", p))
    BY <1>1, <1>6, <2>1, LinkSkipRead, ProgramFacts DEF DealLink, Roles
  <2>3. LinkOK(talk[p], Cur(p) + 1, Ahead(Peer(p)), TalkSteps, Up(Peer(p), p))
    BY <1>1, <1>6, <2>1, LinkSkipRead, ProgramFacts, PeerFacts DEF TalkLink
  <2> QED
    BY <2>1, <2>2, <2>3, <1>4, <1>5, <1>6, PeerFacts DEF DealLink, TalkLink, Roles
<1>9. DealLink(Peer(p))' /\ TalkLink(Peer(p))'
  <2>1. \A q \in Roles : Up(q, Peer(p))' = Up(q, Peer(p)) /\ Up(q, Peer(p)) \in BOOLEAN
    BY <1>5 DEF Up
  <2>2. LinkOK(talk[Peer(p)], Cur(Peer(p)), Ahead(p) + 1, TalkSteps, Up(p, Peer(p)))
    BY <1>1, <1>6, <2>1, LinkSkipWrite, ProgramFacts, PeerFacts DEF TalkLink
  <2> QED
    BY <2>1, <2>2, <1>4, <1>5, <1>6, PeerFacts DEF DealLink, TalkLink, Roles
<1>10. \A q \in Parties : PacedByDealer(q)' /\ PacedByPeer(q)'
  <2>1. PacedByDealer(p)' /\ PacedByPeer(p)'
    BY <1>1, <1>4, <1>6, ProgramFacts DEF PacedByDealer, PacedByPeer
  <2>2. PacedByDealer(Peer(p))' /\ PacedByPeer(Peer(p))'
    BY <1>1, <1>4, <1>6, ProgramFacts, PeerFacts DEF PacedByDealer, PacedByPeer
  <2> QED
    BY <2>1, <2>2 DEF Parties, Peer
<1>11. \A q \in Roles : Ended(q)'
  BY <1>1, <1>4, <1>5 DEF Ended, Roles, Parties, Peer
<1> QED
  BY <1>7, <1>8, <1>9, <1>10, <1>11 DEF Parties, Peer

\* The dealer's steps: deal grows and, if the step has material, both queues.
LEMMA FlowDeal ==
  ASSUME FlowInv, DealerStep
  PROVE  FlowInv'
<1> USE DEF FlowInv
<1>1. /\ Cur("P2") \in Steps /\ st["P2"] = "run" /\ UNCHANGED <<st, pc, mat, reg, talk, crashes>>
      /\ Cur("P2") = Len(deal) + 1 /\ Len(deal) \in Nat /\ IsSeq(deal)
  BY CurFacts DEF DealerStep, Deal, DealerLocal, Running, TypeOK, DealType
<1>2. PICK d : /\ deal' = Append(deal, d)
               /\ Cur("P2") \in DealSteps => d \in Draws(Op("P2"))
               /\ \/ Cur("P2") \notin DealSteps /\ dealt' = dealt
                  \/ /\ Cur("P2") \in DealSteps
                     /\ dealt' = [p \in Parties |->
                          Written(dealt[p], "P2", p, Material(Op("P2"), p, d))]
  <2>1. CASE Deal
    BY <2>1 DEF Deal, Running, DealSteps, Op
  <2>2. CASE DealerLocal
    <3>1. Cur("P2") \notin DealSteps
      BY <2>2 DEF DealerLocal, Running, DealSteps, Op, InOps, OpenOps, DealtOps
    <3> QED
      BY <3>1, <2>2 DEF DealerLocal
  <2> QED
    BY <2>1, <2>2 DEF DealerStep
<1>3. /\ IsSeq(deal') /\ Len(deal') = Len(deal) + 1 /\ deal'[Len(deal) + 1] = d
      /\ \A j \in 1 .. Len(deal) : deal'[j] = deal[j]
  BY <1>1, <1>2, AppendIsSeq
<1>4. /\ Cur("P2")' = Cur("P2") + 1 /\ Cur("P2") \in Nat
      /\ \A p \in Parties : /\ Cur(p)' = Cur(p) /\ Ahead(p)' = Ahead(p)
                             /\ Cur(p) \in Nat /\ Ahead(p) \in Nat
  BY <1>1, <1>3, CurFacts, PeerFacts DEF Cur, Ahead
<1>5. DealType'
  <2>1. Len(deal') <= Len(Program)
    BY <1>1, <1>3, ProgramFacts DEF Steps
  <2>2. ASSUME NEW j \in 1 .. Len(deal'), Program[j].op \in DealtOps
        PROVE  deal'[j] \in Draws(Program[j].op)
    <3>1. CASE j = Cur("P2")
      BY <3>1, <2>2, <1>1, <1>2, <1>3 DEF DealSteps, Op
    <3>2. CASE j \in 1 .. Len(deal)
      BY <3>2, <2>2, <1>3 DEF TypeOK, DealType
    <3> QED
      BY <3>1, <3>2, <1>1, <1>3
  <2> QED
    BY <2>1, <2>2, <1>3 DEF DealType
<1>6. ASSUME NEW p \in Parties
      PROVE  DealtType(p)' /\ DealLink(p)'
  <2>1. /\ Up("P2", p)' = Up("P2", p) /\ Up("P2", p) \in BOOLEAN /\ (Up("P2", p) <=> st[p] = "run")
        /\ DealtType(p) /\ IsSeq(dealt[p])
        /\ LinkOK(dealt[p], Ahead(p), Cur("P2"), DealSteps, Up("P2", p))
    BY <1>1 DEF Up, TypeOK, DealtType, DealLink
  <2>2. CASE dealt'[p] = dealt[p] /\ (Cur("P2") \notin DealSteps \/ ~Up("P2", p))
    <3>1. LinkOK(dealt[p], Ahead(p), Cur("P2") + 1, DealSteps, Up("P2", p))
      BY <2>1, <2>2, <1>4, ProgramFacts, LinkSkipWrite
    <3> QED
      BY <3>1, <2>1, <2>2, <1>4 DEF DealLink, DealtType
  <2>3. CASE Cur("P2") \in DealSteps /\ Up("P2", p)
    <3> DEFINE m == [k |-> Cur("P2"), v |-> Material(Op("P2"), p, d)]
    <3>1. dealt'[p] = Append(dealt[p], m)
      BY <2>1, <2>3, <1>2 DEF Written
    <3>2. m.k \in DealSteps /\ m.v \in MaterialType(Program[m.k].op)
      <4>1. Op("P2") \in DealtOps /\ d \in Draws(Op("P2")) /\ Op("P2") = Program[Cur("P2")].op
        BY <1>2, <2>3 DEF DealSteps, Op
      <4> QED
        BY <4>1, <2>3, MaterialTyped
    <3>3. Ahead(p) <= Cur("P2")
      BY <2>3, <1>4 DEF PacedByDealer
    <3>4. LinkOK(dealt'[p], Ahead(p), Cur("P2") + 1, DealSteps, TRUE)
      BY <3>1, <3>3, <2>1, <2>3, <1>4, ProgramFacts, LinkWrite
    <3>5. /\ IsSeq(dealt'[p]) /\ Len(dealt[p]) \in Nat /\ Len(dealt'[p]) = Len(dealt[p]) + 1
          /\ \A i \in 1 .. Len(dealt[p]) : dealt'[p][i] = dealt[p][i]
          /\ dealt'[p][Len(dealt[p]) + 1] = m
      BY <3>1, <2>1, AppendIsSeq DEF IsSeq
    <3> HIDE DEF m
    <3>6. DealtType(p)'
      <4>1. ASSUME NEW i \in 1 .. Len(dealt'[p])
            PROVE  /\ dealt'[p][i].k \in DealSteps
                   /\ dealt'[p][i].v \in MaterialType(Program[dealt'[p][i].k].op)
        <5>1. CASE i = Len(dealt[p]) + 1
          BY <5>1, <3>2, <3>5
        <5>2. CASE i \in 1 .. Len(dealt[p])
          BY <5>2, <3>5, <2>1 DEF DealtType
        <5> QED
          BY <5>1, <5>2, <3>5
      <4> QED
        BY <4>1, <3>5 DEF DealtType
    <3> QED
      BY <3>4, <3>6, <2>1, <2>3, <1>4 DEF DealLink
  <2> QED
    BY <2>1, <2>2, <2>3, <1>2 DEF Written
<1>7. TypeOK'
  <2>1. dealt' = [p \in Parties |-> dealt'[p]]
    BY <1>2 DEF TypeOK
  <2>2. ASSUME NEW p \in Parties PROVE RegType(p)' /\ WaitType(p)' /\ TalkType(p)'
    BY <1>1, <1>4 DEF TypeOK, RegType, WaitType, TalkType, Op
  <2> QED
    BY <2>1, <2>2, <1>1, <1>5, <1>6 DEF TypeOK
<1>8. ASSUME NEW p \in Parties PROVE TalkLink(p)' /\ PacedByDealer(p)' /\ PacedByPeer(p)'
  <2>1. TalkLink(p)'
    BY <1>1, <1>4, PeerFacts DEF TalkLink, Up
  <2>2. PacedByPeer(p)'
    BY <1>4, PeerFacts DEF PacedByPeer
  <2>3. PacedByDealer(p)'
    BY <1>4, ProgramFacts DEF PacedByDealer
  <2> QED
    BY <2>1, <2>2, <2>3
<1>9. \A q \in Roles : Ended(q)'
  BY <1>1, <1>4 DEF Ended, Roles
<1> QED
  BY <1>6, <1>7, <1>8, <1>9

\* A party writes the message of its step to its peer and starts to wait.
LEMMA TellStep ==
  ASSUME FlowInv, NEW p \in Parties, Running(p, DealtOps \cup OpenOps), pc[p] = "start",
         NEW v \in BlindType(Op(p)), Tell(p, v), pc' = [pc EXCEPT ![p] = "wait"],
         UNCHANGED <<st, reg, deal, crashes>>
  PROVE  /\ talk' = [q \in Parties |-> talk'[q]]
         /\ pc' \in [Parties -> {"start", "wait"}] /\ pc'[p] = "wait" /\ pc'[Peer(p)] = pc[Peer(p)]
         /\ Cur("P2")' = Cur("P2")
         /\ \A q \in Parties : Cur(q)' = Cur(q) /\ RegType(q)' /\ TalkType(q)' /\ TalkLink(q)'
         /\ \A q \in Parties : PacedByPeer(q)'
         /\ Ahead(p) = Cur(p) /\ Ahead(p)' = Cur(p) + 1 /\ Ahead(Peer(p))' = Ahead(Peer(p))
         /\ \A q \in Roles : Ended(q)'
         /\ talk'[p] = talk[p]
         /\ talk'[Peer(p)] = IF st[Peer(p)] = "run"
              THEN Append(talk[Peer(p)], [k |-> Cur(p), v |-> v]) ELSE talk[Peer(p)]
<1> USE DEF FlowInv
<1> DEFINE r == Peer(p)
<1>0. r \in Parties /\ r # p /\ Peer(r) = p /\ p # "P2" /\ r # "P2"
  BY PeerFacts
<1> HIDE DEF r
<1>1. talk' = [talk EXCEPT ![r] = Written(@, p, r, v)]
  BY DEF Tell, r
<1>2. /\ talk' = [q \in Parties |-> talk'[q]] /\ talk'[p] = talk[p]
      /\ talk'[r] = IF st[r] = "run" THEN Append(talk[r], [k |-> Cur(p), v |-> v]) ELSE talk[r]
  BY <1>0, <1>1 DEF TypeOK, Written
<1>3. /\ pc' \in [Parties -> {"start", "wait"}] /\ pc'[p] = "wait" /\ pc'[r] = pc[r]
  BY <1>0 DEF TypeOK
<1>4. /\ Cur("P2")' = Cur("P2")
      /\ \A q \in Parties : Cur(q)' = Cur(q) /\ Cur(q) \in Nat /\ Ahead(q) \in Nat
  BY CurFacts DEF Cur
<1>5. Ahead(p) = Cur(p) /\ Ahead(p)' = Cur(p) + 1 /\ Ahead(r)' = Ahead(r)
  BY <1>0, <1>3, <1>4 DEF Ahead
<1>6. \A q \in Parties : RegType(q)'
  BY DEF RegType, TypeOK
<1>7. /\ Cur(p) \in TalkSteps /\ v \in BlindType(Program[Cur(p)].op) /\ st[p] = "run"
  BY RunningFacts DEF Op, Running
<1>8. TalkLink(p)' /\ TalkType(p)'
  BY <1>0, <1>2, <1>4, <1>5 DEF TalkLink, TalkType, Up, TypeOK, r
<1>9. TalkType(r)' /\ TalkLink(r)'
  <2>1. /\ Up(p, r)' = Up(p, r) /\ Up(p, r) \in BOOLEAN /\ (Up(p, r) <=> st[r] = "run")
        /\ TalkType(r) /\ IsSeq(talk[r])
        /\ LinkOK(talk[r], Cur(r), Ahead(p), TalkSteps, Up(p, r))
    BY <1>0, <1>7 DEF Up, TypeOK, TalkType, TalkLink
  <2>2. CASE st[r] # "run"
    <3>1. LinkOK(talk[r], Cur(r), Ahead(p) + 1, TalkSteps, Up(p, r))
      BY <2>1, <2>2, <1>0, <1>4, ProgramFacts, LinkSkipWrite
    <3> QED
      BY <3>1, <2>1, <2>2, <1>0, <1>2, <1>4, <1>5 DEF TalkLink, TalkType
  <2>3. CASE st[r] = "run"
    <3> DEFINE m == [k |-> Cur(p), v |-> v]
    <3>1. talk'[r] = Append(talk[r], m)
      BY <2>3, <1>2
    <3>2. m.k \in TalkSteps /\ m.v \in BlindType(Program[m.k].op)
      BY <1>7
    <3>3. Cur(r) <= Cur(p)
      BY <1>0, <1>4, <1>5, <1>7 DEF PacedByPeer
    <3>4. LinkOK(talk'[r], Cur(r), Cur(p) + 1, TalkSteps, TRUE)
      BY <3>1, <3>3, <2>1, <2>3, <1>0, <1>4, <1>5, <1>7, ProgramFacts, LinkWrite
    <3>5. /\ IsSeq(talk'[r]) /\ Len(talk[r]) \in Nat /\ Len(talk'[r]) = Len(talk[r]) + 1
          /\ \A i \in 1 .. Len(talk[r]) : talk'[r][i] = talk[r][i]
          /\ talk'[r][Len(talk[r]) + 1] = m
      BY <3>1, <2>1, AppendIsSeq DEF IsSeq
    <3> HIDE DEF m
    <3>6. TalkType(r)'
      <4>1. ASSUME NEW i \in 1 .. Len(talk'[r])
            PROVE  /\ talk'[r][i].k \in TalkSteps
                   /\ talk'[r][i].v \in BlindType(Program[talk'[r][i].k].op)
        <5>1. CASE i = Len(talk[r]) + 1
          BY <5>1, <3>2, <3>5
        <5>2. CASE i \in 1 .. Len(talk[r])
          BY <5>2, <3>5, <2>1 DEF TalkType
        <5> QED
          BY <5>1, <5>2, <3>5
      <4> QED
        BY <4>1, <3>5 DEF TalkType
    <3> QED
      BY <3>4, <3>6, <2>1, <2>3, <1>0, <1>4, <1>5 DEF TalkLink
  <2> QED
    BY <2>2, <2>3
<1>10. PacedByPeer(p)' /\ PacedByPeer(r)'
  BY <1>0, <1>4, <1>5, ProgramFacts DEF PacedByPeer, r
<1>11. \A q \in Roles : Ended(q)'
  BY <1>4 DEF Ended, Roles
<1> QED
  BY <1>0, <1>2, <1>3, <1>4, <1>5, <1>6, <1>8, <1>9, <1>10, <1>11 DEF r, Parties, Peer

\* Blind preserves FlowInv.
LEMMA FlowBlind ==
  ASSUME FlowInv, NEW p \in Parties, Blind(p)
  PROVE  FlowInv' /\ Head(dealt[p]).k = Cur(p)
<1> USE DEF FlowInv
<1> DEFINE m == Head(dealt[p]).v
<1>1. /\ Running(p, DealtOps \cup OpenOps) /\ Op(p) \in DealtOps /\ pc[p] = "start"
      /\ Cur(p) \in DealSteps /\ dealt[p] # <<>>
      /\ UNCHANGED <<st, reg, deal, crashes>>
      /\ dealt' = [dealt EXCEPT ![p] = Tail(@)] /\ mat' = [mat EXCEPT ![p] = m]
      /\ pc' = [pc EXCEPT ![p] = "wait"] /\ Tell(p, Blinded(Op(p), X(p), Y2(p), m))
  BY DEF Blind, BlindWith, Running, Op, DealSteps
<1>2. /\ Ahead(p) = Cur(p) /\ Cur(p) \in Nat /\ Cur("P2") \in Nat
      /\ Up("P2", p) \in BOOLEAN /\ IsSeq(dealt[p]) /\ DealtType(p)
      /\ LinkOK(dealt[p], Cur(p), Cur("P2"), DealSteps, Up("P2", p))
  BY <1>1, CurFacts DEF DealLink, Up, TypeOK, DealtType
<1>3. /\ Head(dealt[p]).k = Cur(p)
      /\ LinkOK(Tail(dealt[p]), Cur(p) + 1, Cur("P2"), DealSteps, Up("P2", p))
  BY <1>1, <1>2, ProgramFacts, LinkRead
<1>4. /\ IsSeq(Tail(dealt[p])) /\ Len(dealt[p]) >= 1 /\ Len(dealt[p]) \in Nat
      /\ Len(Tail(dealt[p])) = Len(dealt[p]) - 1 /\ Head(dealt[p]) = dealt[p][1]
      /\ \A i \in 1 .. Len(Tail(dealt[p])) : Tail(dealt[p])[i] = dealt[p][i + 1]
  BY <1>1, <1>2, TailIsSeq DEF IsSeq
<1>5. m \in MaterialType(Op(p))
  BY <1>2, <1>3, <1>4 DEF DealtType, Op
<1> HIDE DEF m
<1>6. Blinded(Op(p), X(p), Y2(p), m) \in BlindType(Op(p))
  BY <1>1, <1>5, RunningFacts, BlindedTyped
<1>7. /\ talk' = [q \in Parties |-> talk'[q]]
      /\ pc' \in [Parties -> {"start", "wait"}] /\ pc'[p] = "wait" /\ pc'[Peer(p)] = pc[Peer(p)]
      /\ Cur("P2")' = Cur("P2")
      /\ \A q \in Parties : Cur(q)' = Cur(q) /\ RegType(q)' /\ TalkType(q)' /\ TalkLink(q)'
      /\ \A q \in Parties : PacedByPeer(q)'
      /\ Ahead(p)' = Cur(p) + 1 /\ Ahead(Peer(p))' = Ahead(Peer(p))
      /\ \A q \in Roles : Ended(q)'
  BY <1>1, <1>6, TellStep
<1>8. /\ dealt' = [q \in Parties |-> dealt'[q]] /\ mat' = [q \in Parties |-> mat'[q]]
      /\ dealt'[p] = Tail(dealt[p]) /\ mat'[p] = m
      /\ \A q \in Parties : q # p => dealt'[q] = dealt[q] /\ mat'[q] = mat[q]
  BY <1>1 DEF TypeOK
<1>9. \A q \in Parties : WaitType(q)'
  BY <1>1, <1>5, <1>7, <1>8 DEF TypeOK, WaitType, Op, Running, Parties, Peer
<1>10. \A q \in Parties : DealtType(q)'
  <2>1. ASSUME NEW i \in 1 .. Len(dealt'[p])
        PROVE  /\ dealt'[p][i].k \in DealSteps
               /\ dealt'[p][i].v \in MaterialType(Program[dealt'[p][i].k].op)
    <3>1. i + 1 \in 1 .. Len(dealt[p]) /\ dealt'[p][i] = dealt[p][i + 1]
      BY <1>4, <1>8
    <3> QED
      BY <3>1, <1>2 DEF DealtType
  <2> QED
    BY <2>1, <1>4, <1>8 DEF DealtType, TypeOK
<1>11. TypeOK'
  BY <1>1, <1>7, <1>8, <1>9, <1>10 DEF TypeOK, DealType
<1>12. DealLink(p)' /\ DealLink(Peer(p))'
  BY <1>1, <1>3, <1>7, <1>8, PeerFacts DEF DealLink, Up
<1>13. PacedByDealer(p)' /\ PacedByDealer(Peer(p))'
  <2>1. Cur(p) < Cur("P2")
    BY <1>2, <1>3, <1>4 DEF LinkOK
  <2> QED
    BY <2>1, <1>2, <1>7, ProgramFacts, PeerFacts DEF PacedByDealer
<1> QED
  BY <1>3, <1>7, <1>11, <1>12, <1>13 DEF Parties, Peer

\* SendShare preserves FlowInv.
LEMMA FlowSendShare ==
  ASSUME FlowInv, NEW p \in Parties, SendShare(p)
  PROVE  FlowInv'
<1> USE DEF FlowInv
<1>1. /\ Running(p, DealtOps \cup OpenOps) /\ Op(p) \in OpenOps /\ pc[p] = "start"
      /\ Cur(p) \notin DealSteps
      /\ UNCHANGED <<st, mat, reg, deal, dealt, crashes>>
      /\ pc' = [pc EXCEPT ![p] = "wait"] /\ Tell(p, <<X(p)>>)
  BY DEF SendShare, Running, Op, DealSteps, OpenOps, DealtOps
<1>2. <<X(p)>> \in BlindType(Op(p))
  <2>1. X(p) \in Words(Op(p))
    BY <1>1, RunningFacts
  <2> QED
    BY <2>1, <1>1 DEF BlindType, Words, TakesA, OpenOps
<1>3. /\ talk' = [q \in Parties |-> talk'[q]]
      /\ pc' \in [Parties -> {"start", "wait"}] /\ pc'[p] = "wait" /\ pc'[Peer(p)] = pc[Peer(p)]
      /\ Cur("P2")' = Cur("P2")
      /\ \A q \in Parties : Cur(q)' = Cur(q) /\ RegType(q)' /\ TalkType(q)' /\ TalkLink(q)'
      /\ \A q \in Parties : PacedByPeer(q)'
      /\ Ahead(p) = Cur(p) /\ Ahead(p)' = Cur(p) + 1 /\ Ahead(Peer(p))' = Ahead(Peer(p))
      /\ \A q \in Roles : Ended(q)'
  BY <1>1, <1>2, TellStep
<1>4. \A q \in Parties : WaitType(q)' /\ DealtType(q)'
  <2>1. WaitType(p)'
    BY <1>1, <1>3 DEF WaitType, Op, Running, OpenOps, DealtOps
  <2>2. WaitType(Peer(p))'
    BY <1>1, <1>3, PeerFacts DEF TypeOK, WaitType, Op
  <2> QED
    BY <2>1, <2>2, <1>1 DEF TypeOK, DealtType, Parties, Peer
<1>5. TypeOK'
  BY <1>1, <1>3, <1>4 DEF TypeOK, DealType
<1>6. DealLink(p)' /\ DealLink(Peer(p))'
  <2>1. Up("P2", p) \in BOOLEAN /\ Cur(p) \in Nat /\ Cur("P2") \in Nat
    BY CurFacts DEF Up
  <2>2. LinkOK(dealt[p], Cur(p) + 1, Cur("P2"), DealSteps, Up("P2", p))
    BY <2>1, <1>1, <1>3, ProgramFacts, LinkSkipRead DEF DealLink
  <2> QED
    BY <2>2, <1>1, <1>3, PeerFacts DEF DealLink, Up
<1>7. PacedByDealer(p)' /\ PacedByDealer(Peer(p))'
  <2>1. Cur(p) \in Nat
    BY CurFacts
  <2> QED
    BY <2>1, <1>1, <1>3, ProgramFacts, PeerFacts DEF PacedByDealer
<1> QED
  BY <1>3, <1>5, <1>6, <1>7 DEF Parties, Peer

\* A waiting party reads its peer's message, which is of its own step.
LEMMA PeerMessage ==
  ASSUME FlowInv, NEW p \in Parties, Running(p, DealtOps \cup OpenOps), pc[p] = "wait",
         talk[p] # <<>>
  PROVE  /\ Head(talk[p]).k = Cur(p) /\ Head(talk[p]).v \in BlindType(Op(p))
         /\ Cur(p) < Ahead(Peer(p))
         /\ LinkOK(Tail(talk[p]), Cur(p) + 1, Ahead(Peer(p)), TalkSteps, Up(Peer(p), p))
         /\ IsSeq(Tail(talk[p])) /\ Len(talk[p]) \in Nat /\ Len(talk[p]) >= 1
         /\ Len(Tail(talk[p])) = Len(talk[p]) - 1 /\ Head(talk[p]) = talk[p][1]
         /\ \A i \in 1 .. Len(Tail(talk[p])) : Tail(talk[p])[i] = talk[p][i + 1]
<1> USE DEF FlowInv
<1>1. /\ Cur(p) \in TalkSteps /\ Cur(p) \in Nat /\ Ahead(Peer(p)) \in Nat
      /\ Up(Peer(p), p) \in BOOLEAN /\ IsSeq(talk[p]) /\ TalkType(p)
      /\ LinkOK(talk[p], Cur(p), Ahead(Peer(p)), TalkSteps, Up(Peer(p), p))
  BY CurFacts, PeerFacts, RunningFacts DEF TalkLink, Up, TypeOK, TalkType
<1>2. /\ Head(talk[p]).k = Cur(p)
      /\ LinkOK(Tail(talk[p]), Cur(p) + 1, Ahead(Peer(p)), TalkSteps, Up(Peer(p), p))
  BY <1>1, ProgramFacts, LinkRead
<1>3. /\ IsSeq(Tail(talk[p])) /\ Len(talk[p]) \in Nat /\ Len(talk[p]) >= 1
      /\ Len(Tail(talk[p])) = Len(talk[p]) - 1 /\ Head(talk[p]) = talk[p][1]
      /\ \A i \in 1 .. Len(Tail(talk[p])) : Tail(talk[p])[i] = talk[p][i + 1]
  BY <1>1, TailIsSeq DEF IsSeq
<1>4. Cur(p) < Ahead(Peer(p))
  BY <1>1, <1>2, <1>3 DEF LinkOK
<1> QED
  BY <1>1, <1>2, <1>3, <1>4 DEF TalkType, Op

\* Reading the peer's message and completing the step preserves FlowInv.
LEMMA CompleteStep ==
  ASSUME FlowInv, NEW p \in Parties, Running(p, DealtOps \cup OpenOps), pc[p] = "wait",
         talk[p] # <<>>, NEW v \in Result(Op(p)), Complete(p, v),
         UNCHANGED <<st, deal, dealt, crashes>>
  PROVE  FlowInv'
<1> USE DEF FlowInv
<1>1. /\ talk' = [talk EXCEPT ![p] = Tail(@)] /\ reg' = [reg EXCEPT ![p] = Append(@, v)]
      /\ pc' = [pc EXCEPT ![p] = "start"] /\ mat' = [mat EXCEPT ![p] = <<>>]
      /\ Cur(p) \in Steps
  BY DEF Complete, Running
<1>2. /\ reg' = [q \in Parties |-> reg'[q]]
      /\ \A q \in Parties : RegType(q)'
      /\ Cur(p)' = Cur(p) + 1 /\ Cur("P2")' = Cur("P2") /\ Cur(Peer(p))' = Cur(Peer(p))
  BY <1>1, GrowReg
<1>3. /\ talk' = [q \in Parties |-> talk'[q]] /\ mat' = [q \in Parties |-> mat'[q]]
      /\ pc' \in [Parties -> {"start", "wait"}] /\ pc'[p] = "start"
      /\ talk'[p] = Tail(talk[p])
      /\ \A q \in Parties : q # p => talk'[q] = talk[q] /\ mat'[q] = mat[q] /\ pc'[q] = pc[q]
  BY <1>1 DEF TypeOK
<1>4. /\ Ahead(p) = Cur(p) + 1 /\ Ahead(p)' = Ahead(p) /\ Ahead(Peer(p))' = Ahead(Peer(p))
      /\ Cur(p) \in Nat
  BY <1>2, <1>3, CurFacts, PeerFacts DEF Ahead
<1>5. TypeOK'
  <2>1. WaitType(p)' /\ WaitType(Peer(p))'
    BY <1>2, <1>3, PeerFacts DEF TypeOK, WaitType, Op
  <2>2. TalkType(p)'
    <3>1. ASSUME NEW i \in 1 .. Len(talk'[p])
          PROVE  /\ talk'[p][i].k \in TalkSteps
                 /\ talk'[p][i].v \in BlindType(Program[talk'[p][i].k].op)
      <4>1. i + 1 \in 1 .. Len(talk[p]) /\ talk'[p][i] = talk[p][i + 1]
        BY <1>3, PeerMessage
      <4> QED
        BY <4>1 DEF TypeOK, TalkType
    <3> QED
      BY <3>1, <1>3, PeerMessage DEF TalkType
  <2>3. TalkType(Peer(p))'
    BY <1>3, PeerFacts DEF TypeOK, TalkType
  <2>4. \A q \in Parties : DealtType(q)'
    BY DEF TypeOK, DealtType
  <2>5. \A q \in Parties : WaitType(q)' /\ TalkType(q)'
    BY <2>1, <2>2, <2>3 DEF Parties, Peer
  <2> QED
    BY <2>4, <2>5, <1>2, <1>3 DEF TypeOK, DealType
<1>6. DealLink(p)' /\ DealLink(Peer(p))'
  BY <1>2, <1>4, PeerFacts DEF DealLink, Up
<1>7. TalkLink(p)' /\ TalkLink(Peer(p))'
  <2>1. LinkOK(Tail(talk[p]), Cur(p) + 1, Ahead(Peer(p)), TalkSteps, Up(Peer(p), p))
    BY PeerMessage
  <2> QED
    BY <2>1, <1>2, <1>3, <1>4, PeerFacts DEF TalkLink, Up
<1>8. \A q \in Parties : PacedByDealer(q)' /\ PacedByPeer(q)'
  <2>1. PacedByDealer(p)' /\ PacedByDealer(Peer(p))'
    BY <1>2, <1>4, PeerFacts DEF PacedByDealer
  <2>2. PacedByPeer(Peer(p))'
    BY <1>2, <1>4, PeerFacts DEF PacedByPeer
  <2>3. PacedByPeer(p)'
    <3>1. Cur(p) < Ahead(Peer(p))
      BY PeerMessage
    <3>2. \A j \in TalkSteps : j < Cur(p) + 1 => j < Cur(p) \/ j = Cur(p)
      BY <1>4, ProgramFacts
    <3> QED
      BY <3>1, <3>2, <1>2, <1>4 DEF PacedByPeer
  <2> QED
    BY <2>1, <2>2, <2>3 DEF Parties, Peer
<1>9. \A q \in Roles : Ended(q)'
  BY <1>2 DEF Ended, Roles, Running, Parties, Peer
<1> QED
  BY <1>5, <1>6, <1>7, <1>8, <1>9 DEF Parties, Peer

\* Exchange preserves FlowInv.
LEMMA FlowExchange ==
  ASSUME FlowInv, NEW p \in Parties, Exchange(p)
  PROVE  FlowInv'
<1>1. /\ Running(p, DealtOps \cup OpenOps) /\ Op(p) \in DealtOps /\ pc[p] = "wait"
      /\ talk[p] # <<>> /\ TypeOK
  BY DEF Exchange, Running, FlowInv
<1>2. /\ Head(talk[p]).v \in BlindType(Op(p)) /\ mat[p] \in MaterialType(Op(p))
      /\ X(p) \in Words(Op(p)) /\ (Op(p) # "mask" => Y2(p) \in Words(Op(p)))
  BY <1>1, PeerMessage, RunningFacts DEF TypeOK, WaitType
<1>3. OutShare(Op(p), p, X(p), Y2(p), mat[p], Head(talk[p]).v) \in Result(Op(p))
  BY <1>1, <1>2, OutShareTyped
<1> QED
  BY <1>1, <1>3, CompleteStep DEF Exchange

\* RecvShare preserves FlowInv.
LEMMA FlowRecvShare ==
  ASSUME FlowInv, NEW p \in Parties, RecvShare(p)
  PROVE  FlowInv'
<1>1. /\ Running(p, DealtOps \cup OpenOps) /\ Op(p) \in OpenOps /\ pc[p] = "wait"
      /\ talk[p] # <<>> /\ TypeOK
  BY DEF RecvShare, Running, FlowInv
<1>2. Head(talk[p]).v \in BlindType(Op(p)) /\ X(p) \in Words(Op(p))
  BY <1>1, PeerMessage, RunningFacts
<1>3. Head(talk[p]).v[1] \in Words(Op(p))
  BY <1>1, <1>2 DEF BlindType, Words, TakesA, OpenOps
<1>4. Combine(Op(p), X(p), Head(talk[p]).v[1]) \in Result(Op(p))
  BY <1>1, <1>2, <1>3, CombineTyped
<1> QED
  BY <1>1, <1>4, CompleteStep DEF RecvShare

\* A role ends, in whatever way, and its sockets close.
LEMMA FlowEnd ==
  ASSUME FlowInv, NEW p \in Roles, NEW how \in {"done", "threw", "killed"}, End(p, how),
         st[p] = "run", crashes' \in 0 .. MaxCrashes,
         how = "done" => Cur(p) = Len(Program) + 1 /\ crashes' = crashes,
         how # "done" => crashes' # 0
  PROVE  FlowInv'
<1> USE DEF FlowInv
<1>1. st' = [st EXCEPT ![p] = how] /\ CloseSockets(p) /\ UNCHANGED <<pc, mat, reg, deal>>
  BY DEF End
<1>2. /\ st' \in [Roles -> {"run", "done", "threw", "killed"}] /\ st'[p] = how
      /\ \A q \in Roles : q # p => st'[q] = st[q]
  BY <1>1 DEF TypeOK
<1>3. /\ Cur("P2")' = Cur("P2") /\ Cur("P2") \in Nat
      /\ \A q \in Parties : /\ Cur(q)' = Cur(q) /\ Ahead(q)' = Ahead(q)
                             /\ Cur(q) \in Nat /\ Ahead(q) \in Nat
                             /\ IsSeq(dealt[q]) /\ IsSeq(talk[q])
                             /\ Len(dealt[q]) \in Nat /\ Len(talk[q]) \in Nat
  BY <1>1, CurFacts DEF Cur, Ahead, TypeOK, DealtType, TalkType, IsSeq
<1>4. /\ dealt' = [q \in Parties |-> dealt'[q]] /\ talk' = [q \in Parties |-> talk'[q]]
      /\ \A q \in Parties :
           /\ dealt'[q] = IF q = p THEN <<>> ELSE dealt[q]
           /\ q = p => talk'[q] = <<>>
           /\ q # p => \E n \in 0 .. Len(talk[q]) :
                /\ n # Len(talk[q]) => Peer(q) = p /\ talk[p] # <<>>
                /\ talk'[q] = SubSeq(talk[q], 1, n)
  <2>1. CASE p = "P2"
    <3>1. UNCHANGED <<dealt, talk>>
      BY <1>1, <2>1 DEF CloseSockets, Parties
    <3>2. ASSUME NEW q \in Parties PROVE talk[q] = SubSeq(talk[q], 1, Len(talk[q]))
      BY <1>3, WholeIsSeq
    <3>3. \A q \in Parties : q # p /\ Len(talk[q]) \in 0 .. Len(talk[q])
      BY <1>3, <2>1, PeerFacts
    <3>4. dealt' = [q \in Parties |-> dealt'[q]] /\ talk' = [q \in Parties |-> talk'[q]]
      BY <3>1 DEF TypeOK
    <3> QED
      BY <3>1, <3>2, <3>3, <3>4
  <2>2. CASE p \in Parties
    <3>1. PICK n \in Kept(p) : talk' = [talk EXCEPT ![p] = <<>>, ![Peer(p)] = SubSeq(@, 1, n)]
      BY <1>1, <2>2, PeerFacts DEF CloseSockets
    <3>2. dealt' = [dealt EXCEPT ![p] = <<>>]
      BY <1>1, <2>2, PeerFacts DEF CloseSockets
    <3>3. /\ n \in 0 .. Len(talk[Peer(p)])
          /\ n # Len(talk[Peer(p)]) => talk[p] # <<>>
      BY <1>3, <2>2, PeerFacts DEF Kept
    <3>4. talk'[p] = <<>> /\ talk'[Peer(p)] = SubSeq(talk[Peer(p)], 1, n)
      BY <3>1, <2>2, PeerFacts DEF TypeOK
    <3>5. talk' = [q \in Parties |-> talk'[q]] /\ dealt' = [q \in Parties |-> dealt'[q]]
      BY <3>1, <3>2 DEF TypeOK
    <3>6. \A q \in Parties : dealt'[q] = IF q = p THEN <<>> ELSE dealt[q]
      BY <3>2 DEF TypeOK
    <3>7. \A q \in Parties : q # p => q = Peer(p) /\ Peer(q) = p
      BY <2>2 DEF Parties, Peer
    <3> QED
      BY <3>3, <3>4, <3>5, <3>6, <3>7
  <2> QED
    BY <2>1, <2>2 DEF Roles
<1>5. ASSUME NEW q \in Parties PROVE DealtType(q)' /\ DealLink(q)'
  <2>1. CASE q = p
    <3>1. dealt'[q] = <<>> /\ Up("P2", q)' = FALSE
      BY <2>1, <1>2, <1>4 DEF Up
    <3>2. DealtType(q)'
      BY <3>1, EmptyIsSeq DEF DealtType
    <3>3. DealLink(q)'
      BY <3>1, EmptyIsSeq DEF DealLink, LinkOK
    <3> QED
      BY <3>2, <3>3
  <2>2. CASE q # p
    <3>1. dealt'[q] = dealt[q] /\ st'[q] = st[q]
      BY <2>2, <1>2, <1>4, PeerFacts
    <3>2. DealtType(q)'
      BY <3>1 DEF DealtType, TypeOK
    <3>3. LinkOK(dealt[q], Ahead(q), Cur("P2"), DealSteps, Up("P2", q))
      BY DEF DealLink
    <3>4. Up("P2", q)' => Up("P2", q)
      BY <3>1, <1>2 DEF Up, Roles
    <3>5. LinkOK(dealt[q], Ahead(q), Cur("P2"), DealSteps, Up("P2", q)')
      BY <3>3, <3>4 DEF LinkOK
    <3> QED
      BY <3>1, <3>2, <3>5, <1>3 DEF DealLink
  <2> QED
    BY <2>1, <2>2
<1>6. ASSUME NEW q \in Parties PROVE TalkType(q)' /\ TalkLink(q)'
  <2>1. CASE q = p
    <3>1. talk'[q] = <<>> /\ Up(Peer(q), q)' = FALSE
      BY <2>1, <1>2, <1>4 DEF Up
    <3>2. TalkType(q)'
      BY <3>1, EmptyIsSeq DEF TalkType
    <3>3. TalkLink(q)'
      BY <3>1, EmptyIsSeq DEF TalkLink, LinkOK
    <3> QED
      BY <3>2, <3>3
  <2>2. CASE q # p
    <3>1. PICK n \in 0 .. Len(talk[q]) :
            /\ n # Len(talk[q]) => Peer(q) = p /\ talk[p] # <<>>
            /\ talk'[q] = SubSeq(talk[q], 1, n)
      BY <2>2, <1>4
    <3>2. IsSeq(talk'[q]) /\ Len(talk'[q]) = n /\ \A i \in 1 .. n : talk'[q][i] = talk[q][i]
      BY <3>1, <1>3, PrefixIsSeq
    <3>3. TalkType(q)'
      BY <3>2 DEF TalkType, TypeOK
    <3>4. Up(Peer(q), q) \in BOOLEAN /\ LinkOK(talk[q], Cur(q), Ahead(Peer(q)), TalkSteps, Up(Peer(q), q))
      BY DEF TalkLink, Up
    <3>5. ASSUME n = Len(talk[q]) PROVE TalkLink(q)'
      <4>1. talk'[q] = talk[q]
        BY <3>2, <3>5, <1>3 DEF IsSeq
      <4>2. Up(Peer(q), q)' => Up(Peer(q), q)
        BY <2>2, <1>2, PeerFacts DEF Up
      <4>3. LinkOK(talk[q], Cur(q), Ahead(Peer(q)), TalkSteps, Up(Peer(q), q)')
        BY <3>4, <4>2 DEF LinkOK
      <4> QED
        BY <4>1, <4>3, <1>3, PeerFacts DEF TalkLink
    <3>6. ASSUME n # Len(talk[q]) PROVE TalkLink(q)'
      <4>1. p = Peer(q) /\ p \in Parties /\ talk[p] # <<>>
        BY <3>1, <3>6, PeerFacts
      <4>2. how # "done"
        <5>1. SUFFICES ASSUME how = "done" PROVE FALSE
          OBVIOUS
        <5>2. Cur(p) = Len(Program) + 1
          BY <5>1
        <5>3. Len(talk[p]) >= 1
          BY <4>1, <1>3, TailIsSeq
        <5>4. talk[p][1].k \in TalkSteps /\ talk[p][1].k >= Cur(p)
          BY <5>3, <4>1, <1>3 DEF TalkLink, LinkOK
        <5>5. talk[p][1].k \in 1 .. Len(Program) /\ Len(Program) \in Nat
          BY <5>4, ProgramFacts DEF Steps
        <5> QED
          BY <5>2, <5>4, <5>5
      <4>3. Up(Peer(q), q)' = FALSE
        BY <4>1, <4>2, <1>2 DEF Up
      <4>4. LinkOK(talk'[q], Cur(q), Ahead(Peer(q)), TalkSteps, FALSE)
        <5>1. IsSeq(talk[q]) /\ Cur(q) \in Nat /\ Ahead(Peer(q)) \in Nat /\ TalkSteps \in SUBSET Nat
          BY <1>3, PeerFacts, ProgramFacts
        <5> QED
          BY <5>1, <3>1, <3>4, LinkCut
      <4> QED
        BY <4>3, <4>4, <1>3, PeerFacts DEF TalkLink
    <3> QED
      BY <3>3, <3>5, <3>6
  <2> QED
    BY <2>1, <2>2
<1>7. TypeOK'
  <2>1. ASSUME NEW q \in Parties PROVE RegType(q)' /\ WaitType(q)'
    BY <1>1, <1>3 DEF TypeOK, RegType, WaitType, Op
  <2> QED
    BY <2>1, <1>1, <1>2, <1>4, <1>5, <1>6 DEF TypeOK, DealType
<1>8. ASSUME NEW q \in Parties PROVE PacedByDealer(q)' /\ PacedByPeer(q)'
  BY <1>3, PeerFacts DEF PacedByDealer, PacedByPeer
<1>9. ASSUME NEW q \in Roles PROVE Ended(q)'
  <2>1. Cur(q)' = Cur(q)
    BY <1>3 DEF Roles
  <2>2. CASE q = p
    BY <2>1, <2>2, <1>2 DEF Ended
  <2>3. CASE q # p
    BY <2>1, <2>3, <1>2 DEF Ended
  <2> QED
    BY <2>2, <2>3
<1> QED
  BY <1>5, <1>6, <1>7, <1>8, <1>9

\* Reading and writing fail only once a process has been killed.
LEMMA NoIoError ==
  ASSUME FlowInv, NEW p \in Roles, IoError(p)
  PROVE  crashes # 0
<1>0. /\ TypeOK /\ \A q \in Roles : Ended(q)
      /\ \A q \in Parties : DealLink(q) /\ TalkLink(q) /\ PacedByDealer(q) /\ PacedByPeer(q)
  BY DEF FlowInv
<1>1. SUFFICES ASSUME crashes = 0 PROVE FALSE
  OBVIOUS
<1>2. ASSUME NEW q \in Roles, st[q] # "run" PROVE st[q] = "done" /\ Cur(q) = Len(Program) + 1
  BY <1>0, <1>1, <1>2 DEF Ended
<1>3. ASSUME NEW j \in TalkSteps, NEW q \in Roles, st[q] # "run" PROVE j \in Nat /\ j < Cur(q)
  <2>1. j \in 1 .. Len(Program) /\ Len(Program) \in Nat
    BY ProgramFacts DEF Steps
  <2> QED
    BY <2>1, <1>2, <1>3
<1>4. Cur("P2") \in Nat
  BY <1>0, CurFacts
<1>5. ASSUME NEW q \in Parties
      PROVE  /\ Cur(q) \in Nat /\ Ahead(q) \in Nat /\ Cur(q) <= Ahead(q)
             /\ pc[q] = "start" => Ahead(q) = Cur(q)
  BY <1>0, CurFacts DEF TypeOK
<1>6. ASSUME p \in Parties, WaitsForDeal(p), st["P2"] # "run", dealt[p] = <<>>
      PROVE  FALSE
  <2>1. Cur(p) \in DealSteps /\ Cur(p) \in TalkSteps /\ st[p] = "run" /\ pc[p] = "start"
    BY <1>6 DEF WaitsForDeal, Running, DealSteps, TalkSteps, Op
  <2>2. Cur(p) < Cur("P2") /\ st["P2"] = "done"
    BY <2>1, <1>2, <1>3, <1>6 DEF Roles
  <2>3. Ahead(p) = Cur(p) /\ Up("P2", p) = TRUE
    BY <2>1, <2>2, <1>5, <1>6 DEF Up
  <2>4. LinkOK(dealt[p], Cur(p), Cur("P2"), DealSteps, TRUE)
    BY <2>3, <1>0, <1>6 DEF DealLink
  <2> QED
    BY <2>1, <2>2, <2>4, <1>4, <1>5, <1>6, ProgramFacts, LinkNonempty
<1>7. ASSUME p \in Parties, WaitsForPeer(p), st[Peer(p)] # "run", talk[p] = <<>>
      PROVE  FALSE
  <2>1. Cur(p) \in TalkSteps /\ st[p] = "run"
    BY <1>7 DEF WaitsForPeer, Running, TalkSteps, Op
  <2>2. Peer(p) \in Parties /\ Peer(p) \in Roles
    BY <1>7, PeerFacts
  <2>3. Cur(p) < Cur(Peer(p)) /\ st[Peer(p)] = "done"
    BY <2>1, <2>2, <1>2, <1>3, <1>7
  <2>4. Cur(p) < Ahead(Peer(p)) /\ Ahead(Peer(p)) \in Nat /\ Cur(p) \in Nat
    BY <2>2, <2>3, <1>5, <1>7
  <2>5. Up(Peer(p), p) = TRUE
    BY <2>1, <2>3 DEF Up
  <2>6. LinkOK(talk[p], Cur(p), Ahead(Peer(p)), TalkSteps, TRUE)
    BY <2>5, <1>0, <1>7 DEF TalkLink
  <2> QED
    BY <2>1, <2>4, <2>6, <1>7, ProgramFacts, LinkNonempty
<1>8. ASSUME NEW q, q \in WritesTo(p), st[q] # "run"
      PROVE  FALSE
  <2>1. CASE p = "P2"
    <3>1. q \in Parties /\ Cur("P2") \in DealSteps /\ Cur("P2") \in TalkSteps
      BY <2>1, <1>8 DEF WritesTo, Running, DealSteps, TalkSteps, Op
    <3>2. Cur("P2") < Cur(q)
      BY <3>1, <1>3, <1>8, PeerFacts
    <3>3. Cur("P2") < Ahead(q)
      BY <3>1, <3>2, <1>4, <1>5
    <3>4. Cur("P2") < Cur("P2")
      BY <3>1, <3>3, <1>0 DEF PacedByDealer
    <3> QED
      BY <3>4, <1>4
  <2>2. CASE p \in Parties
    <3>1. q = Peer(p) /\ Cur(p) \in TalkSteps /\ pc[p] = "start"
      BY <2>2, <1>8, PeerFacts DEF WritesTo, WaitsForDeal, Running, TalkSteps, Op
    <3>2. Peer(p) \in Parties /\ Peer(p) \in Roles /\ Peer(Peer(p)) = p
      BY <2>2, PeerFacts
    <3>3. Cur(p) < Cur(Peer(p))
      BY <3>1, <3>2, <1>3, <1>8
    <3>4. Cur(p) < Ahead(p)
      BY <3>1, <3>2, <3>3, <1>0 DEF PacedByPeer
    <3> QED
      BY <3>1, <3>4, <2>2, <1>5
  <2> QED
    BY <2>1, <2>2 DEF Roles
<1> QED
  BY <1>6, <1>7, <1>8 DEF IoError

\* FlowInv holds initially.
LEMMA FlowInit == Init => FlowInv
<1> SUFFICES ASSUME Init PROVE FlowInv
  OBVIOUS
<1>1. /\ \A p \in Parties : reg[p] = <<>> /\ dealt[p] = <<>> /\ talk[p] = <<>> /\ pc[p] = "start"
      /\ deal = <<>> /\ \A p \in Roles : st[p] = "run"
  BY DEF Init
<1>2. TypeOK
  BY <1>1, EmptyIsSeq, SampleAssumption, ProgramFacts
     DEF Init, TypeOK, RegType, WaitType, DealtType, TalkType, DealType
<1>3. \A p \in Parties : DealLink(p) /\ TalkLink(p)
  <2>1. Cur("P2") = 1 /\ \A p \in Parties : Cur(p) = 1 /\ Ahead(p) = 1
    BY <1>1, EmptyIsSeq, PeerFacts DEF Cur, Ahead
  <2>2. ASSUME NEW some \in SUBSET Nat, NEW u PROVE LinkOK(<<>>, 1, 1, some, u)
    BY EmptyIsSeq DEF LinkOK
  <2> QED
    BY <1>1, <2>1, <2>2, ProgramFacts, PeerFacts DEF DealLink, TalkLink
<1>4. \A p \in Parties : PacedByDealer(p) /\ PacedByPeer(p)
  <2>1. Cur("P2") = 1 /\ \A p \in Parties : Cur(p) = 1 /\ Ahead(p) = 1
    BY <1>1, EmptyIsSeq, PeerFacts DEF Cur, Ahead
  <2> QED
    BY <2>1, PeerFacts DEF PacedByDealer, PacedByPeer
<1> QED
  BY <1>1, <1>2, <1>3, <1>4 DEF FlowInv, Ended

\* Stuttering preserves FlowInv.
LEMMA FlowStutter == FlowInv /\ UNCHANGED vars => FlowInv'
<1> SUFFICES ASSUME FlowInv, UNCHANGED vars PROVE FlowInv'
  OBVIOUS
<1>1. UNCHANGED <<st, pc, mat, reg, deal, dealt, talk, crashes>>
  BY DEF vars
<1>2. /\ Cur("P2")' = Cur("P2") /\ \A p \in Roles : Cur(p)' = Cur(p)
      /\ \A p \in Parties : Cur(p)' = Cur(p) /\ Ahead(p)' = Ahead(p)
  BY <1>1 DEF Cur, Ahead
<1>3. TypeOK'
  <2>1. ASSUME NEW p \in Parties PROVE RegType(p)' /\ WaitType(p)' /\ DealtType(p)' /\ TalkType(p)'
    BY <1>1, <1>2 DEF FlowInv, TypeOK, RegType, WaitType, DealtType, TalkType, Op
  <2>2. DealType'
    BY <1>1 DEF FlowInv, TypeOK, DealType
  <2> QED
    BY <2>1, <2>2, <1>1 DEF FlowInv, TypeOK
<1>4. ASSUME NEW p \in Parties PROVE DealLink(p)' /\ TalkLink(p)'
  BY <1>1, <1>2, PeerFacts DEF FlowInv, DealLink, TalkLink, Up
<1>5. ASSUME NEW p \in Parties PROVE PacedByDealer(p)' /\ PacedByPeer(p)'
  BY <1>1, <1>2, PeerFacts DEF FlowInv, PacedByDealer, PacedByPeer
<1>6. ASSUME NEW p \in Roles PROVE Ended(p)'
  BY <1>1, <1>2 DEF FlowInv, Ended
<1> QED
  BY <1>3, <1>4, <1>5, <1>6 DEF FlowInv

\* Every step preserves FlowInv.
LEMMA FlowNext == FlowInv /\ [Next]_vars => FlowInv'
<1>1. ASSUME FlowInv, NEW p \in Parties, PartyStep(p) PROVE FlowInv'
  BY <1>1, FlowLocal, FlowBlind, FlowExchange, FlowSendShare, FlowRecvShare DEF PartyStep
<1>2. ASSUME FlowInv, NEW p \in Roles, Finish(p) PROVE FlowInv'
  BY <1>2, FlowEnd DEF Finish, FlowInv, TypeOK
<1>3. ASSUME FlowInv, NEW p \in Roles, IoError(p) PROVE FlowInv'
  <2>1. crashes # 0
    BY <1>3, NoIoError
  <2>2. st[p] = "run"
    BY <1>3 DEF IoError, WaitsForDeal, WaitsForPeer, WritesTo, Running, Roles, Parties
  <2> QED
    BY <2>1, <2>2, <1>3, FlowEnd DEF IoError, FlowInv, TypeOK
<1>4. ASSUME FlowInv, NEW p \in Roles, Crash(p) PROVE FlowInv'
  <2>1. crashes' \in 0 .. MaxCrashes /\ crashes' # 0
    BY <1>4, SampleAssumption DEF Crash, FlowInv, TypeOK
  <2> QED
    BY <2>1, <1>4, FlowEnd DEF Crash
<1> QED
  BY <1>1, <1>2, <1>3, <1>4, FlowDeal, FlowStutter DEF Next, RoleStep

\* Every word in a register, a queue or P2's record has the type that the step
\* that made it implies, whatever the interleaving and whoever is killed.
THEOREM TypeCorrect == Spec => []TypeOK
<1>1. FlowInv => TypeOK
  BY DEF FlowInv
<1> QED
  BY <1>1, FlowInit, FlowNext, PTL DEF Spec

\* What a party of mpc_mul, mpc_and, mpc_eqz or reconstruct_remote is about to
\* read was sent for the step that it is executing.
THEOREM AlignedCorrect == Spec => []Aligned
<1>1. FlowInv => Aligned
  <2>1. ASSUME FlowInv, NEW p \in Parties, WaitsForDeal(p), dealt[p] # <<>>
        PROVE  Head(dealt[p]).k = Cur(p)
    <3>1. /\ Cur(p) \in DealSteps /\ Ahead(p) = Cur(p) /\ Cur(p) \in Nat /\ Cur("P2") \in Nat
          /\ Up("P2", p) \in BOOLEAN /\ IsSeq(dealt[p])
          /\ LinkOK(dealt[p], Cur(p), Cur("P2"), DealSteps, Up("P2", p))
      BY <2>1, CurFacts
         DEF FlowInv, WaitsForDeal, Running, DealSteps, Op, DealLink, Up, TypeOK, DealtType
    <3> QED
      BY <3>1, <2>1, ProgramFacts, LinkRead
  <2>2. ASSUME FlowInv, NEW p \in Parties, WaitsForPeer(p), talk[p] # <<>>
        PROVE  Head(talk[p]).k = Cur(p)
    BY <2>2, PeerMessage DEF WaitsForPeer
  <2> QED
    BY <2>1, <2>2 DEF Aligned
<1> QED
  BY <1>1, FlowInit, FlowNext, PTL DEF Spec

\* If no process is killed, no coroutine ends with an exception: nobody reads
\* from, or writes to, a process that has finished too early.
THEOREM CleanRunCorrect == Spec => []CleanRun
<1>1. FlowInv => CleanRun
  BY DEF FlowInv, CleanRun, Ended
<1> QED
  BY <1>1, FlowInit, FlowNext, PTL DEF Spec

-----------------------------------------------------------------------------
(* The words.                                                              *)

(* Registers and draws are only ever appended to.                          *)
Grow ==
  /\ \A q \in Parties : \A i \in 1 .. Len(reg[q]) : reg'[q][i] = reg[q][i]
  /\ \A i \in 1 .. Len(deal) : deal'[i] = deal[i]

\* Ahead is the current step or the one after it.
LEMMA AheadFacts ==
  ASSUME TypeOK, NEW p \in Parties
  PROVE  /\ Cur(p) \in Nat /\ Ahead(p) \in Nat /\ Cur(p) <= Ahead(p) /\ Ahead(p) <= Cur(p) + 1
<1>1. pc[p] \in {"start", "wait"}
  BY DEF TypeOK
<1>2. /\ Cur(p) \in Nat /\ Ahead(p) \in Nat
      /\ pc[p] = "wait" => Ahead(p) = Cur(p) + 1
      /\ pc[p] = "start" => Ahead(p) = Cur(p)
  BY CurFacts
<1> QED
  BY <1>1, <1>2

\* So what a party has told its peer, and what it has computed, stay the same
\* functions of them.
LEMMA Stable ==
  ASSUME FlowInv, Grow, NEW q \in Parties, NEW j \in TalkSteps
  PROVE  /\ j \in DealSteps /\ j < Cur("P2") => Mat(q, j)' = Mat(q, j)
         /\ j < Ahead(q) => Told(q, j)' = Told(q, j)
         /\ j < Cur(q) => Output(q, j)' = Output(q, j)
<1>0. /\ TypeOK /\ \A p \in Parties : PacedByDealer(p) /\ PacedByPeer(p)
      /\ j \in Nat /\ j >= 1 /\ (j \in DealSteps <=> Program[j].op \in DealtOps)
      /\ (Program[j].op \in OpenOps <=> j \notin DealSteps)
  BY ProgramFacts DEF FlowInv, DealSteps, TalkSteps, Steps, DealtOps, OpenOps
<1>1. ASSUME NEW p \in Parties, j \in DealSteps, j < Cur("P2") PROVE Mat(p, j)' = Mat(p, j)
  <2>1. j \in 1 .. Len(deal)
    BY <1>0, <1>1, CurFacts
  <2> QED
    BY <2>1 DEF Mat, Grow
<1>2. ASSUME NEW p \in Parties, j < Ahead(p)
      PROVE  /\ Told(p, j)' = Told(p, j) /\ reg'[p][Program[j].a] = reg[p][Program[j].a]
             /\ j \in DealSteps => Operand2(p, j)' = Operand2(p, j) /\ Mat(p, j)' = Mat(p, j)
  <2>1. j \in 1 .. Cur(p)
    BY <1>0, <1>2, AheadFacts
  <2>2. /\ Program[j].a \in 1 .. Len(reg[p])
        /\ Program[j].op \in DealtOps \ {"mask"} => Program[j].b \in 1 .. Len(reg[p])
    BY <1>0, <2>1, OperandFacts
  <2>3. reg'[p][Program[j].a] = reg[p][Program[j].a]
    BY <2>2 DEF Grow
  <2>4. j \in DealSteps => Operand2(p, j)' = Operand2(p, j)
    BY <2>2, <1>0 DEF Grow, Operand2
  <2>5. j \in DealSteps => Mat(p, j)' = Mat(p, j)
    BY <1>0, <1>1, <1>2 DEF PacedByDealer
  <2> QED
    BY <2>3, <2>4, <2>5, <1>0 DEF Told
<1>3. ASSUME j < Cur(q) PROVE Output(q, j)' = Output(q, j)
  <2>1. j < Ahead(Peer(q)) /\ Peer(q) \in Parties /\ j < Ahead(q)
    BY <1>0, <1>3, PeerFacts, AheadFacts DEF PacedByPeer
  <2>2. Told(Peer(q), j)' = Told(Peer(q), j)
    BY <1>2, <2>1
  <2>3. /\ reg'[q][Program[j].a] = reg[q][Program[j].a]
        /\ j \in DealSteps => Operand2(q, j)' = Operand2(q, j) /\ Mat(q, j)' = Mat(q, j)
    BY <1>2, <2>1
  <2> QED
    BY <2>2, <2>3, <1>0 DEF Output
<1> QED
  BY <1>1, <1>2, <1>3

\* What is new in the queues, the material and the registers after a step.
NewDealt ==
  \A p \in Parties : \A i \in 1 .. Len(dealt'[p]) :
    \/ \E h \in 1 .. Len(dealt[p]) : dealt'[p][i] = dealt[p][h]
    \/ \E k \in DealSteps : dealt'[p][i].k = k /\ dealt'[p][i].v = Mat(p, k)'

NewTalk ==
  \A p \in Parties : \A i \in 1 .. Len(talk'[p]) :
    \/ \E h \in 1 .. Len(talk[p]) : talk'[p][i] = talk[p][h]
    \/ \E k \in TalkSteps : talk'[p][i].k = k /\ talk'[p][i].v = Told(Peer(p), k)'

NewMat ==
  \A p \in Parties :
    pc'[p] = "wait" =>
      \/ pc[p] = "wait" /\ Cur(p)' = Cur(p) /\ mat'[p] = mat[p]
      \/ \E k \in Steps : Cur(p)' = k /\ (k \in DealSteps => mat'[p] = Mat(p, k)')

NewReg ==
  \A p \in Parties : \A j \in 1 .. Len(reg'[p]) :
    \/ j <= Len(reg[p])
    \/ j \in TalkSteps => reg'[p][j] = Output(p, j)'

\* A step preserves the contents part of IndInv if every new message, every new result
\* and the material in hand are what Told, Output and Mat say.
LEMMA DataStep ==
  ASSUME IndInv, FlowInv', Grow, NewDealt, NewTalk, NewMat, NewReg
  PROVE  IndInv'
<1>0. /\ FlowInv /\ TypeOK /\ WireContents /\ MatInv /\ RegInv
      /\ Cur("P2") \in Nat
      /\ \A p \in Parties : /\ DealLink(p) /\ TalkLink(p) /\ PacedByDealer(p) /\ PacedByPeer(p)
                             /\ Cur(p) \in Nat /\ Cur(p) = Len(reg[p]) + 1 /\ Len(reg[p]) \in Nat
  BY CurFacts DEF IndInv, FlowInv
<1>1. ASSUME NEW p \in Parties, NEW i \in 1 .. Len(dealt'[p])
      PROVE  (dealt[p][i].v = Mat(p, dealt[p][i].k))'
  <2>1. CASE \E k \in DealSteps : dealt'[p][i].k = k /\ dealt'[p][i].v = Mat(p, k)'
    BY <2>1 DEF Mat
  <2>2. CASE \E h \in 1 .. Len(dealt[p]) : dealt'[p][i] = dealt[p][h]
    <3>1. PICK h \in 1 .. Len(dealt[p]) : dealt'[p][i] = dealt[p][h]
      BY <2>2
    <3>2. PICK k : k = dealt[p][h].k
      OBVIOUS
    <3>3. k \in DealSteps /\ k < Cur("P2") /\ dealt[p][h].v = Mat(p, k)
      BY <3>2, <1>0 DEF DealLink, LinkOK, WireContents
    <3>4. Mat(p, k)' = Mat(p, k)
      BY <3>3, <1>0, ProgramFacts, Stable
    <3> QED
      BY <3>1, <3>2, <3>3, <3>4 DEF Mat
  <2> QED
    BY <2>1, <2>2 DEF NewDealt
<1>2. ASSUME NEW p \in Parties, NEW i \in 1 .. Len(talk'[p])
      PROVE  (talk[p][i].v = Told(Peer(p), talk[p][i].k))'
  <2>1. CASE \E k \in TalkSteps : talk'[p][i].k = k /\ talk'[p][i].v = Told(Peer(p), k)'
    BY <2>1 DEF Told, Mat, Operand2
  <2>2. CASE \E h \in 1 .. Len(talk[p]) : talk'[p][i] = talk[p][h]
    <3>1. PICK h \in 1 .. Len(talk[p]) : talk'[p][i] = talk[p][h]
      BY <2>2
    <3>2. PICK k : k = talk[p][h].k
      OBVIOUS
    <3>3. k \in TalkSteps /\ k < Ahead(Peer(p)) /\ talk[p][h].v = Told(Peer(p), k)
      BY <3>2, <1>0, CurFacts, PeerFacts DEF TalkLink, LinkOK, WireContents
    <3>4. Told(Peer(p), k)' = Told(Peer(p), k)
      BY <3>3, <1>0, PeerFacts, Stable
    <3> QED
      BY <3>1, <3>2, <3>3, <3>4 DEF Told, Mat, Operand2
  <2> QED
    BY <2>1, <2>2 DEF NewTalk
<1>3. ASSUME NEW p \in Parties, pc'[p] = "wait", (Op(p) \in DealtOps)'
      PROVE  (mat[p] = Mat(p, Cur(p)))'
  <2>1. PICK k : k = Cur(p)'
    OBVIOUS
  <2>2. k \in DealSteps /\ k \in TalkSteps
    BY <1>3, <2>1 DEF FlowInv, TypeOK, WaitType, DealSteps, TalkSteps, Op
  <2>3. mat'[p] = Mat(p, k)'
    <3>1. CASE pc[p] = "wait" /\ Cur(p)' = Cur(p) /\ mat'[p] = mat[p]
      <4>1. mat[p] = Mat(p, k)
        BY <3>1, <2>1, <2>2, <1>0 DEF MatInv, Op, DealSteps
      <4>2. k < Ahead(p)
        BY <3>1, <2>1, <1>0, CurFacts
      <4>3. k < Cur("P2")
        BY <4>2, <2>2, <1>0 DEF PacedByDealer
      <4> QED
        BY <4>1, <4>3, <3>1, <2>2, <1>0, Stable
    <3>2. CASE \E h \in Steps : Cur(p)' = h /\ (h \in DealSteps => mat'[p] = Mat(p, h)')
      BY <3>2, <2>1, <2>2
    <3> QED
      BY <3>1, <3>2, <1>3 DEF NewMat
  <2> QED
    BY <2>1, <2>3 DEF Mat
<1>4. ASSUME NEW p \in Parties, NEW j \in 1 .. Len(reg'[p]), j \in TalkSteps
      PROVE  reg'[p][j] = Output(p, j)'
  <2>1. CASE j <= Len(reg[p])
    <3>1. j \in 1 .. Len(reg[p]) /\ j < Cur(p)
      BY <2>1, <1>0, <1>4, ProgramFacts DEF Steps
    <3>2. reg[p][j] = Output(p, j)
      BY <3>1, <1>0, <1>4 DEF RegInv, TalkSteps
    <3>3. Output(p, j)' = Output(p, j)
      BY <3>1, <1>0, <1>4, Stable
    <3> QED
      BY <3>1, <3>2, <3>3 DEF Grow
  <2> QED
    BY <2>1, <1>4 DEF NewReg
<1>5. WireContents'
  BY <1>1, <1>2 DEF WireContents
<1>6. MatInv'
  BY <1>3 DEF MatInv
<1>7. RegInv'
  <2>1. ASSUME NEW p \in Parties, NEW j \in 1 .. Len(reg'[p]), Program[j].op \in DealtOps \cup OpenOps
        PROVE  j \in TalkSteps
    BY <2>1, ProgramFacts DEF TalkSteps, Steps, FlowInv, TypeOK, RegType, IsSeq
  <2> QED
    BY <2>1, <1>4 DEF RegInv
<1> QED
  BY <1>5, <1>6, <1>7 DEF IndInv

-----------------------------------------------------------------------------
(* IndInv is preserved by every action.                                    *)

\* The current step of a party, as the invariant sees it.
LEMMA TellsTold ==
  ASSUME IndInv, NEW p \in Parties, Running(p, DealtOps \cup OpenOps)
  PROVE  /\ Op(p) \in OpenOps => <<X(p)>> = Told(p, Cur(p))
         /\ Op(p) \in DealtOps =>
              Blinded(Op(p), X(p), Y2(p), Mat(p, Cur(p))) = Told(p, Cur(p))
BY DEF Op, X, Y, Y2, Told, Operand2, OpenOps, DealtOps

\* Deal and DealerLocal preserve IndInv.
LEMMA DataDeal ==
  ASSUME IndInv, DealerStep
  PROVE  IndInv'
<1>1. FlowInv /\ FlowInv' /\ TypeOK
  BY FlowDeal DEF IndInv, FlowInv
<1>2. /\ IsSeq(deal) /\ Cur("P2") = Len(deal) + 1 /\ Len(deal) \in Nat
      /\ UNCHANGED <<st, pc, mat, reg, talk>>
  BY <1>1, CurFacts DEF TypeOK, DealType, DealerStep, Deal, DealerLocal
<1>3. PICK d : /\ deal' = Append(deal, d)
               /\ \/ dealt' = dealt
                  \/ /\ Cur("P2") \in DealSteps
                     /\ dealt' = [p \in Parties |->
                          Written(dealt[p], "P2", p, Material(Op("P2"), p, d))]
  <2>1. CASE Deal
    BY <2>1 DEF Deal, Running, DealSteps, Op
  <2>2. CASE DealerLocal
    BY <2>2 DEF DealerLocal
  <2> QED
    BY <2>1, <2>2 DEF DealerStep
<1>4. /\ Len(deal') = Len(deal) + 1 /\ deal'[Len(deal) + 1] = d
      /\ \A j \in 1 .. Len(deal) : deal'[j] = deal[j]
  BY <1>2, <1>3, AppendIsSeq
<1>5. Grow
  BY <1>2, <1>4 DEF Grow
<1>6. NewDealt
  <2>1. ASSUME NEW p \in Parties, NEW i \in 1 .. Len(dealt'[p]), dealt'[p] # dealt[p]
        PROVE  \/ \E h \in 1 .. Len(dealt[p]) : dealt'[p][i] = dealt[p][h]
               \/ \E k \in DealSteps : dealt'[p][i].k = k /\ dealt'[p][i].v = Mat(p, k)'
    <3> DEFINE m == [k |-> Cur("P2"), v |-> Material(Op("P2"), p, d)]
    <3>1. dealt'[p] = Append(dealt[p], m) /\ Cur("P2") \in DealSteps
      BY <2>1, <1>3 DEF Written
    <3>2. IsSeq(dealt[p]) /\ Len(dealt[p]) \in Nat
      BY <1>1 DEF TypeOK, DealtType, IsSeq
    <3>3. /\ Len(dealt'[p]) = Len(dealt[p]) + 1
          /\ \A h \in 1 .. Len(dealt[p]) : dealt'[p][h] = dealt[p][h]
          /\ dealt'[p][Len(dealt[p]) + 1] = m
      BY <3>1, <3>2, AppendIsSeq
    <3>a. PICK n : n = Len(deal) + 1
      OBVIOUS
    <3>4. m.k = n /\ n \in DealSteps /\ m.v = Mat(p, n)'
      BY <3>1, <3>a, <1>2, <1>4 DEF Mat, Op
    <3> HIDE DEF m
    <3>5. CASE i = Len(dealt[p]) + 1
      BY <3>3, <3>4, <3>5
    <3>6. CASE i \in 1 .. Len(dealt[p])
      BY <3>3, <3>6
    <3> QED
      BY <3>2, <3>3, <3>5, <3>6
  <2>2. ASSUME NEW p \in Parties, NEW i \in 1 .. Len(dealt'[p]), dealt'[p] = dealt[p]
        PROVE  \E h \in 1 .. Len(dealt[p]) : dealt'[p][i] = dealt[p][h]
    BY <2>2
  <2> QED
    BY <2>1, <2>2 DEF NewDealt
<1>7. NewTalk /\ NewReg
  BY <1>2 DEF NewTalk, NewReg
<1>8. NewMat
  <2>1. \A p \in Parties : Cur(p)' = Cur(p)
    BY <1>2, PeerFacts DEF Cur
  <2> QED
    BY <2>1, <1>2 DEF NewMat
<1> QED
  BY <1>1, <1>5, <1>6, <1>7, <1>8, DataStep

\* A party appends to its register; nothing else of the data changes but that
\* queues lose messages.
LEMMA DataLocal ==
  ASSUME IndInv, NEW p \in Parties, Local(p)
  PROVE  IndInv'
<1>1. FlowInv /\ FlowInv' /\ TypeOK
  BY FlowLocal DEF IndInv, FlowInv
<1>2. /\ UNCHANGED <<st, pc, mat, deal, dealt, talk>> /\ Cur(p) \notin TalkSteps
      /\ Cur(p) = Len(reg[p]) + 1 /\ Len(reg[p]) \in Nat /\ IsSeq(reg[p])
  BY <1>1, CurFacts DEF Local, Running, Op, TalkSteps, InOps, DealtOps, OpenOps, TypeOK, RegType
<1>3. PICK v : reg' = [reg EXCEPT ![p] = Append(@, v)]
  BY DEF Local
<1>4. /\ reg'[p] = Append(reg[p], v) /\ \A q \in Parties : q # p => reg'[q] = reg[q]
  BY <1>1, <1>3 DEF TypeOK
<1>5. /\ Len(reg'[p]) = Len(reg[p]) + 1
      /\ \A j \in 1 .. Len(reg[p]) : reg'[p][j] = reg[p][j]
  BY <1>2, <1>4, AppendIsSeq
<1>6. Grow
  BY <1>2, <1>4, <1>5 DEF Grow
<1>7. NewDealt /\ NewTalk
  BY <1>2 DEF NewDealt, NewTalk
<1>8. NewReg
  <2>1. \A j \in 1 .. Len(reg'[p]) : j <= Len(reg[p]) \/ j \notin TalkSteps
    BY <1>2, <1>5
  <2>2. \A q \in Parties : q # p => \A j \in 1 .. Len(reg'[q]) : j <= Len(reg[q])
    BY <1>1, <1>4 DEF TypeOK, RegType, IsSeq
  <2> QED
    BY <2>1, <2>2 DEF NewReg
<1>9. NewMat
  <2>1. pc[p] # "wait"
    BY <1>1, <1>2 DEF TypeOK, WaitType, TalkSteps, Op
  <2>2. \A q \in Parties : q # p => Cur(q)' = Cur(q)
    BY <1>4, PeerFacts DEF Cur
  <2> QED
    BY <2>1, <2>2, <1>2 DEF NewMat
<1> QED
  BY <1>1, <1>6, <1>7, <1>8, <1>9, DataStep

\* A queue to which at most one message has been appended.
LEMMA NewMessage ==
  ASSUME IndInv, NEW p \in Parties, NEW k \in TalkSteps, NEW v,
         \A q \in Parties : q # Peer(p) => talk'[q] = talk[q],
         talk'[Peer(p)] = IF st[Peer(p)] = "run"
              THEN Append(talk[Peer(p)], [k |-> k, v |-> v]) ELSE talk[Peer(p)],
         v = Told(p, k)'
  PROVE  NewTalk
<1> DEFINE r == Peer(p)
           m == [k |-> k, v |-> v]
<1>1. r \in Parties /\ Peer(r) = p /\ IsSeq(talk[r]) /\ Len(talk[r]) \in Nat
  BY PeerFacts DEF IndInv, FlowInv, TypeOK, TalkType, IsSeq
<1>2. m.k = k /\ m.v = Told(p, k)'
  OBVIOUS
<1>3. talk'[r] = talk[r] \/ talk'[r] = Append(talk[r], m)
  OBVIOUS
<1> HIDE DEF r, m
<1>4. ASSUME NEW i \in 1 .. Len(talk'[r]), talk'[r] = Append(talk[r], m)
      PROVE  \/ \E h \in 1 .. Len(talk[r]) : talk'[r][i] = talk[r][h]
             \/ talk'[r][i].k = k /\ talk'[r][i].v = Told(p, k)'
  <2>1. /\ Len(talk'[r]) = Len(talk[r]) + 1
        /\ \A h \in 1 .. Len(talk[r]) : talk'[r][h] = talk[r][h]
        /\ talk'[r][Len(talk[r]) + 1] = m
    BY <1>1, <1>4, AppendIsSeq
  <2>2. CASE i = Len(talk[r]) + 1
    BY <2>1, <2>2, <1>2
  <2>3. CASE i \in 1 .. Len(talk[r])
    BY <2>1, <2>3
  <2> QED
    BY <2>1, <2>2, <2>3, <1>1
<1>5. ASSUME NEW q \in Parties, NEW i \in 1 .. Len(talk'[q])
      PROVE  \/ \E h \in 1 .. Len(talk[q]) : talk'[q][i] = talk[q][h]
             \/ \E j \in TalkSteps : talk'[q][i].k = j /\ talk'[q][i].v = Told(Peer(q), j)'
  <2>1. CASE talk'[q] = talk[q]
    BY <2>1
  <2>2. CASE talk'[q] # talk[q]
    <3>1. q = r
      BY <2>2 DEF r
    <3> QED
      BY <3>1, <2>2, <1>1, <1>3, <1>4
  <2> QED
    BY <2>1, <2>2
<1> QED
  BY <1>5 DEF NewTalk

\* SendShare preserves IndInv.
LEMMA DataSendShare ==
  ASSUME IndInv, NEW p \in Parties, SendShare(p)
  PROVE  IndInv'
<1>1. FlowInv /\ FlowInv' /\ TypeOK
  BY FlowSendShare DEF IndInv, FlowInv
<1>2. /\ Running(p, DealtOps \cup OpenOps) /\ Op(p) \in OpenOps /\ pc[p] = "start"
      /\ pc' = [pc EXCEPT ![p] = "wait"] /\ UNCHANGED <<st, mat, reg, deal, dealt>>
      /\ Tell(p, <<X(p)>>)
  BY DEF SendShare, Running
<1>3. PICK k : k = Cur(p)
  OBVIOUS
<1>4. k \in TalkSteps /\ k \in Steps /\ k \notin DealSteps
  BY <1>1, <1>2, <1>3, RunningFacts DEF TalkSteps, DealSteps, Op, OpenOps, DealtOps
<1>5. <<X(p)>> = Told(p, k) /\ Told(p, k)' = Told(p, k)
  BY <1>2, <1>3, TellsTold DEF Told, Operand2, Mat
<1>6. Grow /\ NewDealt /\ NewReg
  BY <1>1, <1>2 DEF Grow, NewDealt, NewReg, TypeOK, RegType, IsSeq
<1>7. NewTalk
  <2>1. /\ \A q \in Parties : q # Peer(p) => talk'[q] = talk[q]
        /\ talk'[Peer(p)] = IF st[Peer(p)] = "run"
              THEN Append(talk[Peer(p)], [k |-> k, v |-> <<X(p)>>]) ELSE talk[Peer(p)]
    BY <1>1, <1>2, <1>3, PeerFacts DEF Tell, Written, TypeOK
  <2> QED
    BY <2>1, <1>4, <1>5, NewMessage
<1>8. NewMat
  <2>1. Cur(p)' = k /\ \A q \in Parties : Cur(q)' = Cur(q)
    BY <1>2, <1>3 DEF Cur
  <2>2. \A q \in Parties : q # p => pc'[q] = pc[q]
    BY <1>1, <1>2 DEF TypeOK
  <2> QED
    BY <2>1, <2>2, <1>2, <1>4 DEF NewMat
<1> QED
  BY <1>1, <1>6, <1>7, <1>8, DataStep

\* Blind preserves IndInv.
LEMMA DataBlind ==
  ASSUME IndInv, NEW p \in Parties, Blind(p)
  PROVE  IndInv'
<1> DEFINE m == Head(dealt[p]).v
<1>1. FlowInv /\ FlowInv' /\ TypeOK /\ Head(dealt[p]).k = Cur(p)
  BY FlowBlind DEF IndInv, FlowInv
<1>2. /\ Running(p, DealtOps \cup OpenOps) /\ Op(p) \in DealtOps /\ pc[p] = "start"
      /\ dealt[p] # <<>> /\ dealt' = [dealt EXCEPT ![p] = Tail(@)]
      /\ mat' = [mat EXCEPT ![p] = m] /\ pc' = [pc EXCEPT ![p] = "wait"]
      /\ Tell(p, Blinded(Op(p), X(p), Y2(p), m)) /\ UNCHANGED <<st, reg, deal>>
  BY DEF Blind, BlindWith, Running
<1>3. PICK k : k = Cur(p)
  OBVIOUS
<1>4. k \in TalkSteps /\ k \in Steps
  BY <1>1, <1>2, <1>3, RunningFacts DEF TalkSteps
<1>5. /\ Len(dealt[p]) >= 1 /\ Len(dealt[p]) \in Nat /\ Head(dealt[p]) = dealt[p][1]
      /\ Len(Tail(dealt[p])) = Len(dealt[p]) - 1
      /\ \A i \in 1 .. Len(Tail(dealt[p])) : Tail(dealt[p])[i] = dealt[p][i + 1]
  BY <1>1, <1>2, TailIsSeq DEF TypeOK, DealtType, IsSeq
<1>6. m = Mat(p, k)
  BY <1>1, <1>3, <1>5 DEF IndInv, WireContents
<1> HIDE DEF m
<1>7. /\ Blinded(Op(p), X(p), Y2(p), m) = Told(p, k) /\ Told(p, k)' = Told(p, k)
      /\ Mat(p, k)' = Mat(p, k)
  BY <1>2, <1>3, <1>6, TellsTold DEF Told, Operand2, Mat
<1>8. Grow /\ NewReg
  BY <1>1, <1>2 DEF Grow, NewReg, TypeOK, RegType, IsSeq
<1>9. NewDealt
  <2>1. dealt'[p] = Tail(dealt[p]) /\ \A q \in Parties : q # p => dealt'[q] = dealt[q]
    BY <1>1, <1>2 DEF TypeOK
  <2>2. ASSUME NEW i \in 1 .. Len(dealt'[p])
        PROVE  \E h \in 1 .. Len(dealt[p]) : dealt'[p][i] = dealt[p][h]
    <3>1. i + 1 \in 1 .. Len(dealt[p]) /\ dealt'[p][i] = dealt[p][i + 1]
      BY <2>1, <1>5
    <3> QED
      BY <3>1
  <2> QED
    BY <2>1, <2>2 DEF NewDealt
<1>10. NewTalk
  <2>1. /\ \A q \in Parties : q # Peer(p) => talk'[q] = talk[q]
        /\ talk'[Peer(p)] = IF st[Peer(p)] = "run"
              THEN Append(talk[Peer(p)], [k |-> k, v |-> Told(p, k)]) ELSE talk[Peer(p)]
    BY <1>1, <1>2, <1>3, <1>7, PeerFacts DEF Tell, Written, TypeOK
  <2> QED
    BY <2>1, <1>4, <1>7, NewMessage
<1>11. NewMat
  <2>1. Cur(p)' = k /\ \A q \in Parties : Cur(q)' = Cur(q)
    BY <1>2, <1>3 DEF Cur
  <2>2. mat'[p] = Mat(p, k)' /\ \A q \in Parties : q # p => pc'[q] = pc[q] /\ mat'[q] = mat[q]
    BY <1>1, <1>2, <1>6, <1>7 DEF TypeOK
  <2> QED
    BY <2>1, <2>2, <1>4 DEF NewMat
<1> QED
  BY <1>1, <1>8, <1>9, <1>10, <1>11, DataStep

\* A party completes its step with the result that the invariant names.
LEMMA DataComplete ==
  ASSUME IndInv, FlowInv', NEW p \in Parties, Running(p, DealtOps \cup OpenOps), pc[p] = "wait",
         talk[p] # <<>>, NEW v, Complete(p, v), UNCHANGED <<st, deal, dealt, crashes>>,
         v = Output(p, Cur(p))
  PROVE  IndInv'
<1>1. /\ FlowInv /\ TypeOK /\ IsSeq(reg[p]) /\ Len(reg[p]) \in Nat /\ Cur(p) = Len(reg[p]) + 1
      /\ \A q \in Parties : PacedByDealer(q) /\ PacedByPeer(q)
  BY CurFacts DEF IndInv, FlowInv, TypeOK, RegType
<1>2. /\ reg'[p] = Append(reg[p], v) /\ talk'[p] = Tail(talk[p]) /\ pc'[p] = "start"
      /\ \A q \in Parties : q # p => /\ reg'[q] = reg[q] /\ talk'[q] = talk[q]
                                      /\ pc'[q] = pc[q] /\ mat'[q] = mat[q]
  BY <1>1 DEF Complete, TypeOK
<1>3. /\ Len(reg'[p]) = Len(reg[p]) + 1 /\ reg'[p][Len(reg[p]) + 1] = v
      /\ \A j \in 1 .. Len(reg[p]) : reg'[p][j] = reg[p][j]
  BY <1>1, <1>2, AppendIsSeq
<1>4. Grow
  BY <1>2, <1>3 DEF Grow
<1>5. NewDealt
  BY DEF NewDealt
<1>6. NewTalk
  <2>1. ASSUME NEW i \in 1 .. Len(talk'[p])
        PROVE  \E h \in 1 .. Len(talk[p]) : talk'[p][i] = talk[p][h]
    <3>1. i + 1 \in 1 .. Len(talk[p]) /\ talk'[p][i] = talk[p][i + 1]
      BY <1>1, <1>2, PeerMessage
    <3> QED
      BY <3>1
  <2>2. ASSUME NEW q \in Parties, NEW i \in 1 .. Len(talk'[q])
        PROVE  \E h \in 1 .. Len(talk[q]) : talk'[q][i] = talk[q][h]
    <3>1. CASE q = p
      BY <3>1, <2>1
    <3>2. CASE q # p
      <4>1. talk'[q] = talk[q]
        BY <3>2, <1>2
      <4> QED
        BY <4>1
    <3> QED
      BY <3>1, <3>2
  <2> QED
    BY <2>2 DEF NewTalk
<1>7. NewMat
  <2>1. \A q \in Parties : q # p => Cur(q)' = Cur(q)
    BY <1>2, PeerFacts DEF Cur
  <2> QED
    BY <2>1, <1>2 DEF NewMat
<1>8. NewReg
  <2>1. PICK k : k = Cur(p)
    OBVIOUS
  <2>2. k \in TalkSteps /\ k < Ahead(p) /\ k < Ahead(Peer(p)) /\ Peer(p) \in Parties
    <3>1. k \in TalkSteps /\ k < Ahead(Peer(p))
      BY <2>1, <1>1, RunningFacts, PeerMessage
    <3>2. Ahead(p) = k + 1 /\ k \in Nat
      BY <2>1, <1>1, CurFacts
    <3> QED
      BY <3>1, <3>2, PeerFacts
  <2>3. Output(p, k)' = Output(p, k)
    <3>1. Told(Peer(p), k)' = Told(Peer(p), k)
      BY <2>2, <1>1, <1>4, Stable
    <3>2. k \in DealSteps => Mat(p, k)' = Mat(p, k)
      BY <2>2, <1>1, <1>4, Stable DEF PacedByDealer
    <3>3. /\ Program[k].a \in 1 .. Len(reg[p])
          /\ Program[k].op \in DealtOps \ {"mask"} => Program[k].b \in 1 .. Len(reg[p])
      BY <2>1, <2>2, <1>1, RunningFacts, OperandFacts
    <3>4. reg'[p][Program[k].a] = reg[p][Program[k].a]
      BY <3>3, <1>3
    <3>5. k \in DealSteps => Operand2(p, k)' = Operand2(p, k)
      BY <3>3, <1>3 DEF Operand2, DealSteps
    <3>6. Program[k].op \in OpenOps \/ k \in DealSteps
      BY <2>2 DEF TalkSteps, DealSteps
    <3> QED
      BY <3>1, <3>2, <3>4, <3>5, <3>6 DEF Output
  <2>4. reg'[p][k] = Output(p, k)'
    BY <2>1, <2>3, <1>1, <1>3
  <2>5. \A j \in 1 .. Len(reg'[p]) : j <= Len(reg[p]) \/ j = k
    BY <2>1, <1>1, <1>3
  <2>6. \A q \in Parties : q # p => \A j \in 1 .. Len(reg'[q]) : j <= Len(reg[q])
    BY <1>1, <1>2 DEF TypeOK, RegType, IsSeq
  <2> QED
    BY <2>4, <2>5, <2>6 DEF NewReg
<1> QED
  BY <1>4, <1>5, <1>6, <1>7, <1>8, DataStep

\* Exchange preserves IndInv.
LEMMA DataExchange ==
  ASSUME IndInv, NEW p \in Parties, Exchange(p)
  PROVE  IndInv'
<1>1. FlowInv /\ FlowInv' /\ TypeOK
  BY FlowExchange DEF IndInv, FlowInv
<1>2. /\ Running(p, DealtOps \cup OpenOps) /\ Op(p) \in DealtOps /\ pc[p] = "wait" /\ talk[p] # <<>>
      /\ UNCHANGED <<st, deal, dealt, crashes>>
      /\ Complete(p, OutShare(Op(p), p, X(p), Y2(p), mat[p], Head(talk[p]).v))
  BY DEF Exchange, Running
<1>3. mat[p] = Mat(p, Cur(p))
  BY <1>2 DEF IndInv, MatInv
<1>4. Head(talk[p]).v = Told(Peer(p), Cur(p))
  <2>1. /\ Len(talk[p]) \in Nat /\ Len(talk[p]) >= 1
        /\ Head(talk[p]) = talk[p][1] /\ Head(talk[p]).k = Cur(p)
    BY <1>1, <1>2, PeerMessage
  <2>2. 1 \in 1 .. Len(talk[p])
    BY <2>1
  <2> QED
    BY <2>1, <2>2 DEF IndInv, WireContents
<1>5. OutShare(Op(p), p, X(p), Y2(p), mat[p], Head(talk[p]).v) = Output(p, Cur(p))
  BY <1>2, <1>3, <1>4 DEF Output, Op, X, Y, Y2, Operand2, OpenOps, DealtOps
<1> QED
  BY <1>1, <1>2, <1>5, DataComplete

\* RecvShare preserves IndInv.
LEMMA DataRecvShare ==
  ASSUME IndInv, NEW p \in Parties, RecvShare(p)
  PROVE  IndInv'
<1>1. FlowInv /\ FlowInv' /\ TypeOK
  BY FlowRecvShare DEF IndInv, FlowInv
<1>2. /\ Running(p, DealtOps \cup OpenOps) /\ Op(p) \in OpenOps /\ pc[p] = "wait" /\ talk[p] # <<>>
      /\ UNCHANGED <<st, deal, dealt, crashes>>
      /\ Complete(p, Combine(Op(p), X(p), Head(talk[p]).v[1]))
  BY DEF RecvShare, Running
<1>3. Head(talk[p]).v = Told(Peer(p), Cur(p))
  <2>1. /\ Len(talk[p]) \in Nat /\ Len(talk[p]) >= 1
        /\ Head(talk[p]) = talk[p][1] /\ Head(talk[p]).k = Cur(p)
    BY <1>1, <1>2, PeerMessage
  <2>2. 1 \in 1 .. Len(talk[p])
    BY <2>1
  <2> QED
    BY <2>1, <2>2 DEF IndInv, WireContents
<1>4. Combine(Op(p), X(p), Head(talk[p]).v[1]) = Output(p, Cur(p))
  BY <1>2, <1>3 DEF Output, Op, X
<1> QED
  BY <1>1, <1>2, <1>4, DataComplete

\* Ending a process in any way preserves IndInv.
LEMMA DataEnd ==
  ASSUME IndInv, FlowInv', NEW p \in Roles, NEW how, End(p, how)
  PROVE  IndInv'
<1>1. TypeOK /\ CloseSockets(p) /\ UNCHANGED <<pc, mat, reg, deal>>
  BY DEF IndInv, FlowInv, End
<1>2. /\ \A q \in Parties : IsSeq(talk[q]) /\ Len(talk[q]) \in Nat /\ Len(reg[q]) \in Nat
      /\ Len(deal) \in Nat
  BY <1>1, CurFacts DEF TypeOK, TalkType, IsSeq
<1>3. Grow /\ NewReg
  BY <1>1, <1>2 DEF Grow, NewReg
<1>4. NewMat
  BY <1>1 DEF NewMat, Cur
<1>5. ASSUME NEW q \in Parties, NEW i \in 1 .. Len(dealt'[q])
      PROVE  \E h \in 1 .. Len(dealt[q]) : dealt'[q][i] = dealt[q][h]
  <2>1. dealt'[q] = dealt[q] \/ dealt'[q] = <<>>
    BY <1>1 DEF CloseSockets, TypeOK
  <2> QED
    BY <2>1, EmptyIsSeq
<1>6. ASSUME NEW q \in Parties, NEW i \in 1 .. Len(talk'[q])
      PROVE  \E h \in 1 .. Len(talk[q]) : talk'[q][i] = talk[q][h]
  <2>1. CASE talk'[q] = talk[q]
    BY <2>1
  <2>2. CASE talk'[q] = <<>>
    BY <2>2, EmptyIsSeq
  <2>3. CASE \E n \in 0 .. Len(talk[q]) : talk'[q] = SubSeq(talk[q], 1, n)
    <3>1. PICK n \in 0 .. Len(talk[q]) : talk'[q] = SubSeq(talk[q], 1, n)
      BY <2>3
    <3>2. Len(talk'[q]) = n /\ \A h \in 1 .. n : talk'[q][h] = talk[q][h]
      BY <3>1, <1>2, PrefixIsSeq
    <3>3. i \in 1 .. Len(talk[q]) /\ talk'[q][i] = talk[q][i]
      BY <3>2, <1>2
    <3> QED
      BY <3>3
  <2>4. \/ talk'[q] = talk[q] \/ talk'[q] = <<>>
        \/ \E n \in 0 .. Len(talk[q]) : talk'[q] = SubSeq(talk[q], 1, n)
    <3>1. CASE p = "P2"
      BY <3>1, <1>1 DEF CloseSockets, Parties
    <3>2. CASE p \in Parties
      <4>1. PICK n \in Kept(p) : talk' = [talk EXCEPT ![p] = <<>>, ![Peer(p)] = SubSeq(@, 1, n)]
        BY <3>2, <1>1, PeerFacts DEF CloseSockets
      <4>2. n \in 0 .. Len(talk[Peer(p)])
        BY <3>2, <1>2, PeerFacts DEF Kept
      <4>3. talk'[p] = <<>> /\ talk'[Peer(p)] = SubSeq(talk[Peer(p)], 1, n)
        BY <4>1, <3>2, <1>1, PeerFacts DEF TypeOK
      <4>4. q = p \/ q = Peer(p)
        BY <3>2 DEF Parties, Peer
      <4> QED
        BY <4>2, <4>3, <4>4
    <3> QED
      BY <3>1, <3>2 DEF Roles
  <2> QED
    BY <2>1, <2>2, <2>3, <2>4
<1>7. NewDealt /\ NewTalk
  BY <1>5, <1>6 DEF NewDealt, NewTalk
<1> QED
  BY <1>3, <1>4, <1>7, DataStep

\* IndInv holds initially.
LEMMA DataInit == Init => IndInv
<1> SUFFICES ASSUME Init PROVE IndInv
  OBVIOUS
<1>1. \A p \in Parties : /\ Len(reg[p]) = 0 /\ Len(dealt[p]) = 0 /\ Len(talk[p]) = 0
                         /\ pc[p] = "start"
  BY EmptyIsSeq DEF Init
<1> QED
  BY <1>1, FlowInit DEF IndInv, WireContents, MatInv, RegInv

\* Every step preserves IndInv.
LEMMA DataNext == IndInv /\ [Next]_vars => IndInv'
<1>1. ASSUME IndInv, NEW p \in Parties, PartyStep(p) PROVE IndInv'
  BY <1>1, DataLocal, DataBlind, DataExchange, DataSendShare, DataRecvShare DEF PartyStep
<1>2. ASSUME IndInv, NEW p \in Roles, Finish(p) \/ IoError(p) \/ Crash(p) PROVE IndInv'
  <2>1. Next
    BY <1>2 DEF Next, RoleStep
  <2>2. FlowInv'
    BY <2>1, <1>2, FlowNext DEF IndInv
  <2> QED
    BY <2>2, <1>2, DataEnd DEF Finish, IoError, Crash
<1>3. ASSUME IndInv, UNCHANGED vars PROVE IndInv'
  <2>1. FlowInv'
    BY <1>3, FlowStutter DEF IndInv
  <2>2. Grow /\ NewDealt /\ NewTalk /\ NewMat
    BY <1>3 DEF vars, Grow, NewDealt, NewTalk, NewMat, Cur
  <2>3. NewReg
    BY <1>3 DEF vars, NewReg, IndInv, FlowInv, TypeOK, RegType, IsSeq
  <2> QED
    BY <2>1, <2>2, <2>3, <1>3, DataStep
<1> QED
  BY <1>1, <1>2, <1>3, DataDeal DEF Next, RoleStep

\* The inductive invariant holds in every reachable state.
THEOREM IndInvCorrect == Spec => []IndInv
BY DataInit, DataNext, PTL DEF Spec

-----------------------------------------------------------------------------
(* Correctness of the operations.                                          *)

\* The result of a step that both parties have completed.
LEMMA BothOutputs ==
  ASSUME IndInv, NEW j \in Shared, j \in TalkSteps
  PROVE  /\ TypeOK /\ \A p \in Parties : reg[p][j] = Output(p, j)
         /\ \A p \in Parties : /\ reg[p][Program[j].a] \in Words(Program[j].op)
                               /\ Program[j].op \in DealtOps \ {"mask"} =>
                                    reg[p][Program[j].b] \in Words(Program[j].op)
         /\ j \in DealSteps => deal[j] \in Draws(Program[j].op)
<1>1. /\ TypeOK /\ RegInv /\ \A p \in Parties : PacedByDealer(p)
      /\ \A p \in Parties : Len(reg[p]) \in Nat /\ Cur(p) = Len(reg[p]) + 1
      /\ Len(deal) \in Nat /\ Cur("P2") = Len(deal) + 1
  BY CurFacts DEF IndInv, FlowInv
<1>2. ASSUME NEW p \in Parties PROVE j \in 1 .. Len(reg[p]) /\ j \in 1 .. Cur(p) /\ j < Ahead(p)
  <2>1. j \in 1 .. Len(reg[p])
    BY <1>1 DEF Shared, Parties
  <2>2. j \in 1 .. Cur(p) /\ j < Cur(p)
    BY <2>1, <1>1
  <2> QED
    BY <2>1, <2>2, <1>1, AheadFacts
<1>3. \A p \in Parties : reg[p][j] = Output(p, j)
  BY <1>1, <1>2 DEF RegInv, TalkSteps
<1>4. j \in DealSteps => deal[j] \in Draws(Program[j].op)
  <2>1. SUFFICES ASSUME j \in DealSteps PROVE deal[j] \in Draws(Program[j].op)
    OBVIOUS
  <2>2. "P0" \in Parties
    BY DEF Parties
  <2>3. j < Cur("P2") /\ j \in 1 .. Len(reg["P0"])
    BY <2>1, <2>2, <1>1, <1>2 DEF PacedByDealer
  <2>4. j \in 1 .. Len(deal)
    BY <2>2, <2>3, <1>1
  <2> QED
    BY <2>1, <2>4, <1>1 DEF TypeOK, DealType, DealSteps
<1> QED
  BY <1>1, <1>2, <1>3, <1>4, OperandFacts

\* Both parties hold the operands of a step that both have completed.
LEMMA BothOperands ==
  ASSUME IndInv, NEW j \in Shared, j \in TalkSteps, NEW p \in Parties
  PROVE  /\ reg[p][Program[j].a] \in Words(Program[j].op)
         /\ Program[j].op \in DealtOps \ {"mask"} =>
              reg[p][Program[j].b] \in Words(Program[j].op)
BY BothOutputs

\* The two output shares of a dealt step, written out.
LEMMA OutputShares ==
  ASSUME IndInv, NEW j \in Shared, j \in DealSteps, NEW op, op = Program[j].op,
         NEW a, a = Program[j].a, NEW b, b = Program[j].b, NEW d, d = deal[j], op # "mask"
  PROVE  /\ reg["P0"][j] = OutShare(op, "P0", reg["P0"][a], reg["P0"][b], Material(op, "P0", d),
                Blinded(op, reg["P1"][a], reg["P1"][b], Material(op, "P1", d)))
         /\ reg["P1"][j] = OutShare(op, "P1", reg["P1"][a], reg["P1"][b], Material(op, "P1", d),
                Blinded(op, reg["P0"][a], reg["P0"][b], Material(op, "P0", d)))
<1>1. j \in TalkSteps /\ op \notin OpenOps
  BY DEF DealSteps, TalkSteps, DealtOps, OpenOps
<1>2. reg["P0"][j] = Output("P0", j) /\ reg["P1"][j] = Output("P1", j)
  BY <1>1, BothOutputs DEF Parties
<1>3. Peer("P0") = "P1" /\ Peer("P1") = "P0"
  BY DEF Peer
<1> QED
  BY <1>1, <1>2, <1>3 DEF Output, Told, Mat, Operand2

\* The secret behind the first operand is combined the way the operation takes it.
LEMMA OperandSecrets ==
  ASSUME IndInv, NEW j \in Shared, j \in TalkSteps
  PROVE  Secret(Program[j].a) =
           IF TakesA(Program[j].op)
           THEN CombineA(reg["P0"][Program[j].a], reg["P1"][Program[j].a])
           ELSE CombineX(reg["P0"][Program[j].a], reg["P1"][Program[j].a])
<1>1. j \in Steps /\ Program[j].op \notin InOps
  BY ProgramFacts DEF TalkSteps, InOps, DealtOps, OpenOps
<1>2. Program[Program[j].a].op \in Operands(Program[j].op)
  BY <1>1, ProgramAssumption
<1>3. Program[Program[j].a].op \in AShares <=> TakesA(Program[j].op)
  BY <1>2 DEF Operands, AShares, XShares
<1> QED
  BY <1>3 DEF Secret

\* The same for the second operand.
LEMMA OperandSecrets2 ==
  ASSUME IndInv, NEW j \in Shared, j \in TalkSteps, Program[j].op \in {"mul", "and", "or"}
  PROVE  Secret(Program[j].b) =
           IF TakesA(Program[j].op)
           THEN CombineA(reg["P0"][Program[j].b], reg["P1"][Program[j].b])
           ELSE CombineX(reg["P0"][Program[j].b], reg["P1"][Program[j].b])
<1>1. j \in Steps
  BY ProgramFacts
<1>2. Program[Program[j].b].op \in Operands(Program[j].op)
  BY <1>1, ProgramAssumption
<1>3. Program[Program[j].b].op \in AShares <=> TakesA(Program[j].op)
  BY <1>2 DEF Operands, AShares, XShares
<1> QED
  BY <1>3 DEF Secret

\* IndInv implies OpCorrect: the algebra of the three operations.
LEMMA IndInvOpCorrect == IndInv => OpCorrect
<1> SUFFICES ASSUME IndInv, NEW j \in Shared,
                    Program[j].op \in {"mul", "and", "or"}
             PROVE  /\ Program[j].op = "mul" =>
                         Secret(j) = Wrap(Secret(Program[j].a) * Secret(Program[j].b))
                    /\ Program[j].op = "and" =>
                         Secret(j) = Secret(Program[j].a) \cap Secret(Program[j].b)
                    /\ Program[j].op = "or" =>
                         Secret(j) = Secret(Program[j].a) \cup Secret(Program[j].b)
  BY DEF OpCorrect
<1>0. j \in DealSteps /\ j \in TalkSteps
  <2>1. Len(reg["P0"]) \in Nat /\ Len(reg["P1"]) \in Nat
        /\ Len(reg["P0"]) <= Len(Program) /\ Len(reg["P1"]) <= Len(Program)
    BY DEF IndInv, FlowInv, TypeOK, RegType, IsSeq, Parties
  <2>2. j \in Steps
    BY <2>1, ProgramFacts DEF Shared, Steps
  <2> QED
    BY <2>2 DEF DealSteps, TalkSteps, DealtOps
<1>b. Program[j].op \in DealtOps \ {"mask"}
  BY DEF DealtOps
<1>c. ASSUME NEW q \in Parties
      PROVE  /\ reg[q][Program[j].a] \in Words(Program[j].op)
             /\ reg[q][Program[j].b] \in Words(Program[j].op)
  BY <1>0, <1>b, BothOperands
<1>d. deal[j] \in Draws(Program[j].op)
  BY <1>0, BothOutputs
<1> DEFINE a == Program[j].a
           b == Program[j].b
           d == deal[j]
           op == Program[j].op
<1>1. /\ reg["P0"][a] \in Words(op) /\ reg["P1"][a] \in Words(op)
      /\ reg["P0"][b] \in Words(op) /\ reg["P1"][b] \in Words(op)
      /\ d \in Draws(op)
  <2>1. "P0" \in Parties /\ "P1" \in Parties
    BY DEF Parties
  <2> QED
    BY <2>1, <1>c, <1>d
<1>2. /\ reg["P0"][j] = OutShare(op, "P0", reg["P0"][a], reg["P0"][b], Material(op, "P0", d),
                Blinded(op, reg["P1"][a], reg["P1"][b], Material(op, "P1", d)))
      /\ reg["P1"][j] = OutShare(op, "P1", reg["P1"][a], reg["P1"][b], Material(op, "P1", d),
                Blinded(op, reg["P0"][a], reg["P0"][b], Material(op, "P0", d)))
  BY <1>0, OutputShares
<1>3. /\ Secret(a) = IF TakesA(op) THEN CombineA(reg["P0"][a], reg["P1"][a])
                                   ELSE CombineX(reg["P0"][a], reg["P1"][a])
      /\ Secret(b) = IF TakesA(op) THEN CombineA(reg["P0"][b], reg["P1"][b])
                                   ELSE CombineX(reg["P0"][b], reg["P1"][b])
  BY <1>0, OperandSecrets, OperandSecrets2
<1>4. Secret(j) = IF op \in AShares THEN CombineA(reg["P0"][j], reg["P1"][j])
                                    ELSE CombineX(reg["P0"][j], reg["P1"][j])
  BY DEF Secret
<1>5. op \in {"mul", "and", "or"}
  OBVIOUS
<1> HIDE DEF a, b, d, op
<1>6. ASSUME op = "mul" PROVE Secret(j) = Wrap(Secret(a) * Secret(b))
  <2>1. /\ reg["P0"][a] \in AWord /\ reg["P1"][a] \in AWord
        /\ reg["P0"][b] \in AWord /\ reg["P1"][b] \in AWord
    BY <1>1, <1>6 DEF Words, TakesA
  <2>2. d \in Quad
    BY <1>1, <1>6, SampleAssumption DEF Draws, Quad
  <2>3. Secret(j) = CombineA(
          MulShare(reg["P0"][a], reg["P0"][b], MulWire("P0", d),
                   MulBlind(reg["P1"][a], reg["P1"][b], MulWire("P1", d))),
          MulShare(reg["P1"][a], reg["P1"][b], MulWire("P1", d),
                   MulBlind(reg["P0"][a], reg["P0"][b], MulWire("P0", d))))
    BY <1>2, <1>4, <1>6 DEF OutShare, Blinded, Material, AShares
  <2>4. Secret(a) = CombineA(reg["P0"][a], reg["P1"][a]) /\ Secret(b) = CombineA(reg["P0"][b], reg["P1"][b])
    BY <1>3, <1>6 DEF TakesA
  <2> QED
    BY <2>1, <2>2, <2>3, <2>4, MulWireCorrect
<1>7. ASSUME op \in {"and", "or"}
      PROVE  /\ reg["P0"][a] \in XWord /\ reg["P1"][a] \in XWord
             /\ reg["P0"][b] \in XWord /\ reg["P1"][b] \in XWord /\ d \in XQuad
             /\ Secret(j) = CombineX(reg["P0"][j], reg["P1"][j])
             /\ Secret(a) = CombineX(reg["P0"][a], reg["P1"][a])
             /\ Secret(b) = CombineX(reg["P0"][b], reg["P1"][b])
  <2>1. ~TakesA(op) /\ op \notin AShares
    BY <1>7 DEF TakesA, AShares
  <2>2. d \in XQuad
    BY <1>1, <1>7, SampleAssumption DEF Draws, XQuad
  <2> QED
    BY <2>1, <2>2, <1>1, <1>3, <1>4 DEF Words
<1>8. ASSUME op = "and" PROVE Secret(j) = Secret(a) \cap Secret(b)
  <2>1. Secret(j) = CombineX(
          AndShare(reg["P0"][a], reg["P0"][b], AndTriple("P0", d),
                   AndBlind(reg["P1"][a], reg["P1"][b], AndTriple("P1", d))),
          AndShare(reg["P1"][a], reg["P1"][b], AndTriple("P1", d),
                   AndBlind(reg["P0"][a], reg["P0"][b], AndTriple("P0", d))))
    BY <1>2, <1>7, <1>8 DEF OutShare, Blinded, Material
  <2> QED
    BY <2>1, <1>7, <1>8, AndCorrect
<1>9. ASSUME op = "or" PROVE Secret(j) = Secret(a) \cup Secret(b)
  <2>1. Secret(j) = CombineX(
          OrShare(reg["P0"][a], reg["P0"][b], AndTriple("P0", d),
                  AndBlind(reg["P1"][a], reg["P1"][b], AndTriple("P1", d))),
          OrShare(reg["P1"][a], reg["P1"][b], AndTriple("P1", d),
                  AndBlind(reg["P0"][a], reg["P0"][b], AndTriple("P0", d))))
    BY <1>2, <1>7, <1>9 DEF OutShare, Blinded, Material
  <2> QED
    BY <2>1, <1>7, <1>9, OrCorrect
<1> QED
  BY <1>6, <1>8, <1>9 DEF a, b, op

\* The secret behind the result of mpc_mul, mpc_and and mpc_or is the product,
\* the conjunction or the disjunction of the secrets behind the operands.
THEOREM OperationsCorrect == Spec => []OpCorrect
BY IndInvCorrect, IndInvOpCorrect, PTL

\* IndInv implies OpenCorrect: combining shares is symmetric.
LEMMA IndInvOpenCorrect == IndInv => OpenCorrect
<1> SUFFICES ASSUME IndInv, NEW j \in Shared, Program[j].op \in OpenOps, NEW p \in Parties
             PROVE  reg[p][j] = Secret(Program[j].a)
  BY DEF OpenCorrect
<1>0. j \in TalkSteps
  <2>1. Len(reg["P0"]) \in Nat /\ Len(reg["P1"]) \in Nat
        /\ Len(reg["P0"]) <= Len(Program) /\ Len(reg["P1"]) <= Len(Program)
    BY DEF IndInv, FlowInv, TypeOK, RegType, IsSeq, Parties
  <2>2. j \in Steps
    BY <2>1, ProgramFacts DEF Shared, Steps
  <2> QED
    BY <2>2 DEF TalkSteps
<1>c. ASSUME NEW q \in Parties PROVE reg[q][Program[j].a] \in Words(Program[j].op)
  BY <1>0, BothOperands
<1> DEFINE x == reg["P0"][Program[j].a]
           y == reg["P1"][Program[j].a]
<1>1. /\ reg["P0"][j] = Combine(Program[j].op, x, y) /\ reg["P1"][j] = Combine(Program[j].op, y, x)
  <2>1. reg["P0"][j] = Output("P0", j) /\ reg["P1"][j] = Output("P1", j)
    BY <1>0, BothOutputs DEF Parties
  <2>2. Peer("P0") = "P1" /\ Peer("P1") = "P0"
    BY DEF Peer
  <2> QED
    BY <2>1, <2>2 DEF Output, Told
<1>2. x \in Words(Program[j].op) /\ y \in Words(Program[j].op)
  BY <1>c DEF Parties
<1>3. Secret(Program[j].a) = IF TakesA(Program[j].op) THEN CombineA(x, y) ELSE CombineX(x, y)
  BY <1>0, OperandSecrets
<1> HIDE DEF x, y
<1>4. CASE Program[j].op = "openA"
  <2>1. x \in Int /\ y \in Int
    BY <1>2, <1>4, AWordInt DEF Words, TakesA
  <2>2. x + y = y + x
    BY <2>1
  <2>3. CombineA(x, y) = CombineA(y, x)
    BY <2>2 DEF CombineA
  <2> QED
    BY <2>3, <1>1, <1>3, <1>4 DEF Combine, TakesA, Parties
<1>5. CASE Program[j].op = "openX"
  <2>1. CombineX(x, y) = CombineX(y, x)
    BY DEF CombineX, Xor
  <2> QED
    BY <2>1, <1>1, <1>3, <1>5 DEF Combine, TakesA, Parties
<1> QED
  BY <1>4, <1>5 DEF OpenOps

\* reconstruct_remote gives both parties the secret behind the share.
THEOREM ReconstructionCorrect == Spec => []OpenCorrect
BY IndInvCorrect, IndInvOpenCorrect, PTL

(* The masked word of mpc_eqz.                                             *)

\* Adding the same word to both sides of a residue.
LEMMA SumZero ==
  ASSUME NEW s \in Int, NEW r \in AWord
  PROVE  Wrap(s + r) = r <=> Wrap(s) = 0
<1> DEFINE M == Modulus
<1>0. M \in Nat \ {0} /\ r \in 0 .. (M - 1) /\ r \in Int
  BY WordSize DEF AWord
<1> HIDE DEF M
<1>1. PICK k \in Int : s = M * k + (s % M)
  BY <1>0, DivMod
<1>2. s % M \in 0 .. (M - 1)
  BY <1>0, DivMod
<1>3. ASSUME s % M = 0 PROVE (s + r) % M = r
  <2>1. s + r = M * k + r /\ s + r \in Int
    BY <1>0, <1>1, <1>3
  <2> QED
    BY <2>1, <1>0, <1>1, ModUnique
<1>4. ASSUME (s + r) % M = r PROVE s % M = 0
  <2>0. s + r \in Int
    BY <1>0
  <2>1. PICK j \in Int : s + r = M * j + ((s + r) % M)
    BY <2>0, <1>0, DivMod
  <2>2. s = M * j + 0 /\ 0 \in 0 .. (M - 1)
    BY <2>1, <1>4, <1>0
  <2> QED
    BY <2>2, <1>0, ModUnique
<1> QED
  BY <1>3, <1>4 DEF Wrap, M

\* What P2 draws for the mask of mpc_eqz.
MaskDraw == [r : AWord, r0AS : AWord, r0XS : XWord]

\* The word that P1 opens in mpc_eqz is the secret plus the mask.
LEMMA MaskOpens ==
  ASSUME NEW x \in AWord, NEW y \in AWord, NEW d \in MaskDraw
  PROVE  Wrap(y + Wrap(d.r - d.r0AS) + Wrap(x + d.r0AS)) = Wrap((x + y) + d.r)
<1> DEFINE r == d.r
           q == d.r0AS
           M == Modulus
<1>0. x \in Int /\ y \in Int /\ r \in Int /\ q \in Int /\ M \in Nat \ {0}
  BY AWordInt, WordSize DEF MaskDraw
<1> HIDE DEF r, q, M
<1>i. r - q \in Int /\ x + q \in Int
  BY <1>0
<1>1. PICK j \in Int : r - q = M * j + ((r - q) % M)
  BY <1>i, <1>0, DivMod
<1>2. PICK k \in Int : x + q = M * k + ((x + q) % M)
  BY <1>i, <1>0, DivMod
<1> DEFINE u == (r - q) % M
           v == (x + q) % M
<1>3. u \in Int /\ v \in Int
  BY <1>i, <1>0, DivMod
<1>4. r - q = M * j + u /\ x + q = M * k + v
  BY <1>1, <1>2
<1> HIDE DEF u, v
<1>5. (x + y) + r = (y + u + v) + M * (j + k)
  BY <1>0, <1>3, <1>4
<1>6. ((y + u + v) + M * (j + k)) % M = (y + u + v) % M
  <2>1. y + u + v \in Int /\ j + k \in Int
    BY <1>0, <1>3
  <2> QED
    BY <2>1, <1>0, ModShift
<1> QED
  BY <1>5, <1>6 DEF Wrap, u, v, r, q, M

\* The word behind the leaves of the OR tree is zero exactly if the secret is.
LEMMA MaskCorrect ==
  ASSUME NEW x \in AWord, NEW y \in AWord, NEW d \in MaskDraw
  PROVE  LET m0 == EqzMask("P0", d)
             m1 == EqzMask("P1", d)
             w == CombineX(EqzShare("P0", x, m0, EqzBlind(y, m1)),
                           EqzShare("P1", y, m1, EqzBlind(x, m0)))
         IN  w \in XWord /\ (w = {} <=> CombineA(x, y) = 0)
<1> DEFINE c == Wrap(y + Wrap(d.r - d.r0AS) + Wrap(x + d.r0AS))
<1>1. EqzMask("P0", d) = <<d.r0AS, d.r0XS>>
      /\ EqzMask("P1", d) = <<Wrap(d.r - d.r0AS), Xor(Bits(d.r), d.r0XS)>>
  BY DEF EqzMask
<1>2. /\ EqzShare("P0", x, EqzMask("P0", d), EqzBlind(y, EqzMask("P1", d))) = d.r0XS
      /\ EqzShare("P1", y, EqzMask("P1", d), EqzBlind(x, EqzMask("P0", d)))
           = Xor(Bits(c), Xor(Bits(d.r), d.r0XS))
  BY <1>1 DEF EqzShare, EqzBlind
<1>3. x \in Int /\ y \in Int /\ d.r \in AWord /\ d.r \in Int
  BY AWordInt DEF MaskDraw
<1>4. c = Wrap((x + y) + d.r)
  BY MaskOpens
<1>5. c \in AWord
  <2>1. (x + y) + d.r \in Int
    BY <1>3
  <2> QED
    BY <2>1, <1>4, WrapType
<1> HIDE DEF c
<1>6. Xor(d.r0XS, Xor(Bits(c), Xor(Bits(d.r), d.r0XS))) = Xor(Bits(c), Bits(d.r))
  BY DEF Xor
<1>7. Xor(Bits(c), Bits(d.r)) = {} <=> Bits(c) = Bits(d.r)
  BY DEF Xor
<1>8. Bits(c) = Bits(d.r) <=> c = d.r
  BY <1>3, <1>5, BitsInjective
<1>9. c = d.r <=> CombineA(x, y) = 0
  <2>1. x + y \in Int
    BY <1>3
  <2> QED
    BY <2>1, <1>3, <1>4, SumZero DEF CombineA
<1>10. Xor(Bits(c), Bits(d.r)) \in XWord
  BY BitsType, XorType
<1> QED
  BY <1>2, <1>6, <1>7, <1>8, <1>9, <1>10 DEF CombineX

\* Taking a bit of both shares takes the bit of the secret.
LEMMA BitCorrect ==
  ASSUME NEW x, NEW y, NEW i
  PROVE  CombineX(BitOf(x, i), BitOf(y, i)) = BitOf(CombineX(x, y), i)
BY DEF CombineX, Xor, BitOf

-----------------------------------------------------------------------------
(* How the results grow.                                                   *)

\* The leaves of mpc_eqz are bits of the party's own share.
BitInv ==
  \A p \in Parties : \A j \in 1 .. Len(reg[p]) :
    Program[j].op = "bit" => reg[p][j] = BitOf(reg[p][Program[j].a], Program[j].b)

\* p completes its step with the result v, and nobody else has a new result.
Grows(p, v) ==
  /\ Cur(p) \in Steps /\ Cur(p) = Len(reg[p]) + 1
  /\ Len(reg'[p]) = Len(reg[p]) + 1 /\ reg'[p][Len(reg[p]) + 1] = v
  /\ \A j \in 1 .. Len(reg[p]) : reg'[p][j] = reg[p][j]
  /\ reg'[Peer(p)] = reg[Peer(p)]
  /\ Op(p) = "bit" => v = BitOf(reg[p][Program[Cur(p)].a], Program[Cur(p)].b)

\* A party appends a result.
LEMMA AppendGrows ==
  ASSUME TypeOK, NEW p \in Parties, Cur(p) \in Steps, NEW v,
         reg' = [reg EXCEPT ![p] = Append(@, v)],
         Op(p) = "bit" => v = BitOf(X(p), Program[Cur(p)].b)
  PROVE  Grows(p, v)
<1>1. /\ reg = [q \in Parties |-> reg[q]] /\ IsSeq(reg[p]) /\ Cur(p) = Len(reg[p]) + 1
  BY CurFacts DEF TypeOK, RegType
<1>2. reg'[p] = Append(reg[p], v) /\ \A q \in Parties : q # p => reg'[q] = reg[q]
  BY <1>1
<1>3. /\ Len(reg'[p]) = Len(reg[p]) + 1 /\ reg'[p][Len(reg[p]) + 1] = v
      /\ \A j \in 1 .. Len(reg[p]) : reg'[p][j] = reg[p][j]
  BY <1>1, <1>2, AppendIsSeq
<1> QED
  BY <1>1, <1>2, <1>3, PeerFacts DEF Grows, X

\* A step of the system gives at most one party one new result.
LEMMA OneResult ==
  ASSUME TypeOK, [Next]_vars
  PROVE  reg' = reg \/ \E p \in Parties : \E v : Grows(p, v)
<1>1. ASSUME NEW p \in Parties, Local(p) PROVE \E v : Grows(p, v)
  <2>1. Cur(p) \in Steps
    BY <1>1 DEF Local, Running
  <2>2. PICK v : /\ reg' = [reg EXCEPT ![p] = Append(@, v)]
                 /\ Op(p) = "bit" => v = BitOf(X(p), Program[Cur(p)].b)
    BY <1>1, Zenon DEF Local
  <2> QED
    BY <2>1, <2>2, AppendGrows
<1>2. ASSUME NEW p \in Parties, Exchange(p) \/ RecvShare(p) PROVE \E v : Grows(p, v)
  <2>1. Cur(p) \in Steps /\ Op(p) # "bit"
    BY <1>2 DEF Exchange, RecvShare, Running, DealtOps, OpenOps
  <2>2. PICK v : reg' = [reg EXCEPT ![p] = Append(@, v)]
    BY <1>2 DEF Exchange, RecvShare, Complete
  <2> QED
    BY <2>1, <2>2, AppendGrows
<1>3. ASSUME NEW p \in Parties, Blind(p) \/ SendShare(p) PROVE reg' = reg
  BY <1>3 DEF Blind, SendShare
<1>4. ASSUME NEW p \in Roles, Finish(p) \/ IoError(p) \/ Crash(p) PROVE reg' = reg
  BY <1>4 DEF Finish, IoError, Crash, End
<1>5. ASSUME DealerStep PROVE reg' = reg
  BY <1>5 DEF DealerStep, Deal, DealerLocal
<1>6. ASSUME UNCHANGED vars PROVE reg' = reg
  BY <1>6 DEF vars
<1> QED
  BY <1>1, <1>2, <1>3, <1>4, <1>5, <1>6 DEF Next, RoleStep, PartyStep

\* BitInv is inductive.
LEMMA BitStep ==
  ASSUME TypeOK, BitInv, [Next]_vars
  PROVE  BitInv'
<1>1. CASE reg' = reg
  BY <1>1 DEF BitInv
<1>2. ASSUME NEW p \in Parties, NEW v, Grows(p, v) PROVE BitInv'
  <2>1. Len(reg[p]) \in Nat /\ Peer(p) \in Parties /\ \A q \in Parties : q = p \/ q = Peer(p)
    BY CurFacts, PeerFacts DEF Parties, Peer
  <2>2. ASSUME NEW j \in 1 .. Len(reg'[p]), Program[j].op = "bit"
        PROVE  reg'[p][j] = BitOf(reg'[p][Program[j].a], Program[j].b)
    <3>1. j \in 1 .. (Len(reg[p]) + 1)
      BY <1>2 DEF Grows
    <3>2. j \in Steps
      BY <3>1, <2>1, <1>2 DEF Grows, Steps
    <3>3. Program[j].a \in 1 .. (j - 1)
      BY <3>2, <2>2, ProgramAssumption DEF InOps
    <3>4. Program[j].a \in 1 .. Len(reg[p])
      BY <3>1, <3>3, <2>1
    <3>5. reg'[p][Program[j].a] = reg[p][Program[j].a]
      BY <3>4, <1>2 DEF Grows
    <3>6. CASE j = Len(reg[p]) + 1
      BY <3>6, <3>5, <2>2, <1>2 DEF Grows, Op
    <3>7. CASE j \in 1 .. Len(reg[p])
      BY <3>7, <3>5, <2>2, <1>2 DEF Grows, BitInv
    <3> QED
      BY <3>1, <3>6, <3>7, <2>1
  <2>3. reg'[Peer(p)] = reg[Peer(p)]
    BY <1>2 DEF Grows
  <2> QED
    BY <2>1, <2>2, <2>3 DEF BitInv
<1> QED
  BY <1>1, <1>2, OneResult

\* The leaves are bits in every reachable state.
LEMMA LeavesCorrect == Spec => []BitInv
<1>1. Init => BitInv
  BY EmptyIsSeq DEF Init, BitInv
<1> QED
  BY <1>1, TypeCorrect, BitStep, PTL DEF Spec

-----------------------------------------------------------------------------
(* The refinement.                                                         *)

\* What the abstract machine has computed.
Val == [j \in Shared |-> IF Opened(j) THEN reg["P0"][j] ELSE Secret(j)]

\* The number of steps that both parties have completed.
Common == IF Len(reg["P0"]) < Len(reg["P1"]) THEN Len(reg["P0"]) ELSE Len(reg["P1"])

\* Every value is one that the abstract machine may compute.
ValInv == \A j \in Shared : Val[j] \in Ideal!Values(Program[j])

\* The words of the abstract machine are those of MpcOps.
LEMMA IdealWords ==
  /\ Ideal!AWord = AWord /\ Ideal!XWord = XWord
  /\ \A n : Ideal!Wrap(n) = Wrap(n)
  /\ \A w, i : Ideal!BitOf(w, i) = BitOf(w, i)
BY DEF Ideal!AWord, AWord, Ideal!XWord, XWord, Ideal!Modulus, Modulus,
       Ideal!Wrap, Wrap, Ideal!BitOf, BitOf

\* Facts about Common.
LEMMA CommonFacts ==
  ASSUME TypeOK
  PROVE  /\ Common \in Nat /\ Common <= Len(Program) /\ Shared = 1 .. Common
         /\ \A q \in Parties : Common <= Len(reg[q])
<1>1. Len(reg["P0"]) \in Nat /\ Len(reg["P1"]) \in Nat
      /\ Len(reg["P0"]) <= Len(Program) /\ Len(reg["P1"]) <= Len(Program)
  BY DEF TypeOK, RegType, IsSeq, Parties
<1> QED
  BY <1>1, ProgramFacts DEF Common, Shared, Parties

\* An operand of a completed step is a completed step that shares a secret.
LEMMA OperandVal ==
  ASSUME TypeOK, NEW j \in Shared, Program[j].op \notin InOps
  PROVE  /\ Program[j].a \in 1 .. (j - 1) /\ Val[Program[j].a] = Secret(Program[j].a)
         /\ Program[j].op \in {"mul", "and", "or"} =>
              Program[j].b \in 1 .. (j - 1) /\ Val[Program[j].b] = Secret(Program[j].b)
<1>1. j \in Steps /\ Common \in Nat /\ Shared = 1 .. Common
  BY CommonFacts, ProgramFacts DEF Steps
<1>2. Program[j].a \in 1 .. (j - 1) /\ Program[Program[j].a].op \in Operands(Program[j].op)
  BY <1>1, ProgramAssumption
<1>3. Program[j].op \in {"mul", "and", "or"} =>
        Program[j].b \in 1 .. (j - 1) /\ Program[Program[j].b].op \in Operands(Program[j].op)
  BY <1>1, ProgramAssumption
<1>4. ASSUME NEW i \in 1 .. (j - 1), Program[i].op \in Operands(Program[j].op)
      PROVE  Val[i] = Secret(i)
  <2>1. i \in Shared
    BY <1>1
  <2>2. ~Opened(i)
    BY <1>4 DEF Opened, Operands, AShares, XShares, OpenOps
  <2> QED
    BY <2>1, <2>2 DEF Val
<1> QED
  BY <1>2, <1>3, <1>4

\* The secret behind a mask of mpc_eqz is zero exactly if its operand is.
LEMMA MaskSecret ==
  ASSUME IndInv, NEW j \in Shared, Program[j].op = "mask"
  PROVE  Secret(j) \in XWord /\ (Secret(j) = {} <=> Secret(Program[j].a) = 0)
<1>0. TypeOK /\ j \in Steps
  BY CommonFacts, ProgramFacts DEF Steps, IndInv, FlowInv
<1>1. j \in TalkSteps /\ j \in DealSteps /\ Program[j].op \notin OpenOps
  BY <1>0 DEF TalkSteps, DealSteps, DealtOps, OpenOps
<1> DEFINE a == Program[j].a
           x == reg["P0"][a]
           y == reg["P1"][a]
           d == deal[j]
           m0 == EqzMask("P0", d)
           m1 == EqzMask("P1", d)
<1>2. x \in AWord /\ y \in AWord
  <2>1. "P0" \in Parties /\ "P1" \in Parties
    BY DEF Parties
  <2>2. Words("mask") = AWord
    BY DEF Words, TakesA
  <2> QED
    BY <2>1, <2>2, <1>1, BothOperands
<1>3. d \in MaskDraw
  <2>1. d \in Draws("mask")
    BY <1>1, BothOutputs
  <2>2. Draws("mask") = [r : RandA, r0AS : RandA, r0XS : RandX]
    BY Zenon DEF Draws
  <2>3. d.r \in RandA /\ d.r0AS \in RandA /\ d.r0XS \in RandX
        /\ d = [r |-> d.r, r0AS |-> d.r0AS, r0XS |-> d.r0XS]
    <3> HIDE DEF d
    <3>1. d \in [r : RandA, r0AS : RandA, r0XS : RandX]
      BY <2>1, <2>2
    <3> QED
      BY <3>1
  <2>4. d.r \in AWord /\ d.r0AS \in AWord /\ d.r0XS \in XWord
    BY <2>3, SampleAssumption
  <2> HIDE DEF d
  <2> QED
    BY <2>3, <2>4 DEF MaskDraw
<1>4. Peer("P0") = "P1" /\ Peer("P1") = "P0"
  BY DEF Peer
<1>5. reg["P0"][j] = Output("P0", j) /\ reg["P1"][j] = Output("P1", j)
  BY <1>1, BothOutputs DEF Parties
<1>6. /\ Output("P0", j) = OutShare("mask", "P0", x, 0, Mat("P0", j), Told("P1", j))
      /\ Output("P1", j) = OutShare("mask", "P1", y, 0, Mat("P1", j), Told("P0", j))
      /\ Told("P0", j) = Blinded("mask", x, 0, Mat("P0", j))
      /\ Told("P1", j) = Blinded("mask", y, 0, Mat("P1", j))
      /\ Mat("P0", j) = Material("mask", "P0", d) /\ Mat("P1", j) = Material("mask", "P1", d)
  BY <1>1, <1>4 DEF Output, Told, Operand2, Mat
<1>7. ASSUME NEW p PROVE Material("mask", p, d) = EqzMask(p, d)
  BY Zenon DEF Material
<1>8. ASSUME NEW u, NEW m PROVE Blinded("mask", u, 0, m) = EqzBlind(u, m)
  BY Zenon DEF Blinded
<1>9. ASSUME NEW p, NEW u, NEW m, NEW t PROVE OutShare("mask", p, u, 0, m, t) = EqzShare(p, u, m, t)
  BY Zenon DEF OutShare
<1>10. Secret(j) = CombineX(reg["P0"][j], reg["P1"][j])
  BY DEF Secret, AShares
<1>11. Secret(a) = CombineA(x, y)
  BY <1>1, OperandSecrets DEF TakesA
<1>12. Secret(j) = CombineX(EqzShare("P0", x, m0, EqzBlind(y, m1)), EqzShare("P1", y, m1, EqzBlind(x, m0)))
  <2>1. /\ Mat("P0", j) = m0 /\ Mat("P1", j) = m1
        /\ Told("P0", j) = EqzBlind(x, m0) /\ Told("P1", j) = EqzBlind(y, m1)
    BY <1>6, <1>7, <1>8
  <2>2. /\ Output("P0", j) = EqzShare("P0", x, m0, EqzBlind(y, m1))
        /\ Output("P1", j) = EqzShare("P1", y, m1, EqzBlind(x, m0))
    BY <2>1, <1>6, <1>9
  <2> QED
    BY <2>2, <1>5, <1>10
<1> QED
  BY <1>2, <1>3, <1>11, <1>12, MaskCorrect

\* The inductive invariant makes every value one of the abstract machine's.
LEMMA IndInvVal == IndInv /\ BitInv => ValInv
<1> SUFFICES ASSUME IndInv, BitInv, NEW j \in Shared
             PROVE  Val[j] \in Ideal!Values(Program[j])
  BY DEF ValInv
<1>0. TypeOK /\ OpCorrect /\ OpenCorrect
  BY IndInvOpCorrect, IndInvOpenCorrect DEF IndInv, FlowInv
<1>1. j \in Steps /\ Program[j].op \in Ops /\ Common \in Nat /\ Shared = 1 .. Common
  BY <1>0, CommonFacts, ProgramFacts DEF Steps
<1>2. ASSUME NEW q \in Parties PROVE reg[q][j] \in Result(Program[j].op) /\ j \in 1 .. Len(reg[q])
  BY <1>0, <1>1, CommonFacts DEF TypeOK, RegType
<1>3. Val[j] = IF Opened(j) THEN reg["P0"][j] ELSE Secret(j)
  BY DEF Val
<1> DEFINE s == Program[j]
<1>4. /\ s.op \notin InOps => Val[s.a] = Secret(s.a)
      /\ s.op \in {"mul", "and", "or"} => Val[s.b] = Secret(s.b)
  BY <1>0, OperandVal DEF InOps
<1>5. s.op \notin OpenOps => Val[j] = Secret(j)
  BY <1>3 DEF Opened
<1>p. "P0" \in Parties /\ "P1" \in Parties
  BY DEF Parties
<1>6. CASE s.op = "inA"
  <2>1. reg["P0"][j] \in AWord /\ reg["P1"][j] \in AWord
    BY <1>p, <1>2, <1>6 DEF Result, AShares
  <2>2. Secret(j) = Wrap(reg["P0"][j] + reg["P1"][j])
    BY <1>6 DEF Secret, AShares, CombineA
  <2>3. Secret(j) \in AWord
    BY <2>1, <2>2, WrapType, AWordInt
  <2>4. Ideal!Values(s) = AWord
    BY <1>6, IdealWords, Zenon DEF Ideal!Values
  <2> QED
    BY <2>3, <2>4, <1>5, <1>6 DEF OpenOps
<1>7. CASE s.op = "inX"
  <2>1. reg["P0"][j] \in XWord /\ reg["P1"][j] \in XWord
    BY <1>p, <1>2, <1>7 DEF Result, AShares
  <2>2. Secret(j) = Xor(reg["P0"][j], reg["P1"][j])
    BY <1>7 DEF Secret, AShares, CombineX
  <2>3. Ideal!Values(s) = XWord
    BY <1>7, IdealWords, Zenon DEF Ideal!Values
  <2> QED
    BY <2>1, <2>2, <2>3, <1>5, <1>7, XorType DEF OpenOps
<1>8. CASE s.op = "mul"
  <2>1. Secret(j) = Wrap(Secret(s.a) * Secret(s.b))
    BY <1>0, <1>8 DEF OpCorrect
  <2>2. Ideal!Values(s) = {Ideal!Wrap(Val[s.a] * Val[s.b])}
    BY <1>8, Zenon DEF Ideal!Values, Val
  <2> QED
    BY <2>1, <2>2, <1>4, <1>5, <1>8, IdealWords DEF OpenOps, InOps
<1>9. CASE s.op = "and"
  <2>1. Secret(j) = Secret(s.a) \cap Secret(s.b)
    BY <1>0, <1>9 DEF OpCorrect
  <2>2. Ideal!Values(s) = {Val[s.a] \cap Val[s.b]}
    BY <1>9, Zenon DEF Ideal!Values, Val
  <2> QED
    BY <2>1, <2>2, <1>4, <1>5, <1>9 DEF OpenOps, InOps
<1>10. CASE s.op = "or"
  <2>1. Secret(j) = Secret(s.a) \cup Secret(s.b)
    BY <1>0, <1>10 DEF OpCorrect
  <2>2. Ideal!Values(s) = {Val[s.a] \cup Val[s.b]}
    BY <1>10, Zenon DEF Ideal!Values, Val
  <2> QED
    BY <2>1, <2>2, <1>4, <1>5, <1>10 DEF OpenOps, InOps
<1>11. CASE s.op = "mask"
  <2>1. Secret(j) \in XWord /\ (Secret(j) = {} <=> Secret(s.a) = 0)
    BY <1>11, MaskSecret
  <2>2. Ideal!Values(s) = {w \in XWord : (w = {}) <=> (Val[s.a] = 0)}
    <3>1. Ideal!Values(s) = {w \in Ideal!XWord : (w = {}) <=> (Val[s.a] = 0)}
      BY <1>11, Zenon DEF Ideal!Values, Val
    <3> QED
      BY <3>1, IdealWords
  <2> QED
    BY <2>1, <2>2, <1>4, <1>5, <1>11 DEF OpenOps, InOps
<1>12. CASE s.op = "bit"
  <2>1. /\ reg["P0"][j] = BitOf(reg["P0"][s.a], s.b)
        /\ reg["P1"][j] = BitOf(reg["P1"][s.a], s.b)
    BY <1>p, <1>2, <1>12 DEF BitInv
  <2>2. Secret(j) = CombineX(reg["P0"][j], reg["P1"][j])
    BY <1>12 DEF Secret, AShares
  <2>3. Program[s.a].op \notin AShares
    BY <1>1, <1>12, ProgramAssumption DEF InOps, Operands, TakesA, AShares, XShares
  <2>4. Secret(s.a) = CombineX(reg["P0"][s.a], reg["P1"][s.a])
    BY <2>3 DEF Secret
  <2>5. Secret(j) = BitOf(Secret(s.a), s.b)
    BY <2>1, <2>2, <2>4, BitCorrect
  <2>6. Ideal!Values(s) = {BitOf(Val[s.a], s.b)}
    <3>1. Ideal!Values(s) = {Ideal!BitOf(Val[s.a], s.b)}
      BY <1>12, Zenon DEF Ideal!Values, Val
    <3> QED
      BY <3>1, IdealWords
  <2> QED
    BY <2>5, <2>6, <1>4, <1>5, <1>12 DEF OpenOps, InOps
<1>13. CASE s.op \in OpenOps
  <2>1. Val[j] = Secret(s.a)
    BY <1>13, <1>3, <1>p, <1>0 DEF OpenCorrect, Opened
  <2>2. Val[s.a] = Secret(s.a)
    BY <1>4, <1>13 DEF OpenOps, InOps
  <2>3. Ideal!Values(s) = {Val[s.a]}
    <3>1. CASE s.op = "openA"
      BY <3>1, Zenon DEF Ideal!Values, Val
    <3>2. CASE s.op = "openX"
      BY <3>2, Zenon DEF Ideal!Values, Val
    <3> QED
      BY <3>1, <3>2, <1>13 DEF OpenOps
  <2> QED
    BY <2>1, <2>2, <2>3
<1> QED
  BY <1>1, <1>6, <1>7, <1>8, <1>9, <1>10, <1>11, <1>12, <1>13 DEF Ops, InOps, DealtOps

\* Every value stays one that the abstract machine may compute.
LEMMA ValCorrect == Spec => []ValInv
BY IndInvCorrect, LeavesCorrect, IndInvVal, PTL

\* When nobody has a new result the abstract machine stutters.
LEMMA NoResultVal == ASSUME reg' = reg PROVE Val' = Val
BY DEF Val, Shared, Secret

\* The values so far do not change, and there is at most one new one.
LEMMA OldVal ==
  ASSUME TypeOK, NEW p \in Parties, NEW v, Grows(p, v)
  PROVE  /\ Common' \in {Common, Common + 1} /\ Shared' = 1 .. Common'
         /\ \A j \in 1 .. Common : Val'[j] = Val[j]
<1>1. /\ Common \in Nat /\ Shared = 1 .. Common
      /\ \A q \in Parties : Common <= Len(reg[q]) /\ Len(reg[q]) \in Nat
  BY CommonFacts, CurFacts
<1>2. \/ p = "P0" /\ Peer(p) = "P1"
      \/ p = "P1" /\ Peer(p) = "P0"
  BY DEF Parties, Peer
<1>3. Len(reg'[p]) = Len(reg[p]) + 1 /\ reg'[Peer(p)] = reg[Peer(p)]
      /\ \A j \in 1 .. Len(reg[p]) : reg'[p][j] = reg[p][j]
  BY DEF Grows
<1>4. Common' \in {Common, Common + 1}
  BY <1>1, <1>2, <1>3, SMTT(60) DEF Common, Parties
<1>5. Shared' = 1 .. Common'
  BY DEF Shared, Common
<1>6. ASSUME NEW j \in 1 .. Common PROVE Val'[j] = Val[j]
  <2>1. j \in Shared /\ j \in Shared'
    BY <1>1, <1>4, <1>5
  <2>2. reg'["P0"][j] = reg["P0"][j] /\ reg'["P1"][j] = reg["P1"][j]
    BY <1>1, <1>2, <1>3 DEF Parties
  <2>3. Secret(j)' = Secret(j)
    BY <2>2 DEF Secret
  <2>4. Val'[j] = IF Opened(j) THEN reg'["P0"][j] ELSE Secret(j)'
    BY <2>1 DEF Val, Opened
  <2> QED
    BY <2>1, <2>2, <2>3, <2>4 DEF Val
<1> QED
  BY <1>4, <1>5, <1>6

\* What the abstract machine may compute depends on its operands only.
LEMMA SameValues ==
  ASSUME TypeOK, NEW j \in Steps, \A i \in 1 .. (j - 1) : Val'[i] = Val[i]
  PROVE  Ideal!Values(Program[j])' = Ideal!Values(Program[j])
<1> DEFINE s == Program[j]
<1>1. /\ s.op \notin InOps => Val'[s.a] = Val[s.a]
      /\ s.op \in {"mul", "and", "or"} => Val'[s.b] = Val[s.b]
      /\ s.op \in Ops
  BY ProgramAssumption, ProgramFacts
<1>2. CASE s.op \in {"inA", "inX"}
  BY <1>2, Zenon DEF Ideal!Values
<1>3. CASE s.op = "mul"
  <2>1. Ideal!Values(s) = {Ideal!Wrap(Val[s.a] * Val[s.b])}
        /\ Ideal!Values(s)' = {Ideal!Wrap(Val'[s.a] * Val'[s.b])}
    BY <1>3, Zenon DEF Ideal!Values, Val
  <2> QED
    BY <2>1, <1>1, <1>3 DEF InOps
<1>4. CASE s.op = "and"
  <2>1. Ideal!Values(s) = {Val[s.a] \cap Val[s.b]}
        /\ Ideal!Values(s)' = {Val'[s.a] \cap Val'[s.b]}
    BY <1>4, Zenon DEF Ideal!Values, Val
  <2> QED
    BY <2>1, <1>1, <1>4 DEF InOps
<1>5. CASE s.op = "or"
  <2>1. Ideal!Values(s) = {Val[s.a] \cup Val[s.b]}
        /\ Ideal!Values(s)' = {Val'[s.a] \cup Val'[s.b]}
    BY <1>5, Zenon DEF Ideal!Values, Val
  <2> QED
    BY <2>1, <1>1, <1>5 DEF InOps
<1>6. CASE s.op = "mask"
  <2>1. Ideal!Values(s) = {w \in Ideal!XWord : (w = {}) <=> (Val[s.a] = 0)}
        /\ Ideal!Values(s)' = {w \in Ideal!XWord : (w = {}) <=> (Val'[s.a] = 0)}
    BY <1>6, Zenon DEF Ideal!Values, Val
  <2> QED
    BY <2>1, <1>1, <1>6 DEF InOps
<1>7. CASE s.op = "bit"
  <2>1. Ideal!Values(s) = {Ideal!BitOf(Val[s.a], s.b)}
        /\ Ideal!Values(s)' = {Ideal!BitOf(Val'[s.a], s.b)}
    BY <1>7, Zenon DEF Ideal!Values, Val
  <2> QED
    BY <2>1, <1>1, <1>7 DEF InOps
<1>8. CASE s.op \in {"openA", "openX"}
  <2>1. s.op \notin InOps
    BY <1>8 DEF InOps
  <2>2. s.op = "openA" \/ s.op = "openX"
    BY <1>8
  <2>3. Ideal!Values(s) = {Val[s.a]} /\ Ideal!Values(s)' = {Val'[s.a]}
    BY <2>2, Zenon DEF Ideal!Values, Val
  <2> QED
    BY <2>1, <2>3, <1>1
<1> QED
  BY <1>1, <1>2, <1>3, <1>4, <1>5, <1>6, <1>7, <1>8 DEF Ops, InOps, DealtOps, OpenOps

\* A new result of a party is a step of the abstract machine, or stutters.
LEMMA ResultComputes ==
  ASSUME TypeOK, TypeOK', ValInv', NEW p \in Parties, NEW v, Grows(p, v)
  PROVE  Ideal!Compute \/ Val' = Val
<1>0. PICK n \in Nat : n = Common
  BY CommonFacts
<1>k. PICK k \in Nat : k = n + 1
  OBVIOUS
<1>1. /\ n \in Nat /\ Common' \in {n, n + 1} /\ Shared = 1 .. n /\ Shared' = 1 .. Common'
      /\ \A j \in 1 .. n : Val'[j] = Val[j]
  BY <1>0, CommonFacts, OldVal
<1>2. Val = [j \in 1 .. n |-> Val[j]] /\ Val' = [j \in 1 .. Common' |-> Val'[j]]
  BY <1>1 DEF Val
<1>3. IsSeq(Val) /\ Len(Val) = n /\ IsSeq(Val') /\ Len(Val') = Common'
  BY <1>1, <1>2, TableIsSeq
<1>4. CASE Common' = n
  BY <1>4, <1>1, <1>3, SameSeq
<1>5. CASE Common' = n + 1
  <2>1. k \in Shared' /\ k \in Nat /\ k - 1 = n
    BY <1>1, <1>5, <1>k
  <2>2. Common' <= Len(Program)
    <3>1. Len(reg'["P0"]) \in Nat /\ Len(reg'["P1"]) \in Nat
          /\ Len(reg'["P0"]) <= Len(Program) /\ Len(reg'["P1"]) <= Len(Program)
      BY DEF TypeOK, RegType, IsSeq, Parties
    <3> QED
      BY <3>1 DEF Common
  <2>3. k \in Steps /\ n < Len(Program)
    BY <2>1, <2>2, <1>1, <1>5, <1>k, ProgramFacts DEF Steps
  <2>4. Val'[k] \in Ideal!Values(Program[k])'
    BY <2>1 DEF ValInv
  <2>5. Val'[k] \in Ideal!Values(Program[k])
    BY <2>1, <2>3, <2>4, <1>1, SameValues
  <2> DEFINE t == Append(Val, Val'[k])
  <2>6. IsSeq(t) /\ Len(t) = n + 1 /\ (\A i \in 1 .. n : t[i] = Val[i]) /\ t[n + 1] = Val'[k]
    BY <1>3, AppendIsSeq
  <2> HIDE DEF t
  <2>7. \A i \in 1 .. Len(Val') : Val'[i] = t[i]
    BY <2>6, <1>1, <1>3, <1>5, <1>k
  <2>8. Val' = t
    BY <2>6, <2>7, <1>3, <1>5, SameSeq
  <2>9. Len(Val) < Len(Program) /\ \E u \in Ideal!Values(Program[Len(Val) + 1]) : Val' = Append(Val, u)
    BY <2>3, <2>5, <2>8, <1>3, <1>k DEF t
  <2> QED
    BY <2>9 DEF Ideal!Compute, Val
<1> QED
  BY <1>1, <1>4, <1>5

\* The two parties compute, together, what a trusted machine computes on the
\* secrets: the messages, the dealer, the interleavings and the kills of MpcOps
\* implement IdealOps.
THEOREM MpcImplements == Spec => ImplementsIdeal
<1>1. Init => Ideal!Init
  <2>1. SUFFICES ASSUME Init PROVE Val = <<>>
    BY DEF Ideal!Init, Val
  <2>2. Len(reg["P0"]) = 0 /\ Len(reg["P1"]) = 0
    BY <2>1, EmptyIsSeq DEF Init, Parties
  <2>3. Shared = 1 .. 0
    BY <2>2 DEF Shared
  <2>4. Val = [j \in 1 .. 0 |-> Val[j]]
    BY <2>3 DEF Val
  <2>5. IsSeq(Val) /\ Len(Val) = 0
    BY <2>4, TableIsSeq
  <2> QED
    BY <2>5, NoneIsSeq
<1>2. TypeOK /\ TypeOK' /\ ValInv' /\ [Next]_vars => [Ideal!Compute]_Val
  BY OneResult, NoResultVal, ResultComputes
<1>3. TypeOK /\ TypeOK' /\ ValInv' /\ [Next]_vars =>
        [Ideal!Compute]_[j \in Shared |-> IF Opened(j) THEN reg["P0"][j] ELSE Secret(j)]
  BY <1>2 DEF Val
<1> QED
  BY <1>1, <1>3, TypeCorrect, ValCorrect, PTL DEF Spec, ImplementsIdeal, Ideal!Spec

-----------------------------------------------------------------------------
(* The OR tree of mpc_eqz.                                                 *)

\* The steps of mpc_eqz: the mask, the leaves, the ORs.
LEMMA EqzStepFacts ==
  ASSUME NEW x, NEW at
  PROVE  /\ EqzSteps(x, at)[1] = [op |-> "mask", a |-> x, b |-> 0]
         /\ \A i \in 1 .. W : EqzSteps(x, at)[i + 1] = [op |-> "bit", a |-> at, b |-> (i + 1) - 2]
         /\ \A j \in 1 .. (W - 1) :
              LET i == W + j + 1
              IN  EqzSteps(x, at)[i] = [op |-> "or", a |-> at + 2 * (i - (W + 1)) - 1,
                                                      b |-> at + 2 * (i - (W + 1))]
<1>0. W \in Nat \ {0}
  BY WordSize
<1>1. EqzSteps(x, at)[1] = [op |-> "mask", a |-> x, b |-> 0]
  <2>1. 1 \in 1 .. (2 * W) /\ 1 \notin 2 .. (W + 1)
    BY <1>0
  <2> QED
    BY <2>1, Zenon DEF EqzSteps
<1>2. ASSUME NEW i \in 1 .. W
      PROVE  EqzSteps(x, at)[i + 1] = [op |-> "bit", a |-> at, b |-> (i + 1) - 2]
  <2>1. i + 1 \in 1 .. (2 * W) /\ i + 1 \in 2 .. (W + 1) /\ i + 1 # 1
    BY <1>0
  <2> QED
    BY <2>1, Zenon DEF EqzSteps
<1>3. ASSUME NEW j \in 1 .. (W - 1), NEW i, i = W + j + 1
      PROVE  EqzSteps(x, at)[i] = [op |-> "or", a |-> at + 2 * (i - (W + 1)) - 1,
                                                 b |-> at + 2 * (i - (W + 1))]
  <2>1. i \in 1 .. (2 * W) /\ i \notin 2 .. (W + 1) /\ i # 1
    BY <1>0, <1>3
  <2> QED
    BY <2>1, Zenon DEF EqzSteps
<1> QED
  BY <1>1, <1>2, <1>3

\* The program calls mpc_eqz on the result of step x, as the steps from at on.
CallsEqz(x, at) ==
  /\ at \in Nat \ {0}
  /\ \A i \in 1 .. (2 * W) : Program[at + i - 1] = EqzSteps(x, at)[i]

\* What ValInv says of the secrets behind the steps of mpc_eqz.
LEMMA SecretOf ==
  ASSUME TypeOK, ValInv, NEW j \in Shared
  PROVE  /\ Program[j].op = "mask" =>
              Secret(j) \in XWord /\ (Secret(j) = {} <=> Secret(Program[j].a) = 0)
         /\ Program[j].op = "bit" => Secret(j) = BitOf(Secret(Program[j].a), Program[j].b)
         /\ Program[j].op = "or" => Secret(j) = Secret(Program[j].a) \cup Secret(Program[j].b)
<1> DEFINE s == Program[j]
<1>1. Val[j] \in Ideal!Values(s)
  BY DEF ValInv
<1>2. s.op \notin OpenOps => Val[j] = Secret(j)
  BY DEF Val, Opened
<1>3. /\ s.op \notin InOps => Val[s.a] = Secret(s.a)
      /\ s.op \in {"mul", "and", "or"} => Val[s.b] = Secret(s.b)
  BY OperandVal DEF InOps
<1>4. ASSUME s.op = "mask"
      PROVE  Secret(j) \in XWord /\ (Secret(j) = {} <=> Secret(Program[j].a) = 0)
  <2>1. Ideal!Values(s) = {w \in Ideal!XWord : (w = {}) <=> (Val[s.a] = 0)}
    BY <1>4, Zenon DEF Ideal!Values, Val
  <2> QED
    BY <2>1, <1>1, <1>2, <1>3, <1>4, IdealWords DEF OpenOps, InOps
<1>5. ASSUME s.op = "bit" PROVE Secret(j) = BitOf(Secret(Program[j].a), Program[j].b)
  <2>1. Ideal!Values(s) = {Ideal!BitOf(Val[s.a], s.b)}
    BY <1>5, Zenon DEF Ideal!Values, Val
  <2> QED
    BY <2>1, <1>1, <1>2, <1>3, <1>5, IdealWords DEF OpenOps, InOps
<1>6. ASSUME s.op = "or" PROVE Secret(j) = Secret(Program[j].a) \cup Secret(Program[j].b)
  <2>1. Ideal!Values(s) = {Val[s.a] \cup Val[s.b]}
    BY <1>6, Zenon DEF Ideal!Values, Val
  <2> QED
    BY <2>1, <1>1, <1>2, <1>3, <1>6 DEF OpenOps, InOps
<1> QED
  BY <1>4, <1>5, <1>6

\* mpc_eqz gives shares of 0 if the secret is zero, and of 1 if it is not.
LEMMA EqzSecret ==
  ASSUME TypeOK, ValInv, NEW x, NEW at, CallsEqz(x, at), at + 2 * W - 1 \in Shared
  PROVE  Secret(at + 2 * W - 1) = IF Secret(x) = 0 THEN {} ELSE {0}
<1>0. W \in Nat \ {0} /\ at \in Nat \ {0}
  BY WordSize DEF CallsEqz
<1>1. ASSUME NEW i \in 0 .. (2 * W - 1)
      PROVE  at + i \in Shared /\ Program[at + i] = EqzSteps(x, at)[i + 1]
  <2>1. Common \in Nat /\ Shared = 1 .. Common
    BY CommonFacts
  <2>2. i + 1 \in 1 .. (2 * W) /\ at + (i + 1) - 1 = at + i
    BY <1>0
  <2>3. at + i \in Shared
    BY <2>1, <1>0
  <2> QED
    BY <2>2, <2>3 DEF CallsEqz
<1> DEFINE N == [i \in 1 .. (2 * W - 1) |-> Secret(at + i)]
           w == Secret(at)
<1>2. w \in XWord /\ (w = {} <=> Secret(x) = 0)
  <2>1. 0 \in 0 .. (2 * W - 1) /\ at + 0 = at /\ 0 + 1 = 1
    BY <1>0
  <2>2. at \in Shared /\ Program[at] = EqzSteps(x, at)[1]
    BY <1>1, <2>1
  <2>3. Program[at] = [op |-> "mask", a |-> x, b |-> 0]
    BY <2>2, EqzStepFacts
  <2> QED
    BY <2>2, <2>3, SecretOf
<1>3. ASSUME NEW i \in 1 .. W PROVE N[i] = BitOf(w, i - 1)
  <2>1. i \in 0 .. (2 * W - 1) /\ i \in 1 .. (2 * W - 1) /\ (i + 1) - 2 = i - 1
    BY <1>0
  <2>2. at + i \in Shared /\ Program[at + i] = EqzSteps(x, at)[i + 1]
    BY <2>1, <1>1
  <2>3. Program[at + i] = [op |-> "bit", a |-> at, b |-> (i + 1) - 2]
    BY <2>2, EqzStepFacts
  <2> DEFINE j == at + i
  <2>4. j \in Shared /\ Program[j].op = "bit" /\ Program[j].a = at /\ Program[j].b = i - 1
    BY <2>1, <2>2, <2>3
  <2> HIDE DEF j
  <2>5. Secret(j) = BitOf(w, i - 1)
    BY <2>4, SecretOf
  <2> QED
    BY <2>1, <2>5 DEF j
<1>4. ASSUME NEW k \in 1 .. (W - 1) PROVE N[W + k] = N[2 * k - 1] \cup N[2 * k]
  <2> DEFINE i == W + k
             j == at + i
  <2>1. /\ i \in 0 .. (2 * W - 1) /\ i \in 1 .. (2 * W - 1) /\ i + 1 = W + k + 1
        /\ (i + 1) - (W + 1) = k
        /\ 2 * k - 1 \in 1 .. (2 * W - 1) /\ 2 * k \in 1 .. (2 * W - 1)
        /\ at + 2 * k - 1 = at + (2 * k - 1)
    BY <1>0
  <2>2. j \in Shared /\ Program[j] = EqzSteps(x, at)[W + k + 1]
    <3>1. at + i \in Shared /\ Program[at + i] = EqzSteps(x, at)[i + 1]
      BY <2>1, <1>1
    <3> QED
      BY <3>1, <2>1
  <2>3. EqzSteps(x, at)[W + k + 1] = [op |-> "or", a |-> at + 2 * ((W + k + 1) - (W + 1)) - 1,
                                                 b |-> at + 2 * ((W + k + 1) - (W + 1))]
    BY EqzStepFacts
  <2>4. (W + k + 1) - (W + 1) = k
    BY <1>0
  <2>5. j \in Shared /\ Program[j].op = "or" /\ Program[j].a = at + (2 * k - 1) /\ Program[j].b = at + 2 * k
    BY <2>1, <2>2, <2>3, <2>4
  <2> HIDE DEF j
  <2>6. Secret(j) = Secret(at + (2 * k - 1)) \cup Secret(at + 2 * k)
    BY <2>5, SecretOf
  <2> QED
    BY <2>1, <2>6 DEF j
<1>5. N[2 * W - 1] = Secret(at + 2 * W - 1)
  <2>1. 2 * W - 1 \in 1 .. (2 * W - 1) /\ at + (2 * W - 1) = at + 2 * W - 1
    BY <1>0
  <2> QED
    BY <2>1
<1> HIDE DEF N, w
<1>6. N[2 * W - 1] = IF w = {} THEN {} ELSE {0}
  BY <1>2, <1>3, <1>4, OrTree
<1> QED
  BY <1>2, <1>5, <1>6

\* Where mpc_eqz and the opening of its result are in EqzProgram.
LEMMA EqzProgramFacts ==
  ASSUME Program = EqzProgram
  PROVE  /\ Len(Program) = 2 * W + 3 /\ CallsEqz(1, 2)
         /\ Program[2 * W + 3] = [op |-> "openX", a |-> 1 + 2 * W, b |-> 0]
<1>0. W \in Nat \ {0} /\ 2 * W \in Nat
  BY WordSize
<1> DEFINE e == EqzSteps(1, 2)
           in == S("inA", 0, 0)
           an == S("and", 1 + 2 * W, 3)
           op == S("openX", 1 + 2 * W, 0)
           U == {e[i] : i \in 1 .. (2 * W)} \cup {in, an, op}
           h == <<in>>
           t == <<an, op>>
<1>1. e = [i \in 1 .. (2 * W) |-> e[i]]
  BY DEF EqzSteps
<1>2. Program = (h \o e) \o t
  BY DEF EqzProgram
<1>3. op = [op |-> "openX", a |-> 1 + 2 * W, b |-> 0]
  BY DEF S
<1> HIDE DEF e, in, an, op
<1>4. e \in Seq(U) /\ Len(e) = 2 * W
  BY <1>0, <1>1
<1>5. h \in Seq(U) /\ t \in Seq(U) /\ Len(h) = 1 /\ Len(t) = 2 /\ t[2] = op
  OBVIOUS
<1> HIDE DEF U, h, t
<1>j. \A u, v \in Seq(U) :
        /\ u \o v \in Seq(U) /\ Len(u \o v) = Len(u) + Len(v)
        /\ \A i \in 1 .. (Len(u) + Len(v)) :
             (u \o v)[i] = IF i <= Len(u) THEN u[i] ELSE v[i - Len(u)]
  BY ConcatProperties
<1>6. /\ h \o e \in Seq(U) /\ Len(h \o e) = 2 * W + 1
      /\ \A i \in 1 .. (2 * W + 1) : (h \o e)[i] = IF i <= 1 THEN h[i] ELSE e[i - 1]
  <2>1. /\ h \o e \in Seq(U) /\ Len(h \o e) = Len(h) + Len(e)
        /\ \A i \in 1 .. (Len(h) + Len(e)) :
             (h \o e)[i] = IF i <= Len(h) THEN h[i] ELSE e[i - Len(h)]
    BY <1>4, <1>5, <1>j, Zenon
  <2>2. Len(h) + Len(e) = 2 * W + 1
    BY <1>0, <1>4, <1>5
  <2> QED
    BY <2>1, <2>2, <1>5, Zenon
<1> DEFINE he == h \o e
<1>7. he \in Seq(U) /\ Len(he) = 2 * W + 1 /\ \A i \in 1 .. (2 * W) : he[i + 1] = e[i]
  BY <1>0, <1>6
<1>8. Program = he \o t
  BY <1>2
<1> HIDE DEF he
<1>9. /\ Len(Program) = (2 * W + 1) + 2
      /\ \A i \in 1 .. (2 * W + 3) :
           Program[i] = IF i <= 2 * W + 1 THEN he[i] ELSE t[i - (2 * W + 1)]
  <2>1. /\ Len(Program) = Len(he) + Len(t)
        /\ \A i \in 1 .. (Len(he) + Len(t)) :
             Program[i] = IF i <= Len(he) THEN he[i] ELSE t[i - Len(he)]
    <3>1. /\ Len(he \o t) = Len(he) + Len(t)
          /\ \A i \in 1 .. (Len(he) + Len(t)) :
               (he \o t)[i] = IF i <= Len(he) THEN he[i] ELSE t[i - Len(he)]
      BY <1>5, <1>7, <1>j, Zenon
    <3> QED
      BY <3>1, <1>8
  <2>2. Len(he) + Len(t) = 2 * W + 3 /\ (2 * W + 1) + 2 = 2 * W + 3
    BY <1>0, <1>5, <1>7
  <2> QED
    BY <2>1, <2>2, <1>5, <1>7, Zenon
<1>10. Len(Program) = 2 * W + 3 /\ Program[2 * W + 3] = op
  BY <1>0, <1>5, <1>9
<1>11. ASSUME NEW i \in 1 .. (2 * W) PROVE Program[2 + i - 1] = e[i]
  <2>1. 2 + i - 1 = i + 1 /\ i + 1 \in 1 .. (2 * W + 3) /\ i + 1 <= 2 * W + 1
    BY <1>0
  <2> QED
    BY <2>1, <1>7, <1>9
<1> QED
  BY <1>3, <1>10, <1>11 DEF CallsEqz, e

\* x == 0 opens to 0 if the secret is zero and to 1 if it is not, for every word
\* size, every share, mask and interleaving.
THEOREM EqzCorrect == Program = EqzProgram => (Spec => []EqzReportsNonzero)
<1> SUFFICES ASSUME Program = EqzProgram PROVE Spec => []EqzReportsNonzero
  OBVIOUS
<1>0. W \in Nat \ {0}
  BY WordSize
<1> DEFINE n == 2 * W + 3
<1>1. /\ Len(Program) = n /\ CallsEqz(1, 2)
      /\ Program[n] = [op |-> "openX", a |-> 1 + 2 * W, b |-> 0]
  BY EqzProgramFacts
<1>2. ASSUME IndInv, ValInv, NEW p \in Parties, Len(reg[p]) = n
      PROVE  reg[p][n] = IF Secret(1) = 0 THEN {} ELSE {0}
  <2> DEFINE q == Peer(p)
             r == 1 + 2 * W
  <2>0. /\ TypeOK /\ RegInv /\ PacedByPeer(p) /\ q \in Parties /\ Peer(q) = p
        /\ \A u \in Parties : Len(reg[u]) \in Nat /\ Cur(u) = Len(reg[u]) + 1 /\ Cur(u) \in Nat
                              /\ Ahead(u) \in {Cur(u), Cur(u) + 1}
    BY <1>2, CurFacts, PeerFacts DEF IndInv, FlowInv, TypeOK
  <2>1. n \in TalkSteps /\ Program[n].op = "openX" /\ Program[n].a = r
    BY <1>0, <1>1, ProgramFacts DEF TalkSteps, OpenOps, Steps
  <2>2. n < Cur(p) /\ n \in 1 .. Len(reg[p])
    BY <2>0, <1>2, <1>0
  <2>3. n < Ahead(q)
    BY <2>0, <2>1, <2>2 DEF PacedByPeer
  <2>4. Len(reg[q]) >= r /\ Len(reg[p]) >= r
    BY <2>0, <2>3, <1>2, <1>0
  <2>5. r \in Shared /\ r = 2 + 2 * W - 1
    <3>1. Len(reg["P0"]) >= r /\ Len(reg["P1"]) >= r
      BY <2>4 DEF Peer, Parties
    <3>2. Len(reg["P0"]) \in Nat /\ Len(reg["P1"]) \in Nat
      BY <2>0 DEF Parties
    <3> QED
      BY <3>1, <3>2, <1>0 DEF Shared
  <2>6. Secret(r) = IF Secret(1) = 0 THEN {} ELSE {0}
    BY <2>0, <2>5, <1>1, <1>2, EqzSecret
  <2>7. reg[p][n] = Output(p, n)
    BY <2>0, <2>1, <2>2 DEF RegInv, OpenOps
  <2>8. Output(p, n) = CombineX(reg[p][r], reg[q][r])
    BY <2>1 DEF Output, Told, Combine, OpenOps
  <2>9. Secret(r) = CombineX(reg["P0"][r], reg["P1"][r])
    <3>1. Program[r].op \notin AShares
      <4>1. n \in Steps
        BY <2>1, ProgramFacts
      <4> QED
        BY <4>1, <2>1, ProgramAssumption DEF InOps, Operands, TakesA, AShares, XShares
    <3> QED
      BY <3>1 DEF Secret
  <2>10. CombineX(reg[p][r], reg[q][r]) = CombineX(reg["P0"][r], reg["P1"][r])
    BY DEF CombineX, Xor, Parties, Peer
  <2> QED
    BY <2>6, <2>7, <2>8, <2>9, <2>10
<1>3. IndInv /\ ValInv => EqzReportsNonzero
  BY <1>1, <1>2 DEF EqzReportsNonzero
<1> QED
  BY <1>3, IndInvCorrect, ValCorrect, PTL
=============================================================================
