---------------------------- MODULE ReplayProofs ----------------------------
(***************************************************************************)
(* Proofs about the tapes of MpcReplay, for every program, every sequence  *)
(* of recording and replaying runs, every content of the uninitialised     *)
(* counters and any number of kills: what is on the tapes, where each      *)
(* reader stands, and so what a replaying party uses.                      *)
(*                                                                         *)
(* Nothing is counted.  The steps that a tape covers are named by the      *)
(* records themselves, and a reader's position is described by the records *)
(* that are behind it and the ones that are before it.                     *)
(***************************************************************************)
EXTENDS MpcReplay, SequenceTheorems, TLAPS

Counters == [mul : Nat, and : Nat]
Record1 == [idx : Nat, k : Nat \X Nat \X Parties]
Material == (Nat \X Nat \X Parties) \cup {Junk}
Ends == {"boot", "run", "closing", "done", "threw", "killed"}
Places == 1 .. (Len(Program) + 1)
Rand == [disk : Nat, buf : Nat, read : Nat]

Types ==
  /\ launch \in 1 .. Len(Launches)
  /\ st \in [Roles -> Ends]
  /\ at \in [Roles -> Places]
  /\ posted \in [Parties -> 0 .. Len(Program)]
  /\ ctr \in [Roles -> Counters] /\ rpos \in [Parties -> Counters]
  /\ tape \in [Tapes -> Seq(Record1)] /\ buf \in [Tapes -> Seq(Record1)]
  /\ rand \in Rand
  /\ made \in SUBSET Roles
  /\ used \in [Parties -> Seq(Material)]
  /\ sealed \in BOOLEAN /\ kills \in Nat

\* How far each role is, and how far it may be ahead of another.
Standing(p) ==
  /\ posted[p] \in {at[p] - 1, at[p]} /\ Len(used[p]) = posted[p]
  /\ at[p] - 1 <= posted[Peer(p)]
  /\ st[p] = "done" => at[p] = Len(Program) + 1
  /\ st[p] # "closing"

Progress ==
  /\ \A p \in Parties : Standing(p)
  /\ st["P2"] = "closing" => Mode = "Record"

\* A program starts with its first operation.
Fresh == \A r \in Roles : st[r] = "boot" => at[r] = 1

\* The records of s are those of tape f: in the order of the steps, without a
\* gap before any of them, and numbered one by one.  They are of launch l or older.
Holds(s, f, l) ==
  /\ \A i \in 1 .. Len(s) :
       /\ s[i].k[1] <= l /\ s[i].k[3] = f[2]
       /\ s[i].k[2] \in Steps /\ Program[s[i].k[2]] = f[1]
  /\ \A i, j \in 1 .. Len(s) : i < j => s[i].k[2] < s[j].k[2]
  /\ \A n \in Steps, i \in 1 .. Len(s) :
       Program[n] = f[1] /\ n < s[i].k[2] => \E j \in 1 .. Len(s) : s[j].k[2] = n
  /\ \A i \in 1 .. Len(s) : s[i].idx = s[1].idx + i - 1

\* s has a record for each step of f before n.
Covers(s, f, n) ==
  \A m \in Steps : m < n /\ Program[m] = f[1] => \E i \in 1 .. Len(s) : s[i].k[2] = m

Writing == Mode = "Record" /\ st["P2"] \in {"run", "closing"}

\* The tapes and the buffers of P2.
DiskOf(f) ==
  /\ Holds(tape[f], f, launch) /\ Holds(buf[f], f, launch)
  /\ \A i \in 1 .. Len(buf[f]) : buf[f][i].k[1] = launch /\ buf[f][i].k[2] < at["P2"]
  /\ ~Writing => buf[f] = <<>>
  /\ Writing /\ st["P2"] = "run" =>
       /\ tape[f] = <<>> /\ Covers(buf[f], f, at["P2"])
       /\ buf[f] # <<>> => ctr["P2"][f[1]] = buf[f][1].idx + Len(buf[f])
  /\ buf[f] # <<>> => tape[f] = <<>>

Disk == \A f \in Tapes : DiskOf(f)

\* From which recording run the records are.
Untouched == Mode = "Record" /\ \A r \in Roles : st[r] \in {"boot", "killed"}

\* Record x of a tape: how old it can be.
Dated(x) ==
  /\ Writing => x.k[1] = launch
  /\ kills < 3 =>
       \A n \in (x.k[1] + 1) .. launch :
         Launches[n] = "Replay" \/ (n = launch /\ Untouched)

Origin ==
  \A f \in Tapes : \A i \in 1 .. Len(tape[f]) :
    /\ Dated(tape[f][i])
    /\ \A g \in Tapes : \A j \in 1 .. Len(tape[g]) : tape[f][i].k[1] = tape[g][j].k[1]

One(r) == IF st[r] = "killed" THEN 1 ELSE 0
Casualties == One("P0") + One("P1") + One("P2") <= kills

\* What a replaying party has used, and what it reads next.
ReadingOf(p) ==
  /\ \A i \in 1 .. Len(used[p]) :
       used[p][i] # Junk /\ Program[i] \in Taped =>
         \E j \in 1 .. Len(TapeOf(p, Program[i])) :
           used[p][i] = TapeOf(p, Program[i])[j].k /\ used[p][i][2] = i
  /\ st[p] \in {"boot", "run"} =>
       \A op \in Taped : \A j \in 1 .. Len(TapeOf(p, op)) :
         j <= rpos[p][op] <=> TapeOf(p, op)[j].k[2] <= posted[p]

Reading == Mode = "Replay" => \A p \in Parties : ReadingOf(p)

TapeInv == Types /\ Progress /\ Fresh /\ Disk /\ Origin /\ Casualties /\ Reading

-----------------------------------------------------------------------------
(* The rest is for recordings that P2 has brought to an end.               *)

Mul0 == <<"mul", "P0">>

\* Values for mpc_mul that P2 has in p2.rand, on disk or on the way there.
RandOK ==
  /\ rand.read <= rand.disk
  /\ Mode = "Record" => rand.read = 0
  /\ ~Writing => rand.buf = 0
  /\ Writing => 4 * Len(buf[Mul0]) <= rand.buf /\ 4 * Len(tape[Mul0]) <= rand.buf

\* All steps are on the tapes, and all values of mpc_mul in p2.rand.
Complete ==
  /\ \A f \in Tapes : Covers(tape[f], f, Len(Program) + 1)
  /\ 4 * Len(tape[Mul0]) <= rand.disk

\* What P2 closes at the end of its program is complete, and stays so for as long
\* as nobody opens the files again.
Closes ==
  sealed =>
    /\ Writing =>
         /\ st["P2"] = "closing"
         /\ \A f \in Tapes : Covers(tape[f], f, Len(Program) + 1)
                          \/ Covers(buf[f], f, Len(Program) + 1)
    /\ ~Writing => Complete

Good == Mode = "Replay" /\ sealed /\ made = Roles

\* The counters of q do not go with its tapes, and it has noticed or will.
Off(q) == st[q] # "boot" /\ ~CountersAgree(q)

\* What makes a replaying process throw: a counter, or the death of a process.
Excused == (\E q \in Parties : Off(q)) \/ \E r \in Roles : st[r] = "killed"

\* P2 reads back what it recorded, and does not run out of it before the end.
P2Rereads ==
  /\ st["P2"] = "done" => at["P2"] = Len(Program) + 1
  /\ st["P2"] = "threw" => at["P2"] = Len(Program) + 1 \/ Excused
  /\ st["P2"] \in {"boot", "run"} =>
       \E m \in Nat :
         /\ rand.read = 4 * m
         /\ \A j \in 1 .. Len(tape[Mul0]) : j <= m <=> tape[Mul0][j].k[2] <= at["P2"] - 1

\* p uses nothing but what was recorded, and throws only with an excuse.
Replays(p) ==
  /\ \A i \in 1 .. Len(used[p]) : used[p][i] # Junk
  /\ st[p] = "threw" => Excused

\* A replay of a complete recording, by all three.
Replaying == Good => Complete /\ P2Rereads /\ \A p \in Parties : Replays(p)

ReplayInv == TapeInv /\ RandOK /\ Closes /\ Replaying

-----------------------------------------------------------------------------
(* Facts that most steps need.                                             *)

\* The two computational parties are each other's peers.
LEMMA PeerFacts ==
  ASSUME NEW p \in Parties
  PROVE  Peer(p) \in Parties /\ Peer(p) # p /\ Peer(Peer(p)) = p
         /\ p \in Roles /\ p # "P2"
         /\ \A q \in Parties : q = p \/ q = Peer(p)
  BY DEF Parties, Roles, Peer

\* The tapes are named by an operation and a party.
LEMMA TapeFacts ==
  /\ \A f \in Tapes : f[1] \in Taped /\ f[2] \in Parties
  /\ \A op \in Taped, p \in Parties : <<op, p>> \in Tapes /\ <<op, p>>[1] = op /\ <<op, p>>[2] = p
  /\ "P2" \in Roles
  BY DEF Tapes, Taped, Parties, Roles

\* What the assumption says of the program and the launches.
LEMMA ConstantFacts ==
  /\ Len(Program) \in Nat /\ Steps = 1 .. Len(Program)
  /\ \A n \in Steps : Program[n] \in Taped \cup {"mask"}
  /\ Len(Launches) \in Nat /\ 1 <= Len(Launches)
  /\ \A n \in 1 .. Len(Launches) : Launches[n] \in {"Record", "Replay"}
  BY ReplayAssumption DEF Steps

\* The step of a role whose operation is one of ops.
LEMMA InStepFacts ==
  ASSUME Types, NEW r \in Roles, NEW ops, InStep(r, ops)
  PROVE  /\ st[r] = "run" /\ at[r] \in Steps /\ at[r] \in Nat
         /\ Program[at[r]] \in ops /\ Op(r) = Program[at[r]]
         /\ at[r] + 1 \in 1 .. (Len(Program) + 1)
  BY ConstantFacts DEF InStep, Op, Types, Places

\* Junk is not a draw.
LEMMA JunkFacts ==
  /\ Junk \in Material
  /\ \A l, n \in Nat, p \in Parties : <<l, n, p>> \in Material /\ <<l, n, p>> # Junk
  /\ \A k \in Nat \X Nat \X Parties : k \in Material /\ k # Junk
<1>1. Junk \in Material BY DEF Material
<1>2. \A l, n, p : <<l, n, p>> # Junk
  <2>1. ASSUME NEW l, NEW n, NEW p, <<l, n, p>> = <<"junk">> PROVE FALSE
    <3>1. Len(<<l, n, p>>) = 3 OBVIOUS
    <3>2. Len(<<"junk">>) = 1 OBVIOUS
    <3> QED BY <2>1, <3>1, <3>2
  <2> QED BY <2>1 DEF Junk
<1>3. ASSUME NEW k \in Nat \X Nat \X Parties PROVE k = <<k[1], k[2], k[3]>>
  BY <1>3
<1> QED BY <1>1, <1>2, <1>3 DEF Material

\* The destructor closes tapes.
LEMMA ClosingFacts ==
  \A i \in 1 .. Len(ClosingOrder) : ClosingOrder[i] \in Tapes
<1>1. Len(ClosingOrder) = 4 BY DEF ClosingOrder
<1>2. /\ ClosingOrder[1] = <<"and", "P1">> /\ ClosingOrder[2] = <<"and", "P0">>
      /\ ClosingOrder[3] = <<"mul", "P1">> /\ ClosingOrder[4] = <<"mul", "P0">>
  BY DEF ClosingOrder
<1>3. \A i \in 1 .. 4 : i = 1 \/ i = 2 \/ i = 3 \/ i = 4 OBVIOUS
<1>4. "and" \in Taped /\ "mul" \in Taped /\ "P0" \in Parties /\ "P1" \in Parties
  BY DEF Taped, Parties
<1> QED BY <1>1, <1>2, <1>3, <1>4, TapeFacts

\* A step is that of the operator, of one role, or a kill.
LEMMA NextCases ==
  ASSUME Next, NEW G,
         Relaunch => G,
         \A r \in Roles : Boot(r) => G,
         \A r \in Roles : Kill(r) => G,
         P2Step => G,
         \A p \in Parties : PartyStep(p) => G
  PROVE  G
  BY DEF Next, RoleStep

-----------------------------------------------------------------------------
(* Types                                                                   *)

\* Empty tapes are tapes.
LEMMA BlankFacts == [f \in Tapes |-> <<>>] \in [Tapes -> Seq(Record1)]
<1>1. <<>> \in Seq(Record1) OBVIOUS
<1> HIDE DEF Record1
<1>2. \A x : x \in Seq(Record1) => [f \in Tapes |-> x] \in [Tapes -> Seq(Record1)] OBVIOUS
<1> QED BY <1>1, <1>2

\* The three numbers of p2.rand, one changed at a time.
LEMMA RandFacts ==
  ASSUME NEW x \in Rand, NEW a \in Nat
  PROVE  /\ x.disk \in Nat /\ x.buf \in Nat /\ x.read \in Nat
         /\ [x EXCEPT !.disk = a] \in Rand /\ [x EXCEPT !.buf = a] \in Rand
         /\ [x EXCEPT !.read = a] \in Rand /\ [x EXCEPT !.disk = a, !.buf = 0] \in Rand
  BY DEF Rand

\* Every taped operation has a counter.
LEMMA CounterFacts ==
  ASSUME NEW c \in Counters, NEW op \in Taped
  PROVE  c[op] \in Nat
  BY DEF Counters, Taped

\* One variable of Types at a time.
LEMMA TypeFacts ==
  ASSUME Types
  PROVE  /\ launch \in Nat /\ launch \in 1 .. Len(Launches) /\ Mode \in {"Record", "Replay"}
         /\ \A r \in Roles : at[r] \in Nat /\ at[r] \in Places /\ st[r] \in Ends /\ ctr[r] \in Counters
         /\ \A p \in Parties : posted[p] \in Nat /\ posted[p] <= Len(Program) /\ rpos[p] \in Counters
         /\ \A p \in Parties : used[p] \in Seq(Material)
         /\ \A f \in Tapes : tape[f] \in Seq(Record1) /\ buf[f] \in Seq(Record1)
         /\ rand.disk \in Nat /\ rand.buf \in Nat /\ rand.read \in Nat
         /\ rand.disk + rand.buf \in Nat /\ rand.buf + 4 \in Nat /\ rand.read + 4 \in Nat
<1>1. launch \in Nat /\ launch \in 1 .. Len(Launches) BY ConstantFacts DEF Types
<1>2. Mode \in {"Record", "Replay"} BY <1>1, ConstantFacts DEF Mode
<1>3. rand \in Rand BY DEF Types
<1>4. rand.disk \in Nat /\ rand.buf \in Nat /\ rand.read \in Nat BY <1>3 DEF Rand
<1>5. rand.disk + rand.buf \in Nat /\ rand.buf + 4 \in Nat /\ rand.read + 4 \in Nat BY <1>4
<1>6. \A r \in Roles : at[r] \in Nat /\ at[r] \in Places /\ st[r] \in Ends /\ ctr[r] \in Counters
  BY ConstantFacts DEF Types, Places
<1>7. \A p \in Parties : posted[p] \in Nat /\ posted[p] <= Len(Program) /\ rpos[p] \in Counters
  BY ConstantFacts DEF Types
<1>8. \A p \in Parties : used[p] \in Seq(Material) BY DEF Types
<1>9. \A f \in Tapes : tape[f] \in Seq(Record1) /\ buf[f] \in Seq(Record1) BY DEF Types
<1> QED BY <1>1, <1>2, <1>4, <1>5, <1>6, <1>7, <1>8, <1>9

\* One counter changed.
LEMMA BumpFacts ==
  ASSUME NEW c \in Counters, NEW op \in Taped, NEW n \in Nat
  PROVE  [c EXCEPT ![op] = n] \in Counters
<1>1. CASE op = "mul" BY <1>1 DEF Counters
<1>2. CASE op = "and" BY <1>2 DEF Counters
<1> QED BY <1>1, <1>2 DEF Taped

\* Every step keeps the variables in their types.
LEMMA TypesStep ==
  ASSUME Types, Progress, [Next]_vars
  PROVE  Types'
<1>1. CASE UNCHANGED vars BY <1>1 DEF vars, Types
<1>2. CASE Relaunch
  <2>1. launch' \in 1 .. Len(Launches) BY <1>2 DEF Relaunch, Types
  <2>2. ctr' \in [Roles -> Counters] /\ rpos' \in [Parties -> Counters]
    BY <1>2 DEF Relaunch, ResetProcesses, Counters
  <2>3. used' \in [Parties -> Seq(Material)] /\ posted' \in [Parties -> 0 .. Len(Program)]
    BY <1>2, ConstantFacts DEF Relaunch, ResetProcesses
  <2>4. at' \in [Roles -> Places]
    BY <1>2, ConstantFacts DEF Relaunch, ResetProcesses, Places
  <2>5. rand' \in Rand
    <3>1. rand' = [rand EXCEPT !.read = 0] BY <1>2 DEF Relaunch
    <3>2. rand \in Rand BY DEF Types
    <3> QED BY <3>1, <3>2, RandFacts
  <2>6. st' \in [Roles -> Ends] BY <1>2 DEF Relaunch, Ends
  <2> QED BY <1>2, <2>1, <2>2, <2>3, <2>4, <2>5, <2>6 DEF Relaunch, Types
<1>3. ASSUME NEW r \in Roles, Boot(r) PROVE Types'
  <2>1. ctr' \in [Roles -> Counters]
    <3>1. CounterStarts(r) \subseteq Nat BY ReplayAssumption DEF CounterStarts
    <3> QED BY <1>3, <3>1 DEF Boot, Counters, Types
  <2>2. tape' \in [Tapes -> Seq(Record1)]
    <3>1. tape' = tape \/ tape' = [f \in Tapes |-> <<>>] BY <1>3 DEF Boot, Truncated
    <3>2. tape \in [Tapes -> Seq(Record1)] BY DEF Types
    <3> QED BY <3>1, <3>2, BlankFacts
  <2>3. rand' \in Rand
    <3>1. rand' = rand \/ rand' = [rand EXCEPT !.disk = 0] BY <1>3 DEF Boot
    <3>2. rand \in Rand BY DEF Types
    <3> QED BY <3>1, <3>2, RandFacts
  <2>4. st' \in [Roles -> Ends] /\ made' \in SUBSET Roles /\ sealed' \in BOOLEAN BY <1>3 DEF Boot, Types, Ends
  <2> QED BY <1>3, <2>1, <2>2, <2>3, <2>4 DEF Boot, Types
<1>4. ASSUME NEW r \in Roles, Kill(r) PROVE Types'
  <2>1. buf' \in [Tapes -> Seq(Record1)]
    <3>1. buf' = buf \/ buf' = [f \in Tapes |-> <<>>] BY <1>4 DEF Kill
    <3>2. buf \in [Tapes -> Seq(Record1)] BY DEF Types
    <3> QED BY <3>1, <3>2, BlankFacts
  <2>2. rand' \in Rand
    <3>1. rand' = rand \/ rand' = [rand EXCEPT !.buf = 0] BY <1>4 DEF Kill
    <3>2. rand \in Rand BY DEF Types
    <3> QED BY <3>1, <3>2, RandFacts
  <2>3. st' \in [Roles -> Ends] /\ kills' \in Nat /\ sealed' \in BOOLEAN BY <1>4 DEF Kill, Types, Ends
  <2> QED BY <1>4, <2>1, <2>2, <2>3 DEF Kill, volatile, Types
<1>5. CASE P2Step
  <2>0. "P2" \in Roles BY TapeFacts
  <2>1. CASE Record
    <3> DEFINE op == Op("P2")
    <3>1. op \in Taped /\ at["P2"] + 1 \in Places
      BY <2>0, <2>1, InStepFacts DEF Record, Places
    <3>2. ctr["P2"] \in Counters BY <2>0 DEF Types
    <3>3. ctr["P2"][op] \in Nat BY <3>1, <3>2, CounterFacts
    <3> HIDE DEF op
    <3>4. ctr' \in [Roles -> Counters]
      <4>1. [ctr["P2"] EXCEPT ![op] = ctr["P2"][op] + 1] \in Counters
        BY <3>1, <3>2, <3>3, BumpFacts
      <4>2. ctr' = [ctr EXCEPT !["P2"] = [ctr["P2"] EXCEPT ![op] = ctr["P2"][op] + 1]]
        BY <2>1 DEF Record, op
      <4> QED BY <4>1, <4>2 DEF Types
    <3>5. buf' \in [Tapes -> Seq(Record1)]
      <4>1. launch \in Nat /\ at["P2"] \in Nat BY <2>0, TypeFacts
      <4>2. \A p \in Parties : [idx |-> ctr["P2"][op], k |-> <<launch, at["P2"], p>>] \in Record1
        BY <3>3, <4>1 DEF Record1
      <4>3. buf' = [f \in Tapes |-> IF f[1] = op
                     THEN Append(buf[f], [idx |-> ctr["P2"][op], k |-> <<launch, at["P2"], f[2]>>])
                     ELSE buf[f]]
        BY <2>1 DEF Record, op
      <4>4. ASSUME NEW f \in Tapes PROVE buf[f] \in Seq(Record1) /\ f[2] \in Parties
        BY TapeFacts DEF Types
      <4> QED BY <4>2, <4>3, <4>4
    <3>6. rand' \in Rand
      <4>1. rand' = [rand EXCEPT !.buf = rand.buf + 4] BY <2>1 DEF Record
      <4>2. rand \in Rand BY DEF Types
      <4> QED BY <4>1, <4>2, TypeFacts, RandFacts
    <3>7. at' \in [Roles -> Places] BY <2>1, <3>1 DEF Record, Advance, Types, Places
    <3> QED BY <2>1, <3>4, <3>5, <3>6, <3>7 DEF Record, Types
  <2>2. CASE Reread
    <3>1. at["P2"] + 1 \in Places BY <2>0, <2>2, InStepFacts DEF Reread, Places
    <3>2. at' = at \/ at' = [at EXCEPT !["P2"] = @ + 1] BY <2>2 DEF Reread, Advance
    <3>3. at' \in [Roles -> Places] BY <3>1, <3>2 DEF Types, Places
    <3>4. rand' = rand \/ rand' = [rand EXCEPT !.read = @ + 4] BY <2>2 DEF Reread
    <3>5. rand' \in Rand
      <4>1. rand' = rand \/ rand' = [rand EXCEPT !.read = rand.read + 4] BY <3>4
      <4>2. rand \in Rand BY DEF Types
      <4> QED BY <4>1, <4>2, TypeFacts, RandFacts
    <3>6. st' \in [Roles -> Ends] BY <2>2 DEF Reread, Types, Ends
    <3> QED BY <2>2, <3>3, <3>5, <3>6 DEF Reread, Types
  <2>3. CASE SendMask
    <3>1. at["P2"] + 1 \in Places BY <2>0, <2>3, InStepFacts DEF SendMask, Places
    <3>2. at' \in [Roles -> Places] BY <2>3, <3>1 DEF SendMask, Advance, Types, Places
    <3> QED BY <2>3, <3>2 DEF SendMask, disk, Types
  <2>4. CASE P2Ends
    <3>1. st' \in [Roles -> Ends] /\ sealed' \in BOOLEAN BY <2>4 DEF P2Ends, Types, Ends
    <3> QED BY <2>4, <3>1 DEF P2Ends, volatile, disk, Types
  <2>6. CASE SendMaskFails
    <3>1. st' \in [Roles -> Ends] BY <2>6 DEF SendMaskFails, Types, Ends
    <3> QED BY <2>6, <3>1 DEF SendMaskFails, volatile, disk, Types
  <2>5. CASE CloseFile
    <3>1. \/ /\ \E f \in Tapes : tape' = [tape EXCEPT ![f] = @ \o buf[f]]
                              /\ buf' = [buf EXCEPT ![f] = <<>>]
             /\ rand' = rand /\ st' = st
          \/ /\ rand' = [rand EXCEPT !.disk = @ + rand.buf, !.buf = 0]
             /\ \E e \in {"done", "threw"} : st' = [st EXCEPT !["P2"] = e]
             /\ tape' = tape /\ buf' = buf
      BY <2>5, ClosingFacts DEF CloseFile
    <3>2. tape' \in [Tapes -> Seq(Record1)] /\ buf' \in [Tapes -> Seq(Record1)]
      <4>1. tape \in [Tapes -> Seq(Record1)] /\ buf \in [Tapes -> Seq(Record1)] BY DEF Types
      <4>2. ASSUME NEW f \in Tapes PROVE tape[f] \o buf[f] \in Seq(Record1)
        BY <4>1, ConcatProperties
      <4>3. <<>> \in Seq(Record1) OBVIOUS
      <4> QED BY <3>1, <4>1, <4>2, <4>3
    <3>3. rand' \in Rand
      <4>1. rand' = rand \/ rand' = [rand EXCEPT !.disk = rand.disk + rand.buf, !.buf = 0] BY <3>1
      <4>2. rand \in Rand BY DEF Types
      <4> QED BY <4>1, <4>2, TypeFacts, RandFacts
    <3>4. st' \in [Roles -> Ends] BY <3>1 DEF Types, Ends
    <3> QED BY <2>5, <3>2, <3>3, <3>4 DEF CloseFile, volatile, Types
  <2> QED BY <1>5, <2>1, <2>2, <2>3, <2>4, <2>5, <2>6 DEF P2Step
<1>6. ASSUME NEW p \in Parties, PartyStep(p) PROVE Types'
  <2>0. p \in Roles BY DEF Roles
  <2>1. ASSUME NEW k \in Material, Post(p, k), at[p] \in Steps
        PROVE  used' \in [Parties -> Seq(Material)] /\ posted' \in [Parties -> 0 .. Len(Program)]
    <3>1. at[p] \in 0 .. Len(Program) BY <2>1, ConstantFacts
    <3>2. used[p] \in Seq(Material) BY DEF Types
    <3> QED BY <2>1, <3>1, <3>2 DEF Post, Types
  <2>2. CASE FetchNothing(p)
    <3>1. Post(p, Junk) /\ at[p] \in Steps BY <2>0, <2>2, InStepFacts DEF FetchNothing
    <3>2. used' \in [Parties -> Seq(Material)] /\ posted' \in [Parties -> 0 .. Len(Program)]
      BY <2>1, <3>1, JunkFacts
    <3> QED BY <2>2, <3>2 DEF FetchNothing, disk, Types
  <2>3. ASSUME FetchRecord(p) \/ FetchPastEnd(p) PROVE Types'
    <3>1. Op(p) \in Taped /\ at[p] \in Steps
      BY <2>0, <2>3, InStepFacts DEF FetchRecord, FetchPastEnd
    <3> DEFINE op == Op(p)
    <3>2. op \in Taped /\ ctr[p] \in Counters /\ rpos[p] \in Counters BY <2>0, <3>1 DEF Types
    <3>3. ctr' = [ctr EXCEPT ![p] = [ctr[p] EXCEPT ![op] = ctr[p][op] + 1]]
      BY <2>3 DEF FetchRecord, FetchPastEnd
    <3> HIDE DEF op
    <3>4. ctr' \in [Roles -> Counters]
      <4>1. ctr[p][op] + 1 \in Nat BY <3>2, CounterFacts
      <4>2. [ctr[p] EXCEPT ![op] = ctr[p][op] + 1] \in Counters BY <3>2, <4>1, BumpFacts
      <4> QED BY <3>3, <4>2 DEF Types
    <3>5. CASE FetchRecord(p)
      <4> DEFINE t == TapeOf(p, op)
                 i == rpos[p][op] + 1
      <4>1. rpos' = [rpos EXCEPT ![p] = [rpos[p] EXCEPT ![op] = i]] /\ i <= Len(t)
        BY <3>5 DEF FetchRecord, op
      <4>2. i \in Nat /\ i >= 1 BY <3>2, CounterFacts
      <4>3. [rpos[p] EXCEPT ![op] = i] \in Counters BY <3>2, <4>2, BumpFacts
      <4>4. t \in Seq(Record1) BY <3>2, TapeFacts DEF TapeOf, Types
      <4>5. (Post(p, t[i].k) /\ st' = st) \/ (st' = [st EXCEPT ![p] = "threw"] /\ UNCHANGED <<used, posted>>)
        BY <3>5 DEF FetchRecord, op
      <4> HIDE DEF t, i
      <4>6. rpos' \in [Parties -> Counters] BY <4>1, <4>3 DEF Types
      <4>7. t[i] \in Record1 BY <4>1, <4>2, <4>4
      <4>8. t[i].k \in Material BY <4>7, JunkFacts DEF Record1
      <4>9. used' \in [Parties -> Seq(Material)] /\ posted' \in [Parties -> 0 .. Len(Program)]
        BY <2>1, <3>1, <4>5, <4>8 DEF Types
      <4>10. st' \in [Roles -> Ends] BY <4>5 DEF Types, Ends
      <4> QED BY <3>4, <3>5, <4>6, <4>9, <4>10 DEF FetchRecord, disk, Types
    <3>6. CASE FetchPastEnd(p)
      <4>1. (Post(p, Junk) /\ st' = st) \/ (st' = [st EXCEPT ![p] = "threw"] /\ UNCHANGED <<used, posted>>)
        BY <3>6 DEF FetchPastEnd
      <4>2. used' \in [Parties -> Seq(Material)] /\ posted' \in [Parties -> 0 .. Len(Program)]
        BY <2>1, <3>1, <4>1, JunkFacts DEF Types
      <4>3. st' \in [Roles -> Ends] BY <4>1 DEF Types, Ends
      <4> QED BY <3>4, <3>6, <4>2, <4>3 DEF FetchPastEnd, disk, Types
    <3> QED BY <2>3, <3>5, <3>6
  <2>4. CASE FetchMask(p)
    <3>1. at[p] \in Steps /\ launch \in Nat /\ at[p] \in Nat
      BY <2>0, <2>4, InStepFacts DEF FetchMask, Types
    <3>2. <<launch, at[p], p>> \in Material BY <3>1, JunkFacts
    <3>3. used' \in [Parties -> Seq(Material)] /\ posted' \in [Parties -> 0 .. Len(Program)]
      BY <2>1, <2>4, <3>1, <3>2 DEF FetchMask
    <3> QED BY <2>4, <3>3 DEF FetchMask, disk, Types
  <2>5. CASE Exchange(p)
    <3>1. posted[p] \in 0 .. Len(Program) /\ posted[p] = at[p] BY <2>5 DEF Exchange, Types
    <3>2. at[p] + 1 \in Places BY <3>1, ConstantFacts DEF Places
    <3>3. at' \in [Roles -> Places] BY <2>5, <3>2 DEF Exchange, Advance, Types, Places
    <3> QED BY <2>5, <3>3 DEF Exchange, disk, Types
  <2>6. CASE PartyEnds(p)
    <3>1. st' \in [Roles -> Ends] BY <2>6 DEF PartyEnds, Types, Ends
    <3> QED BY <2>6, <3>1 DEF PartyEnds, volatile, disk, Types
  <2>7. CASE IoError(p)
    <3>1. st' \in [Roles -> Ends] BY <2>7 DEF IoError, Types, Ends
    <3> QED BY <2>7, <3>1 DEF IoError, volatile, disk, Types
  <2> QED BY <1>6, <2>2, <2>3, <2>4, <2>5, <2>6, <2>7 DEF PartyStep
<1> QED BY <1>1, <1>2, <1>3, <1>4, <1>5, <1>6, NextCases

-----------------------------------------------------------------------------
(* Progress                                                                *)

\* Every step keeps the roles within one exchange of each other.
LEMMA ProgressStep ==
  ASSUME Types, Progress, [Next]_vars
  PROVE  Progress'
<1>0. \A p \in Parties : Standing(p) /\ Peer(p) \in Parties /\ p \in Roles /\ Peer(p) # p /\ p # "P2"
  BY PeerFacts DEF Progress
<1>a. st \in [Roles -> Ends] /\ at \in [Roles -> Places] BY DEF Types
<1>b. posted \in [Parties -> 0 .. Len(Program)] /\ used \in [Parties -> Seq(Material)] BY DEF Types
<1>c. launch' = launch => Mode' = Mode BY DEF Mode
<1>d. "P2" \in Roles BY DEF Roles
\* Steps that concern P2 only, or that do not touch the parties' progress.
<1>e. ASSUME UNCHANGED <<posted, used, launch>>, \A p \in Parties : at'[p] = at[p],
             \A p \in Parties : st'[p] = st[p] \/ st'[p] \in {"run", "threw", "killed"},
             st'["P2"] = "closing" => Mode = "Record"
      PROVE  Progress'
  BY <1>0, <1>c, <1>e DEF Progress, Standing
<1>1. CASE UNCHANGED vars BY <1>1, <1>e DEF vars, Progress
<1>2. CASE Relaunch
  <2>1. \A r \in Roles : st'[r] = "boot" /\ at'[r] = 1 BY <1>2 DEF Relaunch, ResetProcesses
  <2>2. \A p \in Parties : posted'[p] = 0 /\ used'[p] = <<>> BY <1>2 DEF Relaunch, ResetProcesses
  <2> QED BY <1>0, <1>d, <2>1, <2>2 DEF Progress, Standing
<1>3. ASSUME NEW r \in Roles, Boot(r) PROVE Progress'
  <2>1. st' = [st EXCEPT ![r] = "run"] \/ st' = [st EXCEPT ![r] = "threw"] BY <1>3 DEF Boot
  <2>2. st'["P2"] = "closing" => Mode = "Record" BY <1>a, <1>d, <2>1 DEF Progress
  <2>3. \A p \in Parties : st'[p] = st[p] \/ st'[p] \in {"run", "threw"} BY <1>0, <1>a, <2>1
  <2> QED BY <1>3, <1>e, <2>2, <2>3 DEF Boot
<1>4. ASSUME NEW r \in Roles, Kill(r) PROVE Progress'
  <2>1. st' = [st EXCEPT ![r] = "killed"] BY <1>4 DEF Kill
  <2>2. st'["P2"] = "closing" => Mode = "Record" BY <1>a, <1>d, <2>1 DEF Progress
  <2>3. \A p \in Parties : st'[p] = st[p] \/ st'[p] = "killed" BY <1>0, <1>a, <2>1
  <2> QED BY <1>4, <1>e, <2>2, <2>3 DEF Kill, volatile
<1>5. CASE P2Step
  <2>1. UNCHANGED <<posted, used, launch>>
    BY <1>5 DEF P2Step, Record, Reread, SendMask, SendMaskFails, P2Ends, CloseFile, volatile
  <2>2. at' = at \/ at' = [at EXCEPT !["P2"] = @ + 1]
    BY <1>5 DEF P2Step, Record, Reread, SendMask, SendMaskFails, P2Ends, CloseFile, volatile, Advance
  <2>3. \/ st' = st
        \/ \E e \in {"closing", "threw", "done"} :
             st' = [st EXCEPT !["P2"] = e] /\ (e = "closing" => Mode = "Record")
    <3>1. CASE P2Ends
      <4> DEFINE e == IF Mode = "Record" THEN "closing"
                      ELSE IF rand.read < rand.disk THEN "threw" ELSE "done"
      <4>1. st' = [st EXCEPT !["P2"] = e] BY <3>1 DEF P2Ends
      <4>2. e \in {"closing", "threw", "done"} /\ (e = "closing" => Mode = "Record") OBVIOUS
      <4> QED BY <4>1, <4>2
    <3>2. CASE Record \/ SendMask BY <3>2 DEF Record, SendMask
    <3>3. CASE Reread BY <3>3 DEF Reread
    <3>4. CASE CloseFile BY <3>4 DEF CloseFile
    <3>5. CASE SendMaskFails BY <3>5 DEF SendMaskFails
    <3> QED BY <1>5, <3>1, <3>2, <3>3, <3>4, <3>5 DEF P2Step
  <2>4. \A p \in Parties : at'[p] = at[p] /\ st'[p] = st[p] BY <1>0, <1>a, <2>2, <2>3
  <2>5. st'["P2"] = "closing" => Mode = "Record" BY <1>a, <1>d, <2>3 DEF Progress
  <2> QED BY <1>e, <2>1, <2>4, <2>5
<1>6. ASSUME NEW p \in Parties, PartyStep(p) PROVE Progress'
  <2>0. p \in Roles /\ p # "P2" /\ Peer(p) \in Parties /\ Peer(p) \in Roles /\ Peer(p) # p
        /\ Peer(Peer(p)) = p /\ \A q \in Parties : q = p \/ q = Peer(p)
    BY PeerFacts
  <2>a. at[p] \in Nat /\ posted[p] \in Nat /\ at[Peer(p)] \in Nat /\ posted[Peer(p)] \in Nat
        /\ Len(Program) \in Nat /\ used[p] \in Seq(Material)
    BY <2>0, TypeFacts, ConstantFacts
  <2>b. Standing(p) /\ Standing(Peer(p)) BY <1>0, <2>0
  \* The current step is posted, with whatever material.
  <2>1. ASSUME NEW k, Post(p, k), posted[p] < at[p], UNCHANGED <<st, at, launch>>
        PROVE  Progress'
    <3>1. posted'[p] = at[p] /\ used'[p] = Append(used[p], k)
      BY <1>b, <2>1 DEF Post
    <3>2. posted'[Peer(p)] = posted[Peer(p)] /\ used'[Peer(p)] = used[Peer(p)]
      BY <1>b, <2>0, <2>1 DEF Post
    <3>3. Len(used'[p]) = posted[p] + 1 BY <2>a, <2>b, <3>1 DEF Standing
    <3>4. Standing(p)' BY <2>0, <2>1, <2>a, <2>b, <3>1, <3>2, <3>3 DEF Standing
    <3>5. Standing(Peer(p))' BY <2>0, <2>1, <2>a, <2>b, <3>1, <3>2 DEF Standing
    <3> QED BY <1>c, <2>0, <2>1, <3>4, <3>5 DEF Progress
  <2>2. ASSUME UNCHANGED <<posted, used, launch, at>>, st' = [st EXCEPT ![p] = "threw"]
        PROVE  Progress'
    <3>1. st'["P2"] = st["P2"] BY <1>a, <2>0, <2>2
    <3>2. \A q \in Parties : st'[q] = st[q] \/ st'[q] = "threw" BY <1>0, <1>a, <2>2
    <3> QED BY <1>e, <2>2, <3>1, <3>2 DEF Progress
  <2>3. CASE FetchNothing(p) BY <2>1, <2>3 DEF FetchNothing
  <2>4. CASE FetchRecord(p) BY <2>1, <2>2, <2>4 DEF FetchRecord
  <2>5. CASE FetchPastEnd(p) BY <2>1, <2>2, <2>5 DEF FetchPastEnd
  <2>6. CASE FetchMask(p) BY <2>1, <2>6 DEF FetchMask
  <2>7. CASE Exchange(p)
    <3>1. at'[p] = at[p] + 1 /\ at'[Peer(p)] = at[Peer(p)] BY <1>a, <2>0, <2>7 DEF Exchange, Advance
    <3>2. posted[p] = at[p] /\ posted[Peer(p)] >= at[p] /\ st[p] = "run"
          /\ UNCHANGED <<st, posted, used, launch>>
      BY <2>7 DEF Exchange
    <3>3. Standing(p)' BY <2>0, <2>a, <2>b, <3>1, <3>2 DEF Standing
    <3>4. Standing(Peer(p))' BY <2>0, <2>a, <2>b, <3>1, <3>2 DEF Standing
    <3> QED BY <1>c, <2>0, <3>2, <3>3, <3>4 DEF Progress
  <2>8. CASE PartyEnds(p)
    <3>1. at[p] = Len(Program) + 1 /\ st' = [st EXCEPT ![p] = "done"]
          /\ UNCHANGED <<posted, used, launch, at>>
      BY <2>8 DEF PartyEnds, volatile
    <3>2. st'[p] = "done" /\ st'[Peer(p)] = st[Peer(p)] /\ st'["P2"] = st["P2"]
      BY <1>a, <2>0, <3>1
    <3>3. Standing(p)' /\ Standing(Peer(p))' BY <2>0, <2>b, <3>1, <3>2 DEF Standing
    <3> QED BY <1>c, <2>0, <3>1, <3>2, <3>3 DEF Progress
  <2>9. CASE IoError(p) BY <2>2, <2>9 DEF IoError, volatile
  <2> QED BY <1>6, <2>3, <2>4, <2>5, <2>6, <2>7, <2>8, <2>9 DEF PartyStep
<1> QED BY <1>1, <1>2, <1>3, <1>4, <1>5, <1>6, NextCases

-----------------------------------------------------------------------------
(* Casualties                                                              *)

\* Nobody is killed without being counted.
LEMMA CasualtiesStep ==
  ASSUME Types, Progress, Casualties, [Next]_vars
  PROVE  Casualties'
<1>a. st \in [Roles -> Ends] /\ kills \in Nat BY DEF Types
<1>b. Roles = {"P0", "P1", "P2"} BY DEF Roles, Parties
\* One role changes its state, and no role comes back from the dead.
<1>c. ASSUME NEW r \in Roles, NEW e \in Ends, st' = [st EXCEPT ![r] = e],
             (kills' = kills /\ e # "killed") \/ kills' = kills + 1
      PROVE  Casualties'
  <2>1. \A q \in Roles : q # r => One(q)' = One(q) BY <1>a, <1>c DEF One
  <2>2. One(r)' = IF e = "killed" THEN 1 ELSE 0 BY <1>a, <1>c DEF One
  <2>3. \A q \in Roles : One(q) \in {0, 1} BY DEF One
  <2>4. One(r)' <= One(r) + (kills' - kills)
    BY <1>a, <1>c, <2>2, <2>3
  <2>5. kills' \in Nat BY <1>a, <1>c
  <2>6. CASE r = "P0" BY <1>a, <1>b, <2>1, <2>2, <2>3, <2>4, <2>5, <2>6 DEF Casualties
  <2>7. CASE r = "P1" BY <1>a, <1>b, <2>1, <2>2, <2>3, <2>4, <2>5, <2>7 DEF Casualties
  <2>8. CASE r = "P2" BY <1>a, <1>b, <2>1, <2>2, <2>3, <2>4, <2>5, <2>8 DEF Casualties
  <2> QED BY <1>b, <2>6, <2>7, <2>8
<1>d. ASSUME st' = st, kills' = kills PROVE Casualties' BY <1>d DEF Casualties, One
<1>1. CASE UNCHANGED vars BY <1>1, <1>d DEF vars
<1>2. CASE Relaunch
  <2>1. \A r \in Roles : One(r)' = 0 BY <1>2 DEF Relaunch, One
  <2>2. kills' = kills BY <1>2 DEF Relaunch
  <2> QED BY <1>a, <1>b, <2>1, <2>2 DEF Casualties
<1>3. ASSUME NEW r \in Roles, Boot(r) PROVE Casualties'
  <2>1. st' = [st EXCEPT ![r] = "run"] \/ st' = [st EXCEPT ![r] = "threw"] BY <1>3 DEF Boot
  <2>2. kills' = kills BY <1>3 DEF Boot
  <2> QED BY <1>c, <2>1, <2>2 DEF Ends
<1>4. ASSUME NEW r \in Roles, Kill(r) PROVE Casualties'
  <2>1. st' = [st EXCEPT ![r] = "killed"] /\ kills' = kills + 1 BY <1>4 DEF Kill
  <2> QED BY <1>c, <2>1 DEF Ends
<1>5. CASE P2Step
  <2>1. kills' = kills BY <1>5 DEF P2Step, Record, Reread, SendMask, SendMaskFails, P2Ends, CloseFile
  <2>2. st' = st \/ \E e \in {"closing", "threw", "done"} : st' = [st EXCEPT !["P2"] = e]
    BY <1>5 DEF P2Step, Record, Reread, SendMask, SendMaskFails, P2Ends, CloseFile
  <2> QED BY <1>b, <1>c, <1>d, <2>1, <2>2 DEF Ends
<1>6. ASSUME NEW p \in Parties, PartyStep(p) PROVE Casualties'
  <2>1. kills' = kills
    BY <1>6 DEF PartyStep, FetchNothing, FetchRecord, FetchPastEnd, FetchMask, Exchange, PartyEnds, IoError
  <2>2. st' = st \/ st' = [st EXCEPT ![p] = "threw"] \/ st' = [st EXCEPT ![p] = "done"]
    BY <1>6 DEF PartyStep, FetchNothing, FetchRecord, FetchPastEnd, FetchMask, Exchange, PartyEnds, IoError
  <2>3. p \in Roles BY PeerFacts
  <2> QED BY <1>c, <1>d, <2>1, <2>2, <2>3 DEF Ends
<1> QED BY <1>1, <1>2, <1>3, <1>4, <1>5, <1>6, NextCases

-----------------------------------------------------------------------------
(* The tapes and the buffers                                               *)

\* A program that has not opened its files has not begun.
LEMMA FreshStep ==
  ASSUME Types, Fresh, [Next]_vars
  PROVE  Fresh'
<1>a. st \in [Roles -> Ends] /\ at \in [Roles -> Places] BY DEF Types
<1>b. ASSUME NEW r \in Roles, NEW e \in Ends \ {"boot"}, st' = [st EXCEPT ![r] = e], at' = at
      PROVE  Fresh'
  BY <1>a, <1>b DEF Fresh
<1>c. ASSUME NEW r \in Roles, st' = st, at' = [at EXCEPT ![r] = @ + 1], st[r] # "boot"
      PROVE  Fresh'
  BY <1>a, <1>c DEF Fresh
<1>d. ASSUME st' = st, at' = at PROVE Fresh' BY <1>d DEF Fresh
<1>1. CASE UNCHANGED vars BY <1>1, <1>d DEF vars
<1>2. CASE Relaunch BY <1>2 DEF Relaunch, ResetProcesses, Fresh
<1>3. ASSUME NEW r \in Roles, Boot(r) PROVE Fresh'
  <2>1. st' = [st EXCEPT ![r] = "run"] \/ st' = [st EXCEPT ![r] = "threw"] BY <1>3 DEF Boot
  <2> QED BY <1>3, <1>b, <2>1 DEF Boot, Ends
<1>4. ASSUME NEW r \in Roles, Kill(r) PROVE Fresh'
  BY <1>4, <1>b DEF Kill, volatile, Ends
<1>5. CASE P2Step
  <2>0. "P2" \in Roles BY TapeFacts
  <2>1. CASE Record BY <1>c, <2>0, <2>1 DEF Record, InStep, Advance
  <2>2. CASE Reread
    <3>1. st["P2"] = "run" BY <2>2 DEF Reread, InStep
    <3>2. \/ st' = st /\ at' = [at EXCEPT !["P2"] = @ + 1]
          \/ st' = [st EXCEPT !["P2"] = "threw"] /\ at' = at
      BY <2>2 DEF Reread, Advance
    <3> QED BY <1>b, <1>c, <2>0, <3>1, <3>2 DEF Ends
  <2>3. CASE SendMask BY <1>c, <2>0, <2>3 DEF SendMask, InStep, Advance
  <2>4. CASE P2Ends
    <3>1. \E e \in {"closing", "threw", "done"} : st' = [st EXCEPT !["P2"] = e]
      BY <2>4 DEF P2Ends
    <3>2. at' = at BY <2>4 DEF P2Ends, volatile
    <3> QED BY <1>b, <2>0, <3>1, <3>2 DEF Ends
  <2>5. CASE CloseFile
    <3>1. st' = st \/ \E e \in {"done", "threw"} : st' = [st EXCEPT !["P2"] = e] BY <2>5 DEF CloseFile
    <3>2. at' = at BY <2>5 DEF CloseFile, volatile
    <3> QED BY <1>b, <1>d, <2>0, <3>1, <3>2 DEF Ends
  <2>6. CASE SendMaskFails
    <3>1. \E e \in {"closing", "threw"} : st' = [st EXCEPT !["P2"] = e] BY <2>6 DEF SendMaskFails
    <3>2. at' = at BY <2>6 DEF SendMaskFails, volatile
    <3> QED BY <1>b, <2>0, <3>1, <3>2 DEF Ends
  <2> QED BY <1>5, <2>1, <2>2, <2>3, <2>4, <2>5, <2>6 DEF P2Step
<1>6. ASSUME NEW p \in Parties, PartyStep(p) PROVE Fresh'
  <2>0. p \in Roles BY PeerFacts
  <2>1. CASE Exchange(p) BY <1>c, <2>0, <2>1 DEF Exchange, Advance
  <2>2. CASE ~Exchange(p)
    <3>1. at' = at
      BY <1>6, <2>2 DEF PartyStep, FetchNothing, FetchRecord, FetchPastEnd, FetchMask, PartyEnds, IoError, volatile
    <3>2. st' = st \/ st' = [st EXCEPT ![p] = "threw"] \/ st' = [st EXCEPT ![p] = "done"]
      BY <1>6, <2>2 DEF PartyStep, FetchNothing, FetchRecord, FetchPastEnd, FetchMask, PartyEnds, IoError
    <3> QED BY <1>b, <1>d, <2>0, <3>1, <3>2 DEF Ends
  <2> QED BY <2>1, <2>2
<1> QED BY <1>1, <1>2, <1>3, <1>4, <1>5, <1>6, NextCases

\* An empty tape is a tape of anything.
LEMMA HoldsNothing ==
  ASSUME NEW f, NEW l
  PROVE  Holds(<<>>, f, l) /\ Len(<<>>) = 0
  BY DEF Holds

\* The fields of a record.
LEMMA RecordFacts ==
  ASSUME NEW r \in Record1
  PROVE  r.idx \in Nat /\ r.k[1] \in Nat /\ r.k[2] \in Nat /\ r.k[3] \in Parties
         /\ r.k \in Nat \X Nat \X Parties
  BY DEF Record1

\* P2 records one more step.
LEMMA HoldsAppend ==
  ASSUME NEW f, NEW s \in Seq(Record1), NEW r \in Record1, NEW n \in Steps, NEW launched \in Nat,
         Holds(s, f, launched), Covers(s, f, n),
         \A i \in 1 .. Len(s) : s[i].k[2] < n,
         Program[n] = f[1], r.k[1] = launched, r.k[2] = n, r.k[3] = f[2],
         s # <<>> => r.idx = s[1].idx + Len(s)
  PROVE  Holds(Append(s, r), f, launched) /\ Covers(Append(s, r), f, n + 1)
<1> DEFINE t == Append(s, r)
           l == Len(s)
<1>1. l \in Nat /\ Len(t) = l + 1 /\ t[l + 1] = r /\ \A i \in 1 .. l : t[i] = s[i]
  OBVIOUS
<1>2. \A i \in 1 .. l : s[i] \in Record1 OBVIOUS
<1>2a. \A i \in 1 .. l : s[i].k[2] \in Nat /\ s[i].idx \in Nat BY <1>2, RecordFacts
<1>3. n \in Nat /\ \A m \in Steps : m \in Nat BY ConstantFacts
<1>4. s # <<>> <=> l # 0 OBVIOUS
<1>5. r.idx \in Nat BY RecordFacts
<1> HIDE DEF t, l
<1>6. \A i \in 1 .. Len(t) : i = l + 1 \/ i \in 1 .. l BY <1>1
<1>7. \A i \in 1 .. Len(t) :
        /\ t[i].k[1] <= launched /\ t[i].k[3] = f[2]
        /\ t[i].k[2] \in Steps /\ Program[t[i].k[2]] = f[1]
  BY <1>1, <1>6 DEF Holds, l
<1>8. \A i, j \in 1 .. Len(t) : i < j => t[i].k[2] < t[j].k[2]
  <2> SUFFICES ASSUME NEW i \in 1 .. Len(t), NEW j \in 1 .. Len(t), i < j PROVE t[i].k[2] < t[j].k[2]
    OBVIOUS
  <2>1. i \in 1 .. l BY <1>1
  <2>2. CASE j = l + 1 BY <1>1, <2>1, <2>2 DEF l
  <2>3. CASE j \in 1 .. l BY <1>1, <2>1, <2>3 DEF Holds, l
  <2> QED BY <1>6, <2>2, <2>3
<1>9. ASSUME NEW m \in Steps, Program[m] = f[1], m < n + 1 PROVE \E j \in 1 .. Len(t) : t[j].k[2] = m
  <2>1. CASE m = n
    <3>1. l + 1 \in 1 .. Len(t) BY <1>1
    <3> QED BY <1>1, <2>1, <3>1
  <2>2. CASE m < n
    <3>1. PICK i \in 1 .. l : s[i].k[2] = m BY <1>9, <2>2 DEF Covers, l
    <3>2. i \in 1 .. Len(t) /\ t[i].k[2] = m BY <1>1, <3>1
    <3> QED BY <3>2
  <2> QED BY <1>3, <1>9, <2>1, <2>2
<1>10. ASSUME NEW m \in Steps, NEW i \in 1 .. Len(t), Program[m] = f[1], m < t[i].k[2]
       PROVE  \E j \in 1 .. Len(t) : t[j].k[2] = m
  <2>1. t[i].k[2] <= n
    <3>1. CASE i = l + 1 BY <1>1, <1>3, <3>1
    <3>2. CASE i \in 1 .. l BY <1>1, <1>2a, <1>3, <3>2 DEF l
    <3> QED BY <1>6, <3>1, <3>2
  <2>2. \A x, y, z \in Nat : x < y /\ y <= z => x < z + 1 OBVIOUS
  <2>3. t[i].k[2] \in Nat /\ m \in Nat /\ n \in Nat BY <1>3, <1>7
  <2>4. m < n + 1 BY <1>10, <2>1, <2>2, <2>3
  <2> QED BY <1>9, <1>10, <2>4
<1>11. \A i \in 1 .. Len(t) : t[i].idx = t[1].idx + i - 1
  <2> SUFFICES ASSUME NEW i \in 1 .. Len(t) PROVE t[i].idx = t[1].idx + i - 1
    OBVIOUS
  <2>1. CASE i \in 1 .. l
    <3>1. 1 \in 1 .. l BY <1>1, <2>1
    <3>2. s[i].idx = s[1].idx + i - 1 BY <2>1 DEF Holds, l
    <3> QED BY <1>1, <2>1, <3>1, <3>2
  <2>2. CASE i = l + 1 /\ l # 0
    <3>1. 1 \in 1 .. l BY <1>1, <2>2
    <3>2. r.idx = s[1].idx + l BY <1>4, <2>2 DEF l
    <3>3. t[i].idx = r.idx /\ t[1].idx = s[1].idx BY <1>1, <2>2, <3>1
    <3>4. s[1].idx \in Nat BY <1>2a, <3>1
    <3> QED BY <1>1, <2>2, <3>2, <3>3, <3>4
  <2>3. CASE i = l + 1 /\ l = 0
    <3>1. i = 1 /\ t[1].idx = r.idx BY <1>1, <2>3
    <3> QED BY <1>5, <3>1
  <2> QED BY <1>6, <2>1, <2>2, <2>3
<1>12. Holds(t, f, launched) BY <1>7, <1>8, <1>10, <1>11 DEF Holds
<1>13. Covers(t, f, n + 1) BY <1>9 DEF Covers
<1> QED BY <1>12, <1>13 DEF t

\* Every step keeps the tapes and the buffers of P2 in the order of the program.
LEMMA DiskStep ==
  ASSUME Types, Progress, Fresh, Disk, [Next]_vars
  PROVE  Disk'
<1>a. st \in [Roles -> Ends] /\ at \in [Roles -> Places] /\ ctr \in [Roles -> Counters] BY DEF Types
<1>b. "P2" \in Roles BY TapeFacts
<1>c. launch' = launch => Mode' = Mode BY DEF Mode
<1>d. \A f \in Tapes : DiskOf(f) BY DEF Disk
<1>e. (\A f \in Tapes : DiskOf(f)') => Disk' BY DEF Disk
<1>f. launch \in Nat /\ at["P2"] \in Nat BY <1>b, TypeFacts
<1>h. ASSUME NEW f \in Tapes, launch' = launch, buf'[f] = buf[f], tape'[f] = tape[f],
             at'["P2"] = at["P2"], st'["P2"] = st["P2"], ctr'["P2"] = ctr["P2"]
      PROVE  DiskOf(f)'
  <2>1. DiskOf(f) BY <1>d
  <2>2. Writing' <=> Writing BY <1>c, <1>h DEF Writing
  <2>3. Holds(tape[f], f, launch)' /\ Holds(buf[f], f, launch)' BY <1>h, <2>1 DEF DiskOf
  <2>4. Covers(buf[f], f, at["P2"])' <=> Covers(buf[f], f, at["P2"]) BY <1>h DEF Covers
  <2> QED BY <1>h, <2>1, <2>2, <2>3, <2>4 DEF DiskOf
\* P2 neither writes nor has anything in its buffers.
<1>i. ASSUME NEW f \in Tapes, ~Writing', buf'[f] = <<>>, Holds(tape[f], f, launch)' PROVE DiskOf(f)'
  <2>1. Holds(buf[f], f, launch)' /\ Len(buf[f])' = 0 BY <1>i, HoldsNothing
  <2> QED BY <1>i, <2>1 DEF DiskOf
<1>1. CASE UNCHANGED vars BY <1>1, <1>e, <1>h DEF vars
<1>2. CASE Relaunch
  <2>1. ~Writing BY <1>2, <1>b DEF Relaunch, Live, Writing
  <2>2. ~Writing' BY <1>2, <1>b DEF Relaunch, Writing
  <2>3. launch' = launch + 1 /\ tape' = tape /\ buf' = buf BY <1>2 DEF Relaunch
  <2>4. ASSUME NEW f \in Tapes PROVE Holds(tape[f], f, launch)'
    <3>1. Holds(tape[f], f, launch) BY <1>d DEF DiskOf
    <3>2. tape[f] \in Seq(Record1) BY TypeFacts
    <3>3. \A i \in 1 .. Len(tape[f]) : tape[f][i].k[1] \in Nat /\ tape[f][i].k[1] <= launch
      BY <3>1, <3>2, RecordFacts DEF Holds
    <3>4. \A i \in 1 .. Len(tape[f]) : tape[f][i].k[1] <= launch'
      BY <1>f, <2>3, <3>3
    <3> QED BY <2>3, <3>1, <3>4 DEF Holds
  <2>5. \A f \in Tapes : buf[f] = <<>> BY <1>d, <2>1 DEF DiskOf
  <2> QED BY <1>e, <1>i, <2>2, <2>3, <2>4, <2>5
<1>3. ASSUME NEW r \in Roles, Boot(r) PROVE Disk'
  <2>1. launch' = launch /\ buf' = buf /\ at' = at /\ st[r] = "boot" BY <1>3 DEF Boot
  <2>2. tape' = tape \/ tape' = [f \in Tapes |-> <<>>] BY <1>3 DEF Boot, Truncated
  <2>3. ASSUME NEW f \in Tapes PROVE Holds(tape[f], f, launch)'
    <3>1. Holds(tape[f], f, launch) BY <1>d DEF DiskOf
    <3>2. tape'[f] = tape[f] \/ tape'[f] = <<>> BY <2>2
    <3> QED BY <2>1, <3>1, <3>2, HoldsNothing
  <2>4. CASE r = "P2"
    <3>1. ~Writing BY <2>1, <2>4 DEF Writing
    <3>2. \A f \in Tapes : buf[f] = <<>> BY <1>d, <3>1 DEF DiskOf
    <3>3. CASE Mode = "Replay"
      <4>1. ~Writing' BY <1>c, <2>1, <3>3 DEF Writing
      <4> QED BY <1>e, <1>i, <2>1, <2>3, <3>2, <4>1
    <3>4. CASE Mode = "Record"
      <4>1. tape' = [f \in Tapes |-> <<>>] BY <1>3, <2>4, <3>4 DEF Boot, Truncated
      <4>2. at["P2"] = 1 BY <1>b, <2>1, <2>4 DEF Fresh
      <4>3. ASSUME NEW f \in Tapes PROVE DiskOf(f)'
        <5>1. tape'[f] = <<>> /\ buf'[f] = <<>> BY <2>1, <3>2, <4>1
        <5>2. Covers(buf[f], f, at["P2"])' BY <2>1, <4>2, ConstantFacts DEF Covers
        <5>3. Holds(buf[f], f, launch)' /\ Len(buf[f])' = 0 BY <5>1, HoldsNothing
        <5> QED BY <2>3, <5>1, <5>2, <5>3 DEF DiskOf
      <4> QED BY <1>e, <4>3
    <3> QED BY <3>3, <3>4, TypeFacts
  <2>5. CASE r # "P2"
    <3>1. st'["P2"] = st["P2"] /\ ctr'["P2"] = ctr["P2"] BY <1>3, <1>a, <1>b, <2>5 DEF Boot
    <3>2. ASSUME NEW f \in Tapes, tape'[f] = <<>> PROVE DiskOf(f)'
      <4>1. DiskOf(f) BY <1>d
      <4>2. Writing' <=> Writing BY <1>c, <2>1, <3>1 DEF Writing
      <4>3. Holds(buf[f], f, launch)' BY <2>1, <4>1 DEF DiskOf
      <4>4. Covers(buf[f], f, at["P2"])' <=> Covers(buf[f], f, at["P2"]) BY <2>1 DEF Covers
      <4> QED BY <2>1, <2>3, <3>1, <3>2, <4>1, <4>2, <4>3, <4>4 DEF DiskOf
    <3>3. \A f \in Tapes : tape'[f] = tape[f] \/ tape'[f] = <<>> BY <2>2
    <3> QED BY <1>e, <1>h, <2>1, <3>1, <3>2, <3>3
  <2> QED BY <2>4, <2>5
<1>4. ASSUME NEW r \in Roles, Kill(r) PROVE Disk'
  <2>1. launch' = launch /\ tape' = tape /\ at' = at /\ ctr' = ctr BY <1>4 DEF Kill, volatile
  <2>2. CASE r = "P2"
    <3>1. st'["P2"] = "killed" /\ \A f \in Tapes : buf'[f] = <<>> BY <1>4, <1>a, <1>b, <2>2 DEF Kill
    <3>2. ~Writing' BY <3>1 DEF Writing
    <3>3. ASSUME NEW f \in Tapes PROVE Holds(tape[f], f, launch)'
      BY <1>d, <2>1 DEF DiskOf
    <3> QED BY <1>e, <1>i, <3>1, <3>2, <3>3
  <2>3. CASE r # "P2"
    <3>1. st'["P2"] = st["P2"] /\ buf' = buf BY <1>4, <1>a, <1>b, <2>3 DEF Kill
    <3> QED BY <1>e, <1>h, <2>1, <3>1
  <2> QED BY <2>2, <2>3
<1>5. CASE P2Step
  \* A step that is on no tape, or nowhere near a recording.
  <2>1. ASSUME launch' = launch, tape' = tape, buf' = buf, ctr' = ctr, st' = st,
               at' = [at EXCEPT !["P2"] = @ + 1],
               Mode = "Record" => \A f \in Tapes : Program[at["P2"]] # f[1]
        PROVE  Disk'
    <3>1. at'["P2"] = at["P2"] + 1 BY <1>a, <1>b, <2>1
    <3>2. ASSUME NEW f \in Tapes PROVE DiskOf(f)'
      <4>1. DiskOf(f) BY <1>d
      <4>2. Writing' <=> Writing BY <1>c, <2>1 DEF Writing
      <4>3. Holds(tape[f], f, launch)' /\ Holds(buf[f], f, launch)' BY <2>1, <4>1 DEF DiskOf
      <4>4. Writing /\ Covers(buf[f], f, at["P2"]) => Covers(buf[f], f, at["P2"])'
        <5> SUFFICES ASSUME Writing, Covers(buf[f], f, at["P2"]), NEW m \in Steps, m < at["P2"] + 1,
                            Program[m] = f[1]
                     PROVE  \E i \in 1 .. Len(buf[f]) : buf[f][i].k[2] = m
          BY <2>1, <3>1 DEF Covers
        <5>1. m # at["P2"] BY <2>1 DEF Writing
        <5>2. m < at["P2"] BY <1>f, <5>1, ConstantFacts
        <5> QED BY <5>2 DEF Covers
      <4>5. ASSUME NEW i \in 1 .. Len(buf[f]) PROVE buf[f][i].k[1] = launch /\ buf[f][i].k[2] < at["P2"] + 1
        <5>1. buf[f][i].k[1] = launch /\ buf[f][i].k[2] < at["P2"] BY <4>1 DEF DiskOf
        <5>2. buf[f][i] \in Record1 BY TypeFacts
        <5>3. buf[f][i].k[2] \in Nat BY <5>2, RecordFacts
        <5> QED BY <1>f, <5>1, <5>3
      <4> QED BY <2>1, <3>1, <4>1, <4>2, <4>3, <4>4, <4>5 DEF DiskOf
    <3> QED BY <1>e, <3>2
  <2>2. CASE Record
    <3> DEFINE n == at["P2"]
               op == Op("P2")
               rec(p) == [idx |-> ctr["P2"][op], k |-> <<launch, n, p>>]
    <3>1. st["P2"] = "run" /\ n \in Steps /\ op = Program[n] /\ op \in Taped /\ Mode = "Record"
      BY <1>b, <2>2, InStepFacts DEF Record
    <3>2. /\ buf' = [f \in Tapes |-> IF f[1] = op THEN Append(buf[f], rec(f[2])) ELSE buf[f]]
          /\ ctr' = [ctr EXCEPT !["P2"] = [ctr["P2"] EXCEPT ![op] = ctr["P2"][op] + 1]]
          /\ at' = [at EXCEPT !["P2"] = @ + 1]
          /\ UNCHANGED <<launch, st, tape>>
      BY <2>2 DEF Record, Advance
    <3>3. at'["P2"] = n + 1 /\ n \in Nat BY <1>a, <1>b, <1>f, <3>2
    <3>4. Writing /\ Writing' BY <1>c, <3>1, <3>2 DEF Writing
    <3>5. ctr["P2"] \in Counters BY <1>b, TypeFacts
    <3>6. ctr["P2"][op] \in Nat BY <3>1, <3>5, CounterFacts
    <3> HIDE DEF n, op
    <3>7. ctr'["P2"] = [ctr["P2"] EXCEPT ![op] = ctr["P2"][op] + 1] BY <1>a, <1>b, <3>2
    <3>8. ASSUME NEW o \in Taped PROVE ctr'["P2"][o] = IF o = op THEN ctr["P2"][op] + 1 ELSE ctr["P2"][o]
      <4>1. CASE o = "mul" BY <3>5, <3>7, <4>1 DEF Counters
      <4>2. CASE o = "and" BY <3>5, <3>7, <4>2 DEF Counters
      <4> QED BY <4>1, <4>2 DEF Taped
    <3>9. ASSUME NEW f \in Tapes PROVE DiskOf(f)'
      <4>1. DiskOf(f) /\ f[1] \in Taped /\ f[2] \in Parties BY <1>d, TapeFacts
      <4>2. /\ tape[f] = <<>> /\ Covers(buf[f], f, n) /\ Holds(buf[f], f, launch)
            /\ buf[f] # <<>> => ctr["P2"][f[1]] = buf[f][1].idx + Len(buf[f])
            /\ \A i \in 1 .. Len(buf[f]) : buf[f][i].k[1] = launch /\ buf[f][i].k[2] < n
        BY <3>1, <3>4, <4>1 DEF DiskOf, n
      <4>3. Holds(tape[f], f, launch)' BY <3>2, <4>1 DEF DiskOf
      <4>4. buf[f] \in Seq(Record1) BY TypeFacts
      <4>5. \A i \in 1 .. Len(buf[f]) : buf[f][i].k[2] \in Nat
        BY <4>4, RecordFacts
      <4>6. CASE f[1] # op
        <5>1. buf'[f] = buf[f] /\ ctr'["P2"][f[1]] = ctr["P2"][f[1]] BY <3>2, <3>8, <4>1, <4>6
        <5>2. Holds(buf[f], f, launch)' BY <3>2, <4>2, <5>1
        <5>3. Covers(buf[f], f, n + 1)
          <6> SUFFICES ASSUME NEW m \in Steps, m < n + 1, Program[m] = f[1]
                       PROVE  \E i \in 1 .. Len(buf[f]) : buf[f][i].k[2] = m
            BY DEF Covers
          <6>1. m # n BY <3>1, <4>6
          <6>2. m < n BY <3>3, <6>1, ConstantFacts
          <6> QED BY <4>2, <6>2 DEF Covers
        <5>4. Covers(buf[f], f, at["P2"])' BY <3>3, <5>1, <5>3 DEF Covers
        <5>5. \A i \in 1 .. Len(buf[f]) : buf[f][i].k[2] < n + 1 BY <3>3, <4>2, <4>5
        <5> QED BY <3>2, <3>3, <3>4, <4>2, <4>3, <5>1, <5>2, <5>4, <5>5 DEF DiskOf
      <4>7. CASE f[1] = op
        <5> DEFINE e == rec(f[2])
                   t == Append(buf[f], e)
        <5>1. buf'[f] = t BY <3>2, <4>7
        <5>2. e \in Record1 /\ e.idx = ctr["P2"][op] /\ e.k[1] = launch /\ e.k[2] = n /\ e.k[3] = f[2]
          BY <1>f, <3>3, <3>6, <4>1 DEF Record1
        <5> HIDE DEF e
        <5>3. Holds(t, f, launch) /\ Covers(t, f, n + 1)
          BY <1>f, <3>1, <4>2, <4>4, <4>7, <5>2, HoldsAppend
        <5>4. /\ Len(t) = Len(buf[f]) + 1 /\ t # <<>> /\ Len(buf[f]) \in Nat
              /\ t[Len(buf[f]) + 1] = e /\ \A i \in 1 .. Len(buf[f]) : t[i] = buf[f][i]
          BY <4>4, <5>2, AppendProperties
        <5> HIDE DEF t
        <5>5. \A i \in 1 .. Len(t) : t[i].k[1] = launch /\ t[i].k[2] < n + 1
          <6> SUFFICES ASSUME NEW i \in 1 .. Len(t) PROVE t[i].k[1] = launch /\ t[i].k[2] < n + 1
            OBVIOUS
          <6>1. CASE i = Len(buf[f]) + 1 BY <3>3, <5>2, <5>4, <6>1
          <6>2. CASE i \in 1 .. Len(buf[f])
            <7>1. t[i] = buf[f][i] /\ buf[f][i].k[2] \in Nat /\ buf[f][i].k[2] < n /\ buf[f][i].k[1] = launch
              BY <4>2, <4>5, <5>4, <6>2
            <7> QED BY <3>3, <7>1
          <6> QED BY <5>4, <6>1, <6>2
        <5>6. ctr'["P2"][f[1]] = t[1].idx + Len(t)
          <6>1. ctr'["P2"][f[1]] = ctr["P2"][op] + 1 BY <3>8, <4>1, <4>7
          <6>2. CASE buf[f] = <<>>
            <7>1. Len(buf[f]) = 0 BY <6>2
            <7>2. Len(t) = 1 /\ t[1] = e BY <5>4, <7>1
            <7> QED BY <5>2, <6>1, <7>2
          <6>3. CASE buf[f] # <<>>
            <7>1. ctr["P2"][op] = buf[f][1].idx + Len(buf[f]) BY <4>2, <4>7, <6>3
            <7>2. Len(buf[f]) # 0 BY <4>4, <6>3
            <7>3. 1 \in 1 .. Len(buf[f]) BY <5>4, <7>2
            <7>4. t[1] = buf[f][1] /\ buf[f][1] \in Record1 BY <4>4, <5>4, <7>3
            <7>5. buf[f][1].idx \in Nat BY <7>4, RecordFacts
            <7>6. \A x, y \in Nat : (x + y) + 1 = x + (y + 1) OBVIOUS
            <7> QED BY <5>4, <6>1, <7>1, <7>4, <7>5, <7>6
          <6> QED BY <6>2, <6>3
        <5>7. Holds(buf[f], f, launch)' /\ Covers(buf[f], f, at["P2"])'
          BY <3>2, <3>3, <5>1, <5>3
        <5> QED BY <3>2, <3>3, <3>4, <4>2, <4>3, <5>1, <5>4, <5>5, <5>6, <5>7, SMTT(60) DEF DiskOf
      <4> QED BY <4>6, <4>7
    <3> QED BY <1>e, <3>9
  <2>3. CASE Reread
    <3>1. launch' = launch /\ tape' = tape /\ buf' = buf /\ ctr' = ctr /\ Mode = "Replay"
      BY <2>3 DEF Reread
    <3>2. CASE st' = st /\ at' = [at EXCEPT !["P2"] = @ + 1] BY <2>1, <3>1, <3>2
    <3>3. CASE st' = [st EXCEPT !["P2"] = "threw"] /\ at' = at
      <4>1. ~Writing /\ ~Writing' BY <1>c, <3>1 DEF Writing
      <4>2. ASSUME NEW f \in Tapes PROVE buf'[f] = <<>> /\ Holds(tape[f], f, launch)'
        BY <1>d, <3>1, <4>1 DEF DiskOf
      <4> QED BY <1>e, <1>i, <4>1, <4>2
    <3> QED BY <2>3, <3>2, <3>3 DEF Reread, Advance
  <2>4. CASE SendMask
    <3>1. Program[at["P2"]] = "mask" BY <1>b, <2>4, InStepFacts DEF SendMask
    <3>2. \A f \in Tapes : Program[at["P2"]] # f[1] BY <3>1, TapeFacts DEF Taped
    <3> QED BY <2>1, <2>4, <3>2 DEF SendMask, Advance, disk
  <2>5. CASE P2Ends \/ SendMaskFails
    <3>1. launch' = launch /\ tape' = tape /\ buf' = buf /\ ctr' = ctr /\ at' = at /\ st["P2"] = "run"
      BY <2>5 DEF P2Ends, SendMaskFails, InStep, volatile, disk
    <3>2. CASE Mode = "Record"
      <4>1. st'["P2"] = "closing" BY <1>a, <1>b, <2>5, <3>2 DEF P2Ends, SendMaskFails
      <4>2. Writing /\ Writing' BY <1>c, <3>1, <3>2, <4>1 DEF Writing
      <4>3. ASSUME NEW f \in Tapes PROVE DiskOf(f)'
        <5>1. DiskOf(f) BY <1>d
        <5>2. Holds(tape[f], f, launch)' /\ Holds(buf[f], f, launch)' BY <3>1, <5>1 DEF DiskOf
        <5> QED BY <3>1, <4>1, <4>2, <5>1, <5>2 DEF DiskOf
      <4> QED BY <1>e, <4>3
    <3>3. CASE Mode = "Replay"
      <4>1. ~Writing /\ ~Writing' BY <1>c, <3>1, <3>3 DEF Writing
      <4>2. ASSUME NEW f \in Tapes PROVE buf'[f] = <<>> /\ Holds(tape[f], f, launch)'
        BY <1>d, <3>1, <4>1 DEF DiskOf
      <4> QED BY <1>e, <1>i, <4>1, <4>2
    <3> QED BY <3>2, <3>3, TypeFacts
  <2>6. CASE CloseFile
    <3>1. launch' = launch /\ at' = at /\ ctr' = ctr /\ st["P2"] = "closing" /\ Mode = "Record" /\ Writing
      BY <2>6 DEF CloseFile, volatile, Progress, Writing
    <3>2. CASE \A f \in Tapes : buf[f] = <<>> /\ tape' = tape /\ buf' = buf
      <4>1. ASSUME NEW f \in Tapes PROVE DiskOf(f)'
        <5>1. DiskOf(f) BY <1>d
        <5>2. st'["P2"] # "run"
          BY <1>a, <1>b, <2>6, <3>1 DEF CloseFile
        <5>3. Holds(tape[f], f, launch)' /\ Holds(buf[f], f, launch)' BY <3>1, <3>2, <5>1 DEF DiskOf
        <5>4. Len(buf[f])' = 0 BY <3>2
        <5> QED BY <3>1, <3>2, <5>2, <5>3, <5>4 DEF DiskOf
      <4> QED BY <1>e, <4>1
    <3>3. CASE \E g \in Tapes : /\ buf[g] # <<>> /\ st' = st
                               /\ tape' = [tape EXCEPT ![g] = @ \o buf[g]]
                               /\ buf' = [buf EXCEPT ![g] = <<>>]
      <4>1. PICK g \in Tapes : /\ buf[g] # <<>> /\ st' = st
                               /\ tape' = [tape EXCEPT ![g] = @ \o buf[g]]
                               /\ buf' = [buf EXCEPT ![g] = <<>>]
        BY <3>3
      <4>2. tape[g] = <<>> /\ buf[g] \in Seq(Record1) BY <1>d, <4>1, TypeFacts DEF DiskOf
      <4>3. <<>> \o buf[g] = buf[g] BY <4>2, ConcatEmptySeq
      <4>4. tape'[g] = buf[g] /\ buf'[g] = <<>> BY <4>1, <4>2, <4>3 DEF Types
      <4>5. ASSUME NEW f \in Tapes PROVE DiskOf(f)'
        <5>1. CASE f = g
          <6>1. Holds(tape[f], f, launch)' BY <1>d, <3>1, <4>4, <5>1 DEF DiskOf
          <6>2. Holds(buf[f], f, launch)' /\ Len(buf[f])' = 0 BY <4>4, <5>1, HoldsNothing
          <6> QED BY <3>1, <4>1, <4>4, <5>1, <6>1, <6>2 DEF DiskOf
        <5>2. CASE f # g
          <6>1. tape'[f] = tape[f] /\ buf'[f] = buf[f] BY <4>1, <5>2 DEF Types
          <6> QED BY <1>h, <3>1, <4>1, <6>1
        <5> QED BY <5>1, <5>2
      <4> QED BY <1>e, <4>5
    <3> QED BY <2>6, <3>2, <3>3, ClosingFacts DEF CloseFile
  <2> QED BY <1>5, <2>2, <2>3, <2>4, <2>5, <2>6 DEF P2Step
<1>6. ASSUME NEW p \in Parties, PartyStep(p) PROVE Disk'
  <2>0. p \in Roles /\ p # "P2" BY PeerFacts
  <2>1. UNCHANGED <<launch, tape, buf>>
    BY <1>6 DEF PartyStep, FetchNothing, FetchRecord, FetchPastEnd, FetchMask, Exchange, PartyEnds, IoError, disk
  <2>2. at'["P2"] = at["P2"]
    BY <1>6, <1>a, <1>b, <2>0 DEF PartyStep, FetchNothing, FetchRecord, FetchPastEnd, FetchMask, Exchange,
                                  PartyEnds, IoError, volatile, Advance
  <2>3. ctr'["P2"] = ctr["P2"]
    BY <1>6, <1>a, <1>b, <2>0 DEF PartyStep, FetchNothing, FetchRecord, FetchPastEnd, FetchMask, Exchange,
                                  PartyEnds, IoError, volatile
  <2>4. st'["P2"] = st["P2"]
    BY <1>6, <1>a, <1>b, <2>0 DEF PartyStep, FetchNothing, FetchRecord, FetchPastEnd, FetchMask, Exchange,
                                  PartyEnds, IoError
  <2> QED BY <1>e, <1>h, <2>1, <2>2, <2>3, <2>4
<1> QED BY <1>1, <1>2, <1>3, <1>4, <1>5, <1>6, NextCases

-----------------------------------------------------------------------------
(* From which recording the records are                                    *)

\* Every step keeps all records on the tapes from one and the same run.
LEMMA OriginStep ==
  ASSUME Types, Progress, Disk, Origin, Casualties, [Next]_vars
  PROVE  Origin'
<1>a. st \in [Roles -> Ends] /\ kills \in Nat /\ launch \in Nat BY TypeFacts DEF Types
<1>b. "P2" \in Roles BY TapeFacts
<1>c. launch' = launch => Mode' = Mode BY DEF Mode
\* The tapes stay, or are emptied.
<1>d. ASSUME UNCHANGED <<launch, tape>>, kills' = kills \/ kills' = kills + 1,
             Writing' => Writing, Untouched => Untouched'
      PROVE  Origin'
  <2>1. kills' < 3 => kills < 3 BY <1>a, <1>d
  <2>2. \A x : Dated(x) => Dated(x)' BY <1>d, <2>1 DEF Dated
  <2> QED BY <1>d, <2>2 DEF Origin
<1>e. ASSUME tape' = [f \in Tapes |-> <<>>] PROVE Origin'
  <2>1. \A f \in Tapes : Len(tape'[f]) = 0 BY <1>e
  <2> QED BY <2>1 DEF Origin
<1>1. CASE UNCHANGED vars
  BY <1>1, <1>d DEF vars, Writing, Mode, Untouched
<1>2. CASE Relaunch
  <2>1. /\ launch' = launch + 1 /\ UNCHANGED <<tape, kills>>
        /\ \A r \in Roles : st'[r] = "boot" /\ ~Live(r)
    BY <1>2 DEF Relaunch
  <2>2. ~Writing' BY <1>b, <2>1 DEF Writing
  <2>3. Untouched /\ kills < 3 => FALSE
    <3> SUFFICES ASSUME Untouched, kills < 3 PROVE FALSE OBVIOUS
    <3>1. \A r \in Roles : st[r] = "killed" BY <2>1 DEF Untouched, Live
    <3>2. One("P0") = 1 /\ One("P1") = 1 /\ One("P2") = 1 BY <3>1 DEF One, Roles, Parties
    <3> QED BY <1>a, <3>2 DEF Casualties
  <2>4. Launches[launch + 1] = "Record" => Untouched' BY <2>1 DEF Untouched, Mode
  <2>5. launch + 1 \in 1 .. Len(Launches) BY <1>2, <1>a, ConstantFacts, TypeFacts, SMTT(60) DEF Relaunch
  <2>6. Launches[launch + 1] \in {"Record", "Replay"} BY <2>5, ConstantFacts
  <2>7. ASSUME NEW f \in Tapes, NEW i \in 1 .. Len(tape[f]) PROVE Dated(tape[f][i])'
    <3> DEFINE x == tape[f][i]
    <3>1. Dated(x) BY DEF Origin
    <3>2. x \in Record1 BY TypeFacts
    <3>3. x.k[1] \in Nat BY <3>2, RecordFacts
    <3> HIDE DEF x
    <3>4. ASSUME kills < 3, NEW n \in (x.k[1] + 1) .. (launch + 1)
          PROVE  Launches[n] = "Replay" \/ (n = launch + 1 /\ Untouched')
      <4>1. CASE n = launch + 1 BY <2>4, <2>6, <4>1
      <4>2. CASE n # launch + 1
        <5>1. n \in (x.k[1] + 1) .. launch BY <1>a, <3>3, <4>2
        <5> QED BY <2>3, <3>1, <3>4, <5>1 DEF Dated
      <4> QED BY <4>1, <4>2
    <3>5. Dated(x)' <=> /\ Writing' => x'.k[1] = launch'
                        /\ kills' < 3 =>
                             \A n \in (x'.k[1] + 1) .. launch' : Launches[n] = "Replay" \/ (n = launch' /\ Untouched')
      BY DEF Dated
    <3>6. x' = x BY <2>1 DEF x
    <3>7. Dated(x)' BY <2>1, <2>2, <3>4, <3>5, <3>6
    <3> QED BY <3>7 DEF x
  <2> QED BY <2>1, <2>7 DEF Origin
<1>3. ASSUME NEW r \in Roles, Boot(r) PROVE Origin'
  <2>1. UNCHANGED <<launch, kills>> /\ st[r] = "boot" BY <1>3 DEF Boot
  <2>2. CASE Mode = "Record" BY <1>3, <1>e, <2>2 DEF Boot, Truncated
  <2>4. CASE Mode = "Replay"
    <3>1. tape' = tape BY <1>3, <2>4 DEF Boot
    <3>2. ~Writing' /\ ~Untouched BY <1>c, <2>1, <2>4 DEF Writing, Untouched
    <3> QED BY <1>d, <2>1, <3>1, <3>2
  <2> QED BY <2>2, <2>4, TypeFacts
<1>4. ASSUME NEW r \in Roles, Kill(r) PROVE Origin'
  <2>1. UNCHANGED <<launch, tape>> /\ kills' = kills + 1 /\ st' = [st EXCEPT ![r] = "killed"]
    BY <1>4 DEF Kill
  <2>2. \A q \in Roles : st'[q] = "killed" \/ st'[q] = st[q] BY <1>a, <2>1
  <2>3. Writing' => Writing BY <1>b, <1>c, <2>1, <2>2 DEF Writing
  <2>4. Untouched => Untouched' BY <1>c, <2>1, <2>2 DEF Untouched
  <2> QED BY <1>d, <2>1, <2>3, <2>4
<1>5. CASE P2Step
  <2>1. st["P2"] \in {"run", "closing"} /\ UNCHANGED <<launch, kills>>
    BY <1>5 DEF P2Step, Record, Reread, SendMask, SendMaskFails, P2Ends, CloseFile, InStep
  <2>2. ~Untouched BY <1>b, <2>1 DEF Untouched
  <2>3. Writing' => Writing BY <1>c, <2>1 DEF Writing
  <2>4. CASE tape' = tape BY <1>d, <2>1, <2>2, <2>3, <2>4
  <2>5. CASE CloseFile /\ tape' # tape
    <3>1. PICK g \in Tapes : buf[g] # <<>> /\ tape' = [tape EXCEPT ![g] = @ \o buf[g]]
      BY <2>5, ClosingFacts DEF CloseFile
    <3>2. tape[g] = <<>> /\ buf[g] \in Seq(Record1) BY <3>1, TypeFacts DEF Disk, DiskOf
    <3>3. <<>> \o buf[g] = buf[g] BY <3>2, ConcatEmptySeq
    <3>4. tape'[g] = buf[g] BY <3>1, <3>2, <3>3 DEF Types
    <3>5. \A f \in Tapes : f # g => tape'[f] = tape[f] BY <3>1 DEF Types
    <3>6. Writing BY <2>5 DEF Writing, CloseFile, Progress
    <3>7. ASSUME NEW f \in Tapes, NEW i \in 1 .. Len(tape'[f]) PROVE tape'[f][i].k[1] = launch
      <4>1. CASE f = g BY <3>4, <3>7, <4>1 DEF Disk, DiskOf
      <4>2. CASE f # g BY <3>5, <3>6, <3>7, <4>2 DEF Origin, Dated
      <4> QED BY <4>1, <4>2
    <3>8. \A n \in (launch + 1) .. launch : FALSE BY <1>a
    <3>9. ASSUME NEW f \in Tapes, NEW i \in 1 .. Len(tape'[f]) PROVE Dated(tape[f][i])'
      BY <2>1, <3>7, <3>8 DEF Dated
    <3> QED BY <3>7, <3>9 DEF Origin
  <2>6. CASE ~CloseFile
    BY <1>5, <2>4, <2>6 DEF P2Step, Record, Reread, SendMask, SendMaskFails, P2Ends, disk
  <2> QED BY <2>4, <2>5, <2>6
<1>6. ASSUME NEW p \in Parties, PartyStep(p) PROVE Origin'
  <2>0. p \in Roles /\ p # "P2" BY PeerFacts
  <2>1. UNCHANGED <<launch, tape, kills>> /\ st[p] = "run"
    BY <1>6 DEF PartyStep, FetchNothing, FetchRecord, FetchPastEnd, FetchMask, Exchange, PartyEnds, IoError,
                disk, InStep
  <2>2. st'["P2"] = st["P2"]
    BY <1>6, <1>a, <1>b, <2>0 DEF PartyStep, FetchNothing, FetchRecord, FetchPastEnd, FetchMask, Exchange,
                                  PartyEnds, IoError
  <2>3. ~Untouched /\ (Writing' => Writing) BY <1>c, <2>0, <2>1, <2>2 DEF Untouched, Writing
  <2> QED BY <1>d, <2>1, <2>3
<1> QED BY <1>1, <1>2, <1>3, <1>4, <1>5, <1>6, NextCases

-----------------------------------------------------------------------------
(* What a replaying party reads                                            *)

\* The record that p reads next, if there is one, is the one for its step; if it
\* has one for that step at all, there is one to be read.
LEMMA NextRecord ==
  ASSUME NEW t \in Seq(Record1), NEW f, NEW l, Holds(t, f, l), NEW n \in Steps, Program[n] = f[1],
         NEW i \in Nat, \A j \in 1 .. Len(t) : j <= i <=> t[j].k[2] <= n - 1
  PROVE  /\ i + 1 <= Len(t) => t[i + 1].k[2] = n
         /\ \A j \in 1 .. Len(t) : t[j].k[2] = n => j = i + 1
         /\ \A j \in 1 .. Len(t) : j <= i => t[j].k[2] <= n
         /\ \A j \in 1 .. Len(t) : j > i + 1 => t[j].k[2] > n
<1>1. \A j \in 1 .. Len(t) : t[j] \in Record1 OBVIOUS
<1>2. \A j \in 1 .. Len(t) : t[j].k[2] \in Nat BY <1>1, RecordFacts
<1>3. n \in Nat /\ Len(t) \in Nat BY ConstantFacts
<1>4. \A j, m \in 1 .. Len(t) : j < m => t[j].k[2] < t[m].k[2] BY DEF Holds
<1>5. \A j \in 1 .. Len(t) : j > i => t[j].k[2] >= n BY <1>2, <1>3
<1>6. ASSUME NEW j \in 1 .. Len(t), t[j].k[2] = n PROVE j = i + 1
  <2>1. j > i BY <1>2, <1>3, <1>6
  <2>2. CASE j > i + 1
    <3>1. i + 1 \in 1 .. Len(t) BY <1>3, <2>2
    <3>2. t[i + 1].k[2] >= n BY <1>5, <3>1
    <3>3. t[i + 1].k[2] < t[j].k[2] BY <1>4, <2>2, <3>1
    <3>4. t[i + 1].k[2] \in Nat BY <1>2, <3>1
    <3> QED BY <1>3, <1>6, <3>2, <3>3, <3>4
  <2> QED BY <1>3, <2>1, <2>2
<1>7. ASSUME i + 1 <= Len(t) PROVE t[i + 1].k[2] = n
  <2>1. i + 1 \in 1 .. Len(t) BY <1>3, <1>7
  <2>2. t[i + 1].k[2] >= n /\ t[i + 1].k[2] \in Nat BY <1>2, <1>5, <2>1
  <2>3. CASE n < t[i + 1].k[2]
    <3>1. PICK j \in 1 .. Len(t) : t[j].k[2] = n BY <2>1, <2>3 DEF Holds
    <3>2. j = i + 1 BY <1>6, <3>1
    <3> QED BY <3>1, <3>2
  <2> QED BY <1>3, <2>2, <2>3
<1>8. \A j \in 1 .. Len(t) : j <= i => t[j].k[2] <= n BY <1>2, <1>3
<1>9. \A j \in 1 .. Len(t) : j > i + 1 => t[j].k[2] > n
  <2> SUFFICES ASSUME NEW j \in 1 .. Len(t), j > i + 1 PROVE t[j].k[2] > n OBVIOUS
  <2>1. j > i BY <1>3
  <2>2. t[j].k[2] >= n /\ t[j].k[2] \in Nat BY <1>2, <1>5, <2>1
  <2>3. t[j].k[2] # n BY <1>3, <1>6
  <2> QED BY <1>3, <2>2, <2>3
<1> QED BY <1>6, <1>7, <1>8, <1>9

\* The records of the other tapes are not for this step.
LEMMA OtherRecords ==
  ASSUME NEW t \in Seq(Record1), NEW f, NEW l, Holds(t, f, l), NEW n \in Steps, Program[n] # f[1],
         NEW i, \A j \in 1 .. Len(t) : j <= i <=> t[j].k[2] <= n - 1
  PROVE  \A j \in 1 .. Len(t) : j <= i <=> t[j].k[2] <= n
<1>1. \A j \in 1 .. Len(t) : t[j] \in Record1 OBVIOUS
<1>2. \A j \in 1 .. Len(t) : t[j].k[2] \in Nat BY <1>1, RecordFacts
<1>3. \A j \in 1 .. Len(t) : t[j].k[2] # n BY DEF Holds
<1>4. n \in Nat BY ConstantFacts
<1>5. \A x \in Nat : x # n => (x <= n <=> x <= n - 1) BY <1>4
<1> QED BY <1>2, <1>3, <1>5

\* A party posts step n with material k, having read up to the records r.
LEMMA ReadingPost ==
  ASSUME Types, Progress, Disk, Mode = "Replay", NEW p \in Parties, ReadingOf(p),
         NEW k, Post(p, k), posted[p] < at[p], at[p] \in Steps, tape' = tape, st' = st, st[p] = "run",
         k # Junk /\ Program[at[p]] \in Taped =>
           \E j \in 1 .. Len(TapeOf(p, Program[at[p]])) :
             k = TapeOf(p, Program[at[p]])[j].k /\ k[2] = at[p],
         \A op \in Taped : \A j \in 1 .. Len(TapeOf(p, op)) :
           j <= rpos'[p][op] <=> TapeOf(p, op)[j].k[2] <= at[p]
  PROVE  ReadingOf(p)'
<1>1. posted[p] \in Nat /\ at[p] \in Nat /\ used[p] \in Seq(Material) BY PeerFacts, TypeFacts
<1>2. Len(used[p]) = posted[p] /\ posted[p] = at[p] - 1 BY <1>1 DEF Progress, Standing
<1>3. posted'[p] = at[p] /\ used'[p] = Append(used[p], k) BY DEF Post, Types
<1>4. /\ Len(used'[p]) = at[p]
      /\ used'[p][at[p]] = k
      /\ \A i \in 1 .. (at[p] - 1) : used'[p][i] = used[p][i]
  BY <1>1, <1>2, <1>3
<1>5. \A op : TapeOf(p, op)' = TapeOf(p, op) BY DEF TapeOf
<1>6. ASSUME NEW i \in 1 .. Len(used'[p]), used'[p][i] # Junk, Program[i] \in Taped
      PROVE  \E j \in 1 .. Len(TapeOf(p, Program[i])) :
               used'[p][i] = TapeOf(p, Program[i])[j].k /\ used'[p][i][2] = i
  <2>1. CASE i = at[p] BY <1>4, <1>6, <2>1
  <2>2. CASE i # at[p]
    <3>1. i \in 1 .. (at[p] - 1) /\ i \in 1 .. Len(used[p]) BY <1>1, <1>2, <1>4, <2>2
    <3>2. used'[p][i] = used[p][i] BY <1>4, <3>1
    <3> QED BY <1>6, <3>1, <3>2 DEF ReadingOf
  <2> QED BY <2>1, <2>2
<1>7. ASSUME NEW op \in Taped, NEW j \in 1 .. Len(TapeOf(p, op))
      PROVE  j <= rpos'[p][op] <=> TapeOf(p, op)[j].k[2] <= posted'[p]
  BY <1>3
<1> QED BY <1>5, <1>6, <1>7 DEF ReadingOf

\* Every step keeps the readers where the tapes and the program meet.
LEMMA ReadingStep ==
  ASSUME Types, Progress, Disk, Reading, [Next]_vars
  PROVE  Reading'
<1>a. st \in [Roles -> Ends] /\ launch \in Nat BY TypeFacts DEF Types
<1>c. launch' = launch => Mode' = Mode BY DEF Mode
\* Nothing that q reads or has read changes, and q is not restarted.
<1>d. ASSUME NEW q \in Parties, ReadingOf(q), tape' = tape, used'[q] = used[q], rpos'[q] = rpos[q],
             posted'[q] = posted[q], st'[q] \in {"boot", "run"} => st[q] \in {"boot", "run"}
      PROVE  ReadingOf(q)'
  BY <1>d DEF ReadingOf, TapeOf
<1>e. ASSUME UNCHANGED <<tape, used, rpos, posted, launch>>,
             \A q \in Parties : st'[q] \in {"boot", "run"} => st[q] \in {"boot", "run"}
      PROVE  Reading'
  BY <1>c, <1>d, <1>e DEF Reading
<1>1. CASE UNCHANGED vars BY <1>1, <1>e DEF vars
<1>2. CASE Relaunch
  <2>1. \A p \in Parties : used'[p] = <<>> /\ posted'[p] = 0 /\ rpos'[p] = [mul |-> 0, and |-> 0]
    BY <1>2 DEF Relaunch, ResetProcesses
  <2>2. tape' = tape BY <1>2 DEF Relaunch
  <2>3. ASSUME NEW p \in Parties PROVE ReadingOf(p)'
    <3>1. Len(used'[p]) = 0 BY <2>1
    <3>2. ASSUME NEW op \in Taped, NEW j \in 1 .. Len(TapeOf(p, op))
          PROVE  j > 0 /\ TapeOf(p, op)[j].k[2] > 0
      <4>1. Holds(TapeOf(p, op), <<op, p>>, launch) BY TapeFacts DEF Disk, DiskOf, TapeOf
      <4>2. TapeOf(p, op)[j].k[2] \in Steps BY <3>2, <4>1 DEF Holds
      <4> QED BY <4>2, ConstantFacts
    <3>3. \A op \in Taped : rpos'[p][op] = 0 BY <2>1 DEF Taped
    <3>4. ASSUME NEW op \in Taped, NEW j \in 1 .. Len(TapeOf(p, op))
          PROVE  ~(j <= 0) /\ ~(TapeOf(p, op)[j].k[2] <= 0)
      <4>1. <<op, p>> \in Tapes BY TapeFacts
      <4>2. TapeOf(p, op) \in Seq(Record1) BY <4>1, TypeFacts DEF TapeOf
      <4>3. TapeOf(p, op)[j] \in Record1 BY <4>2
      <4>4. TapeOf(p, op)[j].k[2] \in Nat BY <4>3, RecordFacts
      <4> QED BY <3>2, <4>4
    <3>5. \A op : TapeOf(p, op)' = TapeOf(p, op) BY <2>2 DEF TapeOf
    <3> QED BY <2>1, <3>1, <3>3, <3>4, <3>5 DEF ReadingOf
  <2> QED BY <2>3 DEF Reading
<1>3. ASSUME NEW r \in Roles, Boot(r) PROVE Reading'
  <2>1. UNCHANGED <<used, rpos, posted, launch>> /\ st[r] = "boot" BY <1>3 DEF Boot
  <2>2. CASE Mode = "Record" BY <1>c, <2>1, <2>2 DEF Reading
  <2>3. CASE Mode = "Replay"
    <3>1. tape' = tape BY <1>3, <2>3 DEF Boot
    <3>2. \A q \in Roles : st'[q] = st[q] \/ st[q] = "boot" BY <1>3, <1>a, <2>1 DEF Boot
    <3> QED BY <1>e, <2>1, <3>1, <3>2, PeerFacts
  <2> QED BY <2>2, <2>3, TypeFacts
<1>4. ASSUME NEW r \in Roles, Kill(r) PROVE Reading'
  <2>1. \A q \in Roles : st'[q] = st[q] \/ st'[q] = "killed" BY <1>4, <1>a DEF Kill
  <2> QED BY <1>4, <1>e, <2>1, PeerFacts DEF Kill, volatile
<1>5. CASE P2Step
  <2>1. UNCHANGED <<used, rpos, posted, launch>>
    BY <1>5 DEF P2Step, Record, Reread, SendMask, SendMaskFails, P2Ends, CloseFile, volatile
  <2>2. Mode = "Replay" => tape' = tape
    BY <1>5 DEF P2Step, Record, Reread, SendMask, SendMaskFails, P2Ends, CloseFile, disk, Progress
  <2>3. \A q \in Parties : st'[q] = st[q]
    BY <1>5, <1>a, PeerFacts DEF P2Step, Record, Reread, SendMask, SendMaskFails, P2Ends, CloseFile
  <2> QED BY <1>c, <1>e, <2>1, <2>2, <2>3 DEF Reading
<1>6. ASSUME NEW p \in Parties, PartyStep(p) PROVE Reading'
  <2>0. p \in Roles /\ \A q \in Parties : q \in Roles BY PeerFacts
  <2>1. UNCHANGED <<launch, tape>> /\ st[p] = "run"
    BY <1>6 DEF PartyStep, FetchNothing, FetchRecord, FetchPastEnd, FetchMask, Exchange, PartyEnds, IoError,
                disk, InStep
  <2>2. SUFFICES ASSUME Mode = "Replay" PROVE Reading'
    BY <1>c, <2>1 DEF Reading
  <2>3. \A q \in Parties : ReadingOf(q) BY <2>2 DEF Reading
  <2>4. ASSUME NEW q \in Parties, q # p PROVE ReadingOf(q)'
    <3>1. used'[q] = used[q] /\ posted'[q] = posted[q]
      BY <1>6, <2>4 DEF PartyStep, FetchNothing, FetchRecord, FetchPastEnd, FetchMask, Exchange, PartyEnds,
                        IoError, volatile, Post, Types
    <3>2. rpos'[q] = rpos[q]
      BY <1>6, <2>4 DEF PartyStep, FetchNothing, FetchRecord, FetchPastEnd, FetchMask, Exchange, PartyEnds,
                        IoError, volatile, Types
    <3>3. st'[q] = st[q]
      BY <1>6, <1>a, <2>0, <2>4 DEF PartyStep, FetchNothing, FetchRecord, FetchPastEnd, FetchMask, Exchange,
                        PartyEnds, IoError
    <3> QED BY <1>d, <2>1, <2>3, <2>4, <3>1, <3>2, <3>3
  <2>5. SUFFICES ReadingOf(p)' BY <2>4 DEF Reading
  \* p stops, or only moves on.
  <2>6. ASSUME UNCHANGED <<used, posted>>, st'[p] \notin {"boot", "run"} PROVE ReadingOf(p)'
    BY <2>1, <2>3, <2>6 DEF ReadingOf, TapeOf
  <2>7. CASE FetchNothing(p) BY <2>2, <2>7 DEF FetchNothing
  <2>8. CASE FetchRecord(p) \/ FetchPastEnd(p) \/ FetchMask(p)
    <3> DEFINE n == at[p]
    <3>1. InStep(p, Taped \cup {"mask"}) /\ posted[p] < n
      BY <2>8 DEF FetchRecord, FetchPastEnd, FetchMask, InStep
    <3>2. n \in Steps /\ n \in Nat /\ Op(p) = Program[n] BY <2>0, <3>1, InStepFacts
    <3>3. posted[p] = n - 1
      <4>1. posted[p] \in {n - 1, n} /\ posted[p] \in Nat BY TypeFacts DEF Progress, Standing
      <4> QED BY <3>1, <3>2, <4>1
    <3> HIDE DEF n
    <3>4. ASSUME NEW op \in Taped
          PROVE  /\ TapeOf(p, op) \in Seq(Record1) /\ Holds(TapeOf(p, op), <<op, p>>, launch)
                 /\ <<op, p>>[1] = op /\ rpos[p][op] \in Nat
                 /\ \A j \in 1 .. Len(TapeOf(p, op)) : j <= rpos[p][op] <=> TapeOf(p, op)[j].k[2] <= n - 1
      <4>1. <<op, p>> \in Tapes /\ <<op, p>>[1] = op BY TapeFacts
      <4>2. TapeOf(p, op) \in Seq(Record1) /\ rpos[p] \in Counters BY <4>1, TypeFacts DEF TapeOf
      <4>3. Holds(TapeOf(p, op), <<op, p>>, launch) BY <4>1 DEF Disk, DiskOf, TapeOf
      <4>4. rpos[p][op] \in Nat BY <4>2, CounterFacts
      <4>5. \A j \in 1 .. Len(TapeOf(p, op)) : j <= rpos[p][op] <=> TapeOf(p, op)[j].k[2] <= n - 1
        BY <2>1, <2>3, <3>3 DEF ReadingOf
      <4> QED BY <4>1, <4>2, <4>3, <4>4, <4>5
    <3>5. ASSUME NEW op \in Taped, op # Program[n]
          PROVE  \A j \in 1 .. Len(TapeOf(p, op)) : j <= rpos[p][op] <=> TapeOf(p, op)[j].k[2] <= n
      BY <3>2, <3>4, <3>5, OtherRecords, ZenonT(60)
    <3>6. CASE FetchMask(p)
      <4>1. Program[n] = "mask" BY <2>0, <3>6, InStepFacts DEF FetchMask, n
      <4>2. "mask" \notin Taped BY DEF Taped
      <4>3. rpos' = rpos /\ st' = st /\ Post(p, <<launch, at[p], p>>) BY <3>6 DEF FetchMask
      <4>4. \A op \in Taped : \A j \in 1 .. Len(TapeOf(p, op)) :
              j <= rpos'[p][op] <=> TapeOf(p, op)[j].k[2] <= at[p]
        BY <3>5, <4>1, <4>2, <4>3 DEF n
      <4> QED BY <2>1, <2>2, <2>3, <3>1, <3>2, <4>1, <4>2, <4>3, <4>4, ReadingPost DEF n
    <3>7. ASSUME FetchRecord(p) \/ FetchPastEnd(p) PROVE ReadingOf(p)'
      <4> DEFINE op == Program[n]
                 t == TapeOf(p, op)
                 i == rpos[p][op]
      <4>1. op \in Taped BY <2>0, <3>7, InStepFacts DEF FetchRecord, FetchPastEnd, n
      <4>a. /\ t \in Seq(Record1) /\ Holds(t, <<op, p>>, launch)
            /\ <<op, p>>[1] = op /\ i \in Nat
            /\ \A j \in 1 .. Len(t) : j <= i <=> t[j].k[2] <= n - 1
        <5> HIDE DEF op
        <5> QED BY <3>4, <4>1
      <4>2. /\ i + 1 <= Len(t) => t[i + 1].k[2] = n
            /\ \A j \in 1 .. Len(t) : t[j].k[2] = n => j = i + 1
            /\ \A j \in 1 .. Len(t) : j <= i => t[j].k[2] <= n
            /\ \A j \in 1 .. Len(t) : j > i + 1 => t[j].k[2] > n
        <5>1. Program[n] = op OBVIOUS
        <5> HIDE DEF op, t, i
        <5> QED BY <3>2, <4>a, <5>1, NextRecord
      <4>3. t \in Seq(Record1) /\ i \in Nat /\ Len(t) \in Nat
        <5> HIDE DEF t
        <5> QED BY <4>a
      <4>4. \A j \in 1 .. Len(t) : t[j] \in Record1 BY <4>3
      <4>5. \A j \in 1 .. Len(t) : t[j].k[2] \in Nat BY <4>4, RecordFacts
      <4>6. CASE FetchRecord(p)
        <5>1. /\ i + 1 <= Len(t) /\ rpos' = [rpos EXCEPT ![p] = [rpos[p] EXCEPT ![op] = i + 1]]
              /\ \/ Post(p, t[i + 1].k) /\ st' = st
                 \/ st' = [st EXCEPT ![p] = "threw"] /\ UNCHANGED <<used, posted>>
          BY <3>2, <4>6 DEF FetchRecord
        <5>2. CASE st' = [st EXCEPT ![p] = "threw"] /\ UNCHANGED <<used, posted>>
          BY <1>a, <2>0, <2>6, <5>2
        <5>3. CASE Post(p, t[i + 1].k) /\ st' = st
          <6>1. rpos[p] \in Counters /\ rpos'[p] = [rpos[p] EXCEPT ![op] = i + 1]
            BY <5>1, TypeFacts DEF Types
          <6> HIDE DEF op, t, i
          <6>2. \A o \in Taped : rpos'[p][o] = IF o = op THEN i + 1 ELSE rpos[p][o]
            BY <4>1, <6>1 DEF Counters, Taped
          <6>3. i + 1 \in 1 .. Len(t) BY <4>3, <5>1
          <6>4. t[i + 1].k[2] = n BY <4>2, <5>1
          <6>5. ASSUME NEW j \in 1 .. Len(t) PROVE j <= i + 1 <=> t[j].k[2] <= n
            <7>1. CASE j <= i BY <4>2, <4>3, <7>1
            <7>2. CASE j = i + 1 BY <3>2, <6>4, <7>2
            <7>3. CASE j > i + 1
              <8>1. t[j].k[2] > n /\ t[j].k[2] \in Nat BY <4>2, <4>5, <7>3
              <8> QED BY <3>2, <4>3, <7>3, <8>1
            <7> QED BY <4>3, <7>1, <7>2, <7>3
          <6>6. ASSUME NEW o \in Taped, NEW j \in 1 .. Len(TapeOf(p, o))
                PROVE  j <= rpos'[p][o] <=> TapeOf(p, o)[j].k[2] <= n
            <7>1. CASE o = op BY <6>2, <6>5, <7>1 DEF t
            <7>2. CASE o # op BY <3>5, <6>2, <7>2 DEF op
            <7> QED BY <7>1, <7>2
          <6>7. \E j \in 1 .. Len(TapeOf(p, Program[n])) :
                  t[i + 1].k = TapeOf(p, Program[n])[j].k /\ t[i + 1].k[2] = n
            BY <6>3, <6>4 DEF t, op
          <6> QED BY <2>1, <2>2, <2>3, <3>1, <3>2, <5>3, <6>6, <6>7, ReadingPost DEF n
        <5> QED BY <5>1, <5>2, <5>3
      <4>7. CASE FetchPastEnd(p)
        <5>1. /\ i >= Len(t) /\ rpos' = rpos
              /\ \/ Post(p, Junk) /\ st' = st
                 \/ st' = [st EXCEPT ![p] = "threw"] /\ UNCHANGED <<used, posted>>
          BY <3>2, <4>7 DEF FetchPastEnd
        <5>2. CASE st' = [st EXCEPT ![p] = "threw"] /\ UNCHANGED <<used, posted>>
          BY <1>a, <2>0, <2>6, <5>2
        <5>3. CASE Post(p, Junk) /\ st' = st
          <6> HIDE DEF op, t, i
          <6>1. \A j \in 1 .. Len(t) : j <= i /\ t[j].k[2] <= n BY <4>2, <4>3, <5>1
          <6>2. ASSUME NEW o \in Taped, NEW j \in 1 .. Len(TapeOf(p, o))
                PROVE  j <= rpos'[p][o] <=> TapeOf(p, o)[j].k[2] <= n
            <7>1. CASE o = op BY <5>1, <6>1, <7>1 DEF t, i
            <7>2. CASE o # op BY <3>5, <5>1, <7>2 DEF op
            <7> QED BY <7>1, <7>2
          <6> QED BY <2>1, <2>2, <2>3, <3>1, <3>2, <5>3, <6>2, ReadingPost DEF n
        <5> QED BY <5>1, <5>2, <5>3
      <4> QED BY <3>7, <4>6, <4>7
    <3> QED BY <2>8, <3>6, <3>7
  <2>9. CASE Exchange(p) BY <1>d, <2>1, <2>3, <2>9 DEF Exchange
  <2>10. CASE PartyEnds(p)
    BY <1>a, <2>0, <2>6, <2>10 DEF PartyEnds, volatile
  <2>11. CASE IoError(p) BY <1>a, <2>0, <2>6, <2>11 DEF IoError, volatile
  <2> QED BY <1>6, <2>7, <2>8, <2>9, <2>10, <2>11 DEF PartyStep
<1> QED BY <1>1, <1>2, <1>3, <1>4, <1>5, <1>6, NextCases

-----------------------------------------------------------------------------
(* p2.rand, and what P2 closes                                             *)

\* The tape of mpc_mul that P0 reads.
LEMMA Mul0Facts == Mul0 \in Tapes /\ Mul0[1] = "mul" /\ "mul" \in Taped
  BY DEF Mul0, Tapes, Taped, Parties

\* Tapes and buffers have a length.
LEMMA LenFacts ==
  ASSUME Types, NEW f \in Tapes
  PROVE  Len(tape[f]) \in Nat /\ Len(buf[f]) \in Nat
  BY TypeFacts

\* Every step keeps four values in p2.rand for each recorded mpc_mul.
LEMMA RandStep ==
  ASSUME Types, Progress, Disk, RandOK, [Next]_vars
  PROVE  RandOK'
<1>a. st \in [Roles -> Ends] /\ rand \in Rand BY DEF Types
<1>b. "P2" \in Roles /\ Mul0 \in Tapes /\ Mul0[1] = "mul" BY TapeFacts, Mul0Facts
<1>c. launch' = launch => Mode' = Mode BY DEF Mode
<1>d. /\ rand.disk \in Nat /\ rand.buf \in Nat /\ rand.read \in Nat
      /\ Len(tape[Mul0]) \in Nat /\ Len(buf[Mul0]) \in Nat
  BY <1>b, TypeFacts, LenFacts
<1>e. ASSUME UNCHANGED <<launch, rand>>, Len(buf'[Mul0]) = Len(buf[Mul0]), st'["P2"] = st["P2"],
             Len(tape'[Mul0]) = Len(tape[Mul0]) \/ Len(tape'[Mul0]) = 0
      PROVE  RandOK'
  <2>1. Writing' <=> Writing BY <1>c, <1>e DEF Writing
  <2>2. 4 * 0 <= rand.buf BY <1>d
  <2> QED BY <1>c, <1>e, <2>1, <2>2 DEF RandOK
<1>1. CASE UNCHANGED vars BY <1>1, <1>e DEF vars
<1>2. CASE Relaunch
  <2>1. rand'.disk = rand.disk /\ rand'.buf = rand.buf /\ rand'.read = 0
    BY <1>2, <1>a DEF Relaunch, Rand
  <2>2. ~Writing /\ ~Writing' BY <1>2, <1>b DEF Relaunch, Writing, Live
  <2> QED BY <1>d, <2>1, <2>2 DEF RandOK
<1>3. ASSUME NEW r \in Roles, Boot(r) PROVE RandOK'
  <2>1. launch' = launch /\ buf' = buf /\ st[r] = "boot" BY <1>3 DEF Boot
  <2>2. CASE r = "P2"
    <3>1. ~Writing BY <2>1, <2>2 DEF Writing
    <3>2. rand.buf = 0 /\ Len(buf[Mul0]) = 0 BY <1>b, <3>1 DEF RandOK, Disk, DiskOf
    <3>3. CASE Mode = "Record"
      <4>1. tape'[Mul0] = <<>> BY <1>3, <1>b, <2>2, <3>3 DEF Boot, Truncated
      <4>2. rand'.disk = 0 /\ rand'.buf = rand.buf /\ rand'.read = rand.read
        BY <1>3, <1>a, <2>2, <3>3 DEF Boot, Rand
      <4>3. rand.read = 0 BY <3>3 DEF RandOK
      <4>4. Len(tape'[Mul0]) = 0 /\ Len(buf'[Mul0]) = 0 BY <2>1, <3>2, <4>1
      <4> QED BY <3>2, <4>2, <4>3, <4>4 DEF RandOK
    <3>4. CASE Mode = "Replay"
      <4>1. rand' = rand BY <1>3, <3>4 DEF Boot
      <4>2. ~Writing' BY <1>c, <2>1, <3>4 DEF Writing
      <4> QED BY <1>c, <2>1, <3>2, <3>4, <4>1, <4>2 DEF RandOK
    <3> QED BY <3>3, <3>4, TypeFacts
  <2>3. CASE r # "P2"
    <3>1. rand' = rand /\ st'["P2"] = st["P2"] BY <1>3, <1>a, <1>b, <2>3 DEF Boot
    <3>2. tape' = tape \/ tape' = [f \in Tapes |-> <<>>] BY <1>3 DEF Boot, Truncated
    <3>3. Len(tape'[Mul0]) = Len(tape[Mul0]) \/ Len(tape'[Mul0]) = 0 BY <1>b, <3>2
    <3> QED BY <1>e, <2>1, <3>1, <3>3
  <2> QED BY <2>2, <2>3
<1>4. ASSUME NEW r \in Roles, Kill(r) PROVE RandOK'
  <2>1. launch' = launch /\ tape' = tape BY <1>4 DEF Kill
  <2>2. CASE r = "P2"
    <3>1. rand'.disk = rand.disk /\ rand'.buf = 0 /\ rand'.read = rand.read
      BY <1>4, <1>a, <2>2 DEF Kill, Rand
    <3>2. ~Writing' BY <1>4, <1>a, <1>b, <2>2 DEF Kill, Writing
    <3> QED BY <1>c, <2>1, <3>1, <3>2 DEF RandOK
  <2>3. CASE r # "P2"
    <3>1. rand' = rand /\ buf' = buf /\ st'["P2"] = st["P2"] BY <1>4, <1>a, <1>b, <2>3 DEF Kill
    <3> QED BY <1>e, <2>1, <3>1
  <2> QED BY <2>2, <2>3
<1>5. CASE P2Step
  <2>1. CASE Record
    <3>1. launch' = launch /\ st' = st /\ tape' = tape /\ Writing
      BY <2>1 DEF Record, InStep, Writing
    <3>2. rand'.disk = rand.disk /\ rand'.buf = rand.buf + 4 /\ rand'.read = rand.read
      BY <2>1, <1>a DEF Record, Rand
    <3>3. Len(buf'[Mul0]) = Len(buf[Mul0]) \/ Len(buf'[Mul0]) = Len(buf[Mul0]) + 1
      <4>1. \E e : buf'[Mul0] = buf[Mul0] \/ buf'[Mul0] = Append(buf[Mul0], e)
        BY <1>b, <2>1 DEF Record
      <4>2. buf[Mul0] \in Seq(Record1) BY <1>b, TypeFacts
      <4> QED BY <4>1, <4>2
    <3>4. 4 * Len(buf[Mul0]) <= rand.buf /\ 4 * Len(tape[Mul0]) <= rand.buf BY <3>1 DEF RandOK
    <3>5. 4 * Len(buf'[Mul0]) <= rand.buf + 4 /\ 4 * Len(tape[Mul0]) <= rand.buf + 4
      BY <1>d, <3>3, <3>4
    <3>6. Writing' BY <1>c, <3>1 DEF Writing
    <3> QED BY <1>c, <3>1, <3>2, <3>5, <3>6 DEF RandOK
  <2>2. CASE Reread
    <3>1. Mode = "Replay" /\ launch' = launch BY <2>2 DEF Reread
    <3>2. rand' = rand \/ (rand' = [rand EXCEPT !.read = @ + 4] /\ rand.read + 4 <= rand.disk)
      BY <2>2 DEF Reread
    <3>3. rand'.read <= rand'.disk /\ rand'.buf = rand.buf BY <1>a, <3>2 DEF Rand, RandOK
    <3>4. ~Writing /\ ~Writing' /\ Mode' # "Record" BY <1>c, <3>1 DEF Writing
    <3> QED BY <3>3, <3>4 DEF RandOK
  <2>3. CASE SendMask BY <1>e, <2>3 DEF SendMask, disk
  <2>4. CASE P2Ends \/ SendMaskFails
    <3>1. launch' = launch /\ rand' = rand /\ buf' = buf /\ tape' = tape /\ st["P2"] = "run"
      BY <2>4 DEF P2Ends, SendMaskFails, InStep, disk
    <3>2. Writing' <=> Writing BY <1>a, <1>b, <1>c, <2>4, <3>1 DEF P2Ends, SendMaskFails, Writing
    <3> QED BY <1>c, <3>1, <3>2 DEF RandOK
  <2>5. CASE CloseFile
    <3>1. launch' = launch /\ Mode = "Record" /\ Writing
      BY <2>5 DEF CloseFile, Progress, Writing
    <3>2. rand.read = 0 /\ 4 * Len(buf[Mul0]) <= rand.buf /\ 4 * Len(tape[Mul0]) <= rand.buf
      BY <3>1 DEF RandOK
    <3>3. CASE \E g \in Tapes : /\ buf[g] # <<>> /\ st' = st /\ rand' = rand
                               /\ tape' = [tape EXCEPT ![g] = @ \o buf[g]]
                               /\ buf' = [buf EXCEPT ![g] = <<>>]
      <4>1. PICK g \in Tapes : /\ buf[g] # <<>> /\ st' = st /\ rand' = rand
                               /\ tape' = [tape EXCEPT ![g] = @ \o buf[g]]
                               /\ buf' = [buf EXCEPT ![g] = <<>>]
        BY <3>3
      <4>2. tape[g] = <<>> /\ buf[g] \in Seq(Record1) BY <4>1, TypeFacts DEF Disk, DiskOf
      <4>3. <<>> \o buf[g] = buf[g] BY <4>2, ConcatEmptySeq
      <4>4. CASE g = Mul0
        <5>1. tape'[Mul0] = buf[Mul0] /\ buf'[Mul0] = <<>> BY <4>1, <4>2, <4>3, <4>4 DEF Types
        <5>2. Len(buf'[Mul0]) = 0 BY <5>1
        <5>3. Len(tape'[Mul0]) = Len(buf[Mul0]) BY <5>1
        <5>4. 4 * Len(buf'[Mul0]) <= rand.buf BY <1>d, <5>2
        <5>5. Writing' BY <1>c, <3>1, <4>1 DEF Writing
        <5>6. rand.read <= rand.disk BY DEF RandOK
        <5> QED BY <3>2, <4>1, <5>3, <5>4, <5>5, <5>6 DEF RandOK
      <4>5. CASE g # Mul0
        <5>1. tape'[Mul0] = tape[Mul0] /\ buf'[Mul0] = buf[Mul0] BY <1>b, <4>1, <4>5 DEF Types
        <5> QED BY <1>e, <3>1, <4>1, <5>1
      <4> QED BY <4>4, <4>5
    <3>4. CASE /\ rand' = [rand EXCEPT !.disk = @ + rand.buf, !.buf = 0]
               /\ \E e \in {"done", "threw"} : st' = [st EXCEPT !["P2"] = e]
      <4>1. rand'.disk = rand.disk + rand.buf /\ rand'.buf = 0 /\ rand'.read = rand.read
        BY <1>a, <3>4 DEF Rand
      <4>2. ~Writing' BY <1>a, <1>b, <3>4 DEF Writing
      <4>3. rand.read <= rand.disk + rand.buf BY <1>d, <3>2
      <4> QED BY <3>2, <4>1, <4>2, <4>3 DEF RandOK
    <3> QED BY <2>5, <3>3, <3>4, ClosingFacts DEF CloseFile
  <2> QED BY <1>5, <2>1, <2>2, <2>3, <2>4, <2>5 DEF P2Step
<1>6. ASSUME NEW p \in Parties, PartyStep(p) PROVE RandOK'
  <2>0. p \in Roles /\ p # "P2" BY PeerFacts
  <2>1. UNCHANGED <<launch, tape, buf, rand>>
    BY <1>6 DEF PartyStep, FetchNothing, FetchRecord, FetchPastEnd, FetchMask, Exchange, PartyEnds, IoError, disk
  <2>2. st'["P2"] = st["P2"]
    BY <1>6, <1>a, <1>b, <2>0 DEF PartyStep, FetchNothing, FetchRecord, FetchPastEnd, FetchMask, Exchange,
                                  PartyEnds, IoError
  <2> QED BY <1>e, <2>1, <2>2
<1> QED BY <1>1, <1>2, <1>3, <1>4, <1>5, <1>6, NextCases

\* If nothing covers the steps then there are none to be covered.
LEMMA CoversNothing ==
  ASSUME NEW f, NEW n, Covers(<<>>, f, n), NEW s
  PROVE  Covers(s, f, n)
<1>1. \A i \in 1 .. Len(<<>>) : FALSE OBVIOUS
<1> QED BY <1>1 DEF Covers

\* A P2 that comes to the end of its program leaves complete tapes, unless it is
\* killed while it closes them or a program opens them afterwards.
LEMMA ClosesStep ==
  ASSUME Types, Progress, Disk, RandOK, Closes, [Next]_vars
  PROVE  Closes'
<1>a. st \in [Roles -> Ends] /\ rand \in Rand BY DEF Types
<1>b. "P2" \in Roles /\ Mul0 \in Tapes BY TapeFacts, Mul0Facts
<1>c. launch' = launch => Mode' = Mode BY DEF Mode
<1>d. /\ rand.disk \in Nat /\ rand.buf \in Nat
      /\ Len(tape[Mul0]) \in Nat /\ Len(buf[Mul0]) \in Nat
  BY <1>b, TypeFacts, LenFacts
<1>e. ASSUME UNCHANGED <<launch, tape, buf, rand, sealed>>, st'["P2"] = st["P2"] PROVE Closes'
  <2>1. Writing' <=> Writing BY <1>c, <1>e DEF Writing
  <2> QED BY <1>e, <2>1 DEF Closes, Complete
<1>f. ASSUME sealed' = FALSE PROVE Closes' BY <1>f DEF Closes
\* P2 does not write, before or after.
<1>g. ASSUME UNCHANGED <<tape, sealed>>, rand'.disk = rand.disk, ~Writing, ~Writing' PROVE Closes'
  BY <1>g DEF Closes, Complete
\* While P2 records there is no recording to be relied on.
<1>h. ASSUME st["P2"] = "run", Mode = "Record" PROVE ~sealed BY <1>h DEF Closes, Writing
<1>1. CASE UNCHANGED vars BY <1>1, <1>e DEF vars
<1>2. CASE Relaunch
  <2>1. tape' = tape /\ sealed' = sealed /\ rand' = [rand EXCEPT !.read = 0] BY <1>2 DEF Relaunch
  <2>2. ~Writing /\ ~Writing' BY <1>2, <1>b DEF Relaunch, Writing, Live
  <2>3. rand'.disk = rand.disk BY <1>a, <2>1 DEF Rand
  <2> QED BY <1>g, <2>1, <2>2, <2>3
<1>3. ASSUME NEW r \in Roles, Boot(r) PROVE Closes'
  <2>1. CASE Mode = "Record" BY <1>3, <1>f, <2>1 DEF Boot
  <2>2. CASE Mode = "Replay"
    <3>1. UNCHANGED <<tape, rand, sealed, launch>> BY <1>3, <2>2 DEF Boot
    <3>2. ~Writing /\ ~Writing' BY <1>c, <2>2, <3>1 DEF Writing
    <3> QED BY <1>g, <3>1, <3>2
  <2> QED BY <2>1, <2>2, TypeFacts
<1>4. ASSUME NEW r \in Roles, Kill(r) PROVE Closes'
  <2>1. CASE r = "P2"
    <3>1. /\ launch' = launch /\ tape' = tape /\ rand' = [rand EXCEPT !.buf = 0]
          /\ sealed' = (sealed /\ st["P2"] # "closing")
      BY <1>4, <2>1 DEF Kill
    <3>2. rand'.disk = rand.disk BY <1>a, <3>1 DEF Rand
    <3>3. ~Writing' BY <1>4, <1>a, <1>b, <2>1 DEF Kill, Writing
    <3>4. CASE st["P2"] = "closing" BY <1>f, <3>1, <3>4
    <3>5. CASE st["P2"] # "closing" /\ Writing
      <4>1. ~sealed BY <1>h, <3>5 DEF Writing
      <4> QED BY <3>1, <4>1 DEF Closes
    <3>6. CASE st["P2"] # "closing" /\ ~Writing
      BY <3>1, <3>2, <3>3, <3>6 DEF Closes, Complete
    <3> QED BY <3>4, <3>5, <3>6
  <2>2. CASE r # "P2"
    <3>1. UNCHANGED <<launch, tape, buf, rand>> /\ sealed' = (sealed /\ TRUE)
      BY <1>4, <2>2 DEF Kill
    <3>2. st'["P2"] = st["P2"] BY <1>4, <1>a, <1>b, <2>2 DEF Kill
    <3>3. sealed' = sealed BY <3>1 DEF Types
    <3> QED BY <1>e, <3>1, <3>2, <3>3
  <2> QED BY <2>1, <2>2
<1>5. CASE P2Step
  <2>1. CASE Mode = "Replay"
    <3>1. UNCHANGED <<launch, tape>> /\ (rand' = rand \/ rand' = [rand EXCEPT !.read = @ + 4])
      BY <1>5, <2>1 DEF P2Step, Record, Reread, SendMask, SendMaskFails, P2Ends, CloseFile, disk, Progress
    <3>2. sealed' = sealed \/ sealed' = (sealed \/ Mode = "Record")
      BY <1>5 DEF P2Step, Record, Reread, SendMask, SendMaskFails, P2Ends, CloseFile
    <3>3. sealed' = sealed BY <2>1, <3>2 DEF Types
    <3>4. rand'.disk = rand.disk BY <1>a, <3>1 DEF Rand
    <3>5. ~Writing /\ ~Writing' BY <1>c, <2>1, <3>1 DEF Writing
    <3> QED BY <1>g, <3>1, <3>3, <3>4, <3>5
  <2>2. CASE Mode = "Record" /\ (Record \/ SendMask \/ SendMaskFails)
    <3>1. st["P2"] = "run" /\ sealed' = sealed BY <2>2 DEF Record, SendMask, SendMaskFails, InStep
    <3>2. ~sealed BY <1>h, <2>2, <3>1
    <3> QED BY <3>1, <3>2 DEF Closes
  <2>3. CASE Mode = "Record" /\ P2Ends
    <3>1. launch' = launch /\ buf' = buf /\ st["P2"] = "run" /\ at["P2"] = Len(Program) + 1
      BY <2>3 DEF P2Ends, disk
    <3>2. st'["P2"] = "closing" BY <1>a, <1>b, <2>3 DEF P2Ends
    <3>3. \A f \in Tapes : Covers(buf[f], f, Len(Program) + 1)
      BY <2>3, <3>1 DEF Disk, DiskOf, Writing
    <3>4. Writing' BY <1>c, <2>3, <3>1, <3>2 DEF Writing
    <3> QED BY <3>1, <3>2, <3>3, <3>4 DEF Closes
  <2>4. CASE CloseFile
    <3>1. launch' = launch /\ sealed' = sealed /\ Mode = "Record" /\ st["P2"] = "closing" /\ Writing
      BY <2>4 DEF CloseFile, Progress, Writing
    <3>2. SUFFICES ASSUME sealed PROVE Closes' BY <3>1 DEF Closes
    <3>3. \A f \in Tapes : Covers(tape[f], f, Len(Program) + 1) \/ Covers(buf[f], f, Len(Program) + 1)
      BY <3>1, <3>2 DEF Closes
    <3>4. CASE \E g \in Tapes : /\ buf[g] # <<>> /\ st' = st
                               /\ tape' = [tape EXCEPT ![g] = @ \o buf[g]]
                               /\ buf' = [buf EXCEPT ![g] = <<>>]
      <4>1. PICK g \in Tapes : /\ buf[g] # <<>> /\ st' = st
                               /\ tape' = [tape EXCEPT ![g] = @ \o buf[g]]
                               /\ buf' = [buf EXCEPT ![g] = <<>>]
        BY <3>4
      <4>2. tape[g] = <<>> /\ buf[g] \in Seq(Record1) BY <4>1, TypeFacts DEF Disk, DiskOf
      <4>3. <<>> \o buf[g] = buf[g] BY <4>2, ConcatEmptySeq
      <4>4. tape'[g] = buf[g] BY <4>1, <4>2, <4>3 DEF Types
      <4>5. \A f \in Tapes : f # g => tape'[f] = tape[f] /\ buf'[f] = buf[f] BY <4>1 DEF Types
      <4>6. Covers(buf[g], g, Len(Program) + 1) BY <3>3, <4>2, CoversNothing
      <4>7. \A f \in Tapes : Covers(tape'[f], f, Len(Program) + 1) \/ Covers(buf'[f], f, Len(Program) + 1)
        BY <3>3, <4>4, <4>5, <4>6
      <4>8. st'["P2"] = "closing" /\ Writing' BY <1>c, <3>1, <4>1 DEF Writing
      <4> QED BY <4>7, <4>8 DEF Closes
    <3>5. CASE /\ \A f \in Tapes : buf[f] = <<>>
               /\ rand' = [rand EXCEPT !.disk = @ + rand.buf, !.buf = 0]
               /\ \E e \in {"done", "threw"} : st' = [st EXCEPT !["P2"] = e]
               /\ tape' = tape
      <4>1. rand'.disk = rand.disk + rand.buf BY <1>a, <3>5 DEF Rand
      <4>2. 4 * Len(tape[Mul0]) <= rand.buf BY <3>1 DEF RandOK
      <4>3. 4 * Len(tape[Mul0]) <= rand.disk + rand.buf BY <1>d, <4>2
      <4>4. ASSUME NEW f \in Tapes PROVE Covers(tape[f], f, Len(Program) + 1)
        BY <3>3, <3>5, CoversNothing
      <4>5. Complete' BY <3>5, <4>1, <4>3, <4>4 DEF Complete
      <4>6. ~Writing' BY <1>a, <1>b, <3>5 DEF Writing
      <4> QED BY <4>5, <4>6 DEF Closes
    <3> QED BY <2>4, <3>4, <3>5, ClosingFacts DEF CloseFile
  <2>5. CASE Mode = "Record" /\ Reread BY <2>5 DEF Reread
  <2> QED BY <1>5, <2>1, <2>2, <2>3, <2>4, <2>5, TypeFacts DEF P2Step
<1>6. ASSUME NEW p \in Parties, PartyStep(p) PROVE Closes'
  <2>0. p \in Roles /\ p # "P2" BY PeerFacts
  <2>1. UNCHANGED <<launch, tape, buf, rand, sealed>>
    BY <1>6 DEF PartyStep, FetchNothing, FetchRecord, FetchPastEnd, FetchMask, Exchange, PartyEnds, IoError, disk
  <2>2. st'["P2"] = st["P2"]
    BY <1>6, <1>a, <1>b, <2>0 DEF PartyStep, FetchNothing, FetchRecord, FetchPastEnd, FetchMask, Exchange,
                                  PartyEnds, IoError
  <2> QED BY <1>e, <2>1, <2>2
<1> QED BY <1>1, <1>2, <1>3, <1>4, <1>5, <1>6, NextCases

-----------------------------------------------------------------------------
(* The replay of a complete recording                                      *)

\* A counter that is off stays off: it is advanced with the position in the tape.
LEMMA OffStays ==
  ASSUME NEW q \in Parties, Off(q), tape' = tape, st'[q] # "boot",
         \A op \in Taped : ctr'[q][op] - rpos'[q][op] = ctr[q][op] - rpos[q][op]
  PROVE  Off(q)'
  BY DEF Off, CountersAgree, TapeOf

\* The records up to P2's step, after it.
LEMMA RereadOn ==
  ASSUME Types, Disk, Complete, NEW m \in Nat, at["P2"] \in Steps,
         \A j \in 1 .. Len(tape[Mul0]) : j <= m <=> tape[Mul0][j].k[2] <= at["P2"] - 1
  PROVE  /\ Program[at["P2"]] = "mul" =>
              /\ m + 1 <= Len(tape[Mul0])
              /\ \A j \in 1 .. Len(tape[Mul0]) : j <= m + 1 <=> tape[Mul0][j].k[2] <= at["P2"]
         /\ Program[at["P2"]] # "mul" =>
              \A j \in 1 .. Len(tape[Mul0]) : j <= m <=> tape[Mul0][j].k[2] <= at["P2"]
<1> DEFINE t == tape[Mul0]
           n == at["P2"]
<1>1. Mul0 \in Tapes /\ Mul0[1] = "mul" BY Mul0Facts
<1>2. t \in Seq(Record1) /\ Holds(t, Mul0, launch) BY <1>1, TypeFacts DEF Disk, DiskOf
<1>3. n \in Nat /\ Len(Program) \in Nat /\ n < Len(Program) + 1 BY ConstantFacts
<1>4. Covers(t, Mul0, Len(Program) + 1) BY <1>1 DEF Complete
<1>5. Len(t) \in Nat BY <1>2
<1>6. \A j \in 1 .. Len(t) : j <= m <=> t[j].k[2] <= n - 1 OBVIOUS
<1>7. \A j \in 1 .. Len(t) : t[j].k[2] \in Nat BY <1>2, RecordFacts
<1>8. n \in Steps OBVIOUS
<1> HIDE DEF t, n
<1>9. CASE Program[n] = "mul"
  <2>1. PICK j \in 1 .. Len(t) : t[j].k[2] = n BY <1>1, <1>3, <1>4, <1>8, <1>9 DEF Covers
  <2>2. /\ m + 1 <= Len(t) => t[m + 1].k[2] = n
        /\ \A i \in 1 .. Len(t) : t[i].k[2] = n => i = m + 1
        /\ \A i \in 1 .. Len(t) : i <= m => t[i].k[2] <= n
        /\ \A i \in 1 .. Len(t) : i > m + 1 => t[i].k[2] > n
    BY <1>1, <1>2, <1>6, <1>8, <1>9, NextRecord
  <2>3. j = m + 1 BY <2>1, <2>2
  <2>4. m + 1 <= Len(t) BY <1>5, <2>1, <2>3
  <2>5. ASSUME NEW i \in 1 .. Len(t) PROVE i <= m + 1 <=> t[i].k[2] <= n
    <3>1. CASE i <= m BY <2>2, <3>1
    <3>2. CASE i = m + 1 BY <1>3, <2>2, <2>4, <3>2
    <3>3. CASE i > m + 1
      <4>1. t[i].k[2] > n /\ t[i].k[2] \in Nat BY <1>7, <2>2, <3>3
      <4> QED BY <1>3, <3>3, <4>1
    <3> QED BY <1>5, <3>1, <3>2, <3>3
  <2> QED BY <1>9, <2>4, <2>5 DEF t, n
<1>10. CASE Program[n] # "mul"
  <2>1. \A j \in 1 .. Len(t) : j <= m <=> t[j].k[2] <= n
    BY <1>1, <1>2, <1>6, <1>8, <1>10, OtherRecords
  <2> QED BY <1>10, <2>1 DEF t, n
<1> QED BY <1>9, <1>10

\* Every step of a replay of a complete recording finds what it reads.
LEMMA ReplayingStep ==
  ASSUME ReplayInv, [Next]_vars
  PROVE  Replaying'
<1>a. Types /\ Progress /\ Disk /\ Reading /\ Closes /\ Replaying
  BY DEF ReplayInv, TapeInv
<1>b. st \in [Roles -> Ends] /\ rand \in Rand /\ at \in [Roles -> Places] /\ launch \in Nat /\ kills \in Nat
  BY <1>a, TypeFacts DEF Types
<1>c. "P2" \in Roles /\ Mul0 \in Tapes /\ \A p \in Parties : p \in Roles /\ p # "P2"
  BY TapeFacts, PeerFacts, Mul0Facts
<1>d. launch' = launch => Mode' = Mode BY DEF Mode
<1>e. ASSUME UNCHANGED <<launch, sealed, made>>, Good'
      PROVE  Good /\ Complete /\ P2Rereads /\ \A p \in Parties : Replays(p)
  <2>1. Good BY <1>d, <1>e DEF Good
  <2> QED BY <1>a, <2>1 DEF Replaying
\* P2 does nothing.
<1>f. ASSUME UNCHANGED <<tape, rand>>, at'["P2"] = at["P2"], st'["P2"] = st["P2"], P2Rereads,
             Excused => Excused'
      PROVE  P2Rereads'
  BY <1>f DEF P2Rereads
<1>g. ASSUME UNCHANGED tape, rand'.disk = rand.disk, Complete PROVE Complete'
  BY <1>g DEF Complete
\* p does nothing.
<1>h. ASSUME NEW p \in Parties, used'[p] = used[p], st'[p] = "threw" => st[p] = "threw", Replays(p),
             Excused => Excused'
      PROVE  Replays(p)'
  BY <1>h DEF Replays
<1>i. ASSUME UNCHANGED <<ctr, rpos, tape>>, NEW q \in Parties, st'[q] # "boot", Off(q)
      PROVE  Off(q)'
  BY <1>i DEF Off, CountersAgree, TapeOf
<1>j. ASSUME \A q \in Parties : Off(q) => Off(q)', \A r \in Roles : st[r] = "killed" => st'[r] = "killed"
      PROVE  Excused => Excused'
  BY <1>j DEF Excused
<1>1. CASE UNCHANGED vars
  <2>1. Good' => Good BY <1>1 DEF vars, Good, Mode
  <2>2. \A q \in Parties : Off(q) => Off(q)' BY <1>1 DEF vars, Off, CountersAgree, TapeOf
  <2>3. Excused => Excused' BY <1>1, <1>j, <2>2 DEF vars
  <2>4. P2Rereads /\ Complete => P2Rereads' /\ Complete' BY <1>1, <1>f, <1>g, <2>3 DEF vars
  <2>5. \A p \in Parties : Replays(p) => Replays(p)' BY <1>1, <1>h, <2>3 DEF vars
  <2> QED BY <1>a, <2>1, <2>4, <2>5 DEF Replaying
<1>2. CASE Relaunch
  <2> SUFFICES ASSUME Good' PROVE Complete' /\ P2Rereads' /\ \A p \in Parties : Replays(p)'
    BY DEF Replaying
  <2>1. tape' = tape /\ rand' = [rand EXCEPT !.read = 0] /\ sealed' = sealed BY <1>2 DEF Relaunch
  <2>2. ~Writing BY <1>2, <1>c DEF Relaunch, Writing, Live
  <2>4. rand'.disk = rand.disk /\ rand'.read = 0 BY <1>b, <2>1 DEF Rand
  <2>5. Complete BY <1>a, <2>1, <2>2 DEF Closes, Good
  <2>6. Complete' BY <1>g, <2>1, <2>4, <2>5
  <2>7. /\ \A r \in Roles : st'[r] = "boot" /\ at'[r] = 1
        /\ \A p \in Parties : used'[p] = <<>>
    BY <1>2 DEF Relaunch, ResetProcesses
  <2>8. P2Rereads'
    <3>1. Holds(tape[Mul0], Mul0, launch) BY <1>a, <1>c DEF Disk, DiskOf
    <3>2. ASSUME NEW j \in 1 .. Len(tape[Mul0])
          PROVE  ~(j <= 0) /\ ~(tape[Mul0][j].k[2] <= 0)
      <4>1. tape[Mul0][j].k[2] \in Steps BY <3>1 DEF Holds
      <4> QED BY <4>1, ConstantFacts
    <3>3. rand'.read = 4 * 0 /\ at'["P2"] - 1 = 0 /\ st'["P2"] = "boot" BY <1>c, <2>4, <2>7
    <3>4. \A j \in 1 .. Len(tape'[Mul0]) : j <= 0 <=> tape'[Mul0][j].k[2] <= at'["P2"] - 1
      BY <2>1, <3>2, <3>3
    <3>5. 0 \in Nat OBVIOUS
    <3> QED BY <3>3, <3>4, <3>5 DEF P2Rereads
  <2>9. ASSUME NEW p \in Parties PROVE Replays(p)'
    <3>1. Len(used'[p]) = 0 /\ st'[p] = "boot" BY <1>c, <2>7
    <3> QED BY <3>1 DEF Replays
  <2> QED BY <2>6, <2>8, <2>9
<1>3. ASSUME NEW r \in Roles, Boot(r) PROVE Replaying'
  <2> SUFFICES ASSUME Good' PROVE Complete' /\ P2Rereads' /\ \A p \in Parties : Replays(p)'
    BY DEF Replaying
  <2>0. UNCHANGED <<launch, at, rpos, used>> /\ st[r] = "boot" BY <1>3 DEF Boot
  <2>1. Mode = "Replay" /\ UNCHANGED <<launch, sealed, made, at, rpos, used>> /\ st[r] = "boot"
    BY <1>3, <1>d, <2>0 DEF Boot, Good
  <2>2. Good /\ Complete /\ P2Rereads /\ \A p \in Parties : Replays(p) BY <1>e, <2>1
  <2>3. r \in made BY <2>2 DEF Good
  <2>4. UNCHANGED <<tape, rand>> /\ st' = [st EXCEPT ![r] = "run"] BY <1>3, <2>1, <2>3 DEF Boot
  <2>5. PICK x : ctr' = [ctr EXCEPT ![r] = x] BY <1>3 DEF Boot
  <2>6. Complete' BY <1>g, <2>2, <2>4
  <2>7. st'[r] = "run" /\ \A q \in Roles : q # r => st'[q] = st[q] BY <1>b, <2>4
  <2>8. ASSUME NEW q \in Parties, Off(q) PROVE Off(q)'
    <3>1. q # r BY <2>1, <2>8 DEF Off
    <3>2. ctr'[q] = ctr[q] /\ st'[q] = st[q] BY <1>a, <1>c, <2>5, <2>7, <3>1 DEF Types
    <3> QED BY <2>1, <2>4, <2>8, <3>2 DEF Off, CountersAgree, TapeOf
  <2>9. Excused => Excused' BY <1>j, <2>1, <2>7, <2>8
  <2>10. P2Rereads' BY <1>c, <2>1, <2>2, <2>4, <2>7, <2>9 DEF P2Rereads
  <2>11. \A p \in Parties : Replays(p)' BY <1>c, <1>h, <2>1, <2>2, <2>7, <2>9
  <2> QED BY <2>6, <2>10, <2>11
<1>4. ASSUME NEW r \in Roles, Kill(r) PROVE Replaying'
  <2> SUFFICES ASSUME Good' PROVE Complete' /\ P2Rereads' /\ \A p \in Parties : Replays(p)'
    BY DEF Replaying
  <2>1. /\ UNCHANGED <<launch, made, tape, used, at>> /\ st' = [st EXCEPT ![r] = "killed"]
        /\ (rand' = rand \/ rand' = [rand EXCEPT !.buf = 0])
        /\ (sealed' => sealed)
    BY <1>4 DEF Kill, volatile
  <2>2. sealed' = sealed BY <1>a, <2>1 DEF Good, Types
  <2>3. Complete /\ P2Rereads /\ \A p \in Parties : Replays(p) BY <1>e, <2>1, <2>2
  <2>4. rand'.disk = rand.disk /\ rand'.read = rand.read BY <1>b, <2>1 DEF Rand
  <2>5. Complete' BY <1>g, <2>1, <2>3, <2>4
  <2>6. st'[r] = "killed" /\ \A q \in Roles : st'[q] = st[q] \/ st'[q] = "killed" BY <1>b, <2>1
  <2>7. Excused' BY <2>6 DEF Excused
  <2>8. st'["P2"] = "done" \/ st'["P2"] \in {"boot", "run"} => st'["P2"] = st["P2"] BY <1>c, <2>6
  <2>9. P2Rereads' BY <2>1, <2>3, <2>4, <2>7, <2>8 DEF P2Rereads
  <2>10. \A p \in Parties : Replays(p)' BY <2>1, <2>3, <2>7 DEF Replays
  <2> QED BY <2>5, <2>9, <2>10
<1>5. CASE P2Step
  <2> SUFFICES ASSUME Good' PROVE Complete' /\ P2Rereads' /\ \A p \in Parties : Replays(p)'
    BY DEF Replaying
  <2>0. UNCHANGED <<launch, used, rpos, made>>
    BY <1>5 DEF P2Step, Record, Reread, SendMask, SendMaskFails, P2Ends, CloseFile, volatile, disk
  <2>3. Mode = "Replay" BY <1>d, <2>0 DEF Good
  <2>4. Reread \/ SendMask \/ SendMaskFails \/ P2Ends
    BY <1>5, <1>a, <2>3 DEF P2Step, Record, CloseFile, Progress
  <2>1. sealed' = sealed
    <3>1. sealed' = sealed \/ sealed' = (sealed \/ Mode = "Record")
      BY <2>4 DEF Reread, SendMask, SendMaskFails, P2Ends
    <3> QED BY <1>a, <2>3, <3>1 DEF Types
  <2>2. Complete /\ P2Rereads /\ \A p \in Parties : Replays(p) BY <1>e, <2>0, <2>1
  <2>5. UNCHANGED <<tape, ctr>> /\ (rand' = rand \/ rand' = [rand EXCEPT !.read = @ + 4])
    BY <2>4 DEF Reread, SendMask, SendMaskFails, P2Ends, disk, volatile
  <2>6. Complete'
    <3>1. rand'.disk = rand.disk BY <1>b, <2>5 DEF Rand
    <3> QED BY <1>g, <2>2, <2>5, <3>1
  <2>7. /\ \A q \in Parties : st'[q] = st[q]
        /\ st["P2"] = "run"
    BY <1>b, <1>c, <2>4 DEF Reread, SendMask, SendMaskFails, P2Ends, InStep
  <2>8. Excused => Excused'
    <3>1. \A q \in Parties : Off(q) => Off(q)' BY <1>i, <2>0, <2>5, <2>7 DEF Off
    <3>2. \A r \in Roles : st[r] = "killed" => st'[r] = "killed" BY <2>7 DEF Roles
    <3> QED BY <1>j, <3>1, <3>2
  <2>9. \A p \in Parties : Replays(p)' BY <1>h, <2>0, <2>2, <2>7, <2>8
  <2>10. P2Rereads'
    <3>1. CASE P2Ends
      <4>1. at' = at /\ at["P2"] = Len(Program) + 1 /\ st'["P2"] \in {"threw", "done"}
        BY <1>b, <1>c, <2>3, <3>1 DEF P2Ends, volatile
      <4> QED BY <4>1 DEF P2Rereads
    <3>3. CASE SendMaskFails
      <4>1. st'["P2"] = "threw" BY <1>b, <1>c, <2>3, <3>3 DEF SendMaskFails
      <4>2. PICK p \in Parties : st[p] \in {"threw", "killed"} BY <3>3 DEF SendMaskFails
      <4>3. Excused BY <1>c, <2>2, <4>2 DEF Replays, Excused
      <4> QED BY <2>8, <4>1, <4>3 DEF P2Rereads
    <3>2. CASE Reread \/ SendMask
      <4>1. st["P2"] = "run" /\ at["P2"] \in Steps /\ at["P2"] \in Nat
        BY <1>a, <1>c, <3>2, InStepFacts DEF Reread, SendMask
      <4>2. PICK m \in Nat :
              /\ rand.read = 4 * m
              /\ \A j \in 1 .. Len(tape[Mul0]) : j <= m <=> tape[Mul0][j].k[2] <= at["P2"] - 1
        BY <2>2, <4>1 DEF P2Rereads
      <4>3. ASSUME at' = [at EXCEPT !["P2"] = @ + 1] PROVE at'["P2"] - 1 = at["P2"]
        BY <1>b, <1>c, <4>1, <4>3
      <4>4. CASE Program[at["P2"]] = "mul"
        <5>1. /\ m + 1 <= Len(tape[Mul0])
              /\ \A j \in 1 .. Len(tape[Mul0]) : j <= m + 1 <=> tape[Mul0][j].k[2] <= at["P2"]
          BY <1>a, <2>2, <4>1, <4>2, <4>4, RereadOn
        <5>2. Reread /\ Op("P2") = "mul" BY <3>2, <4>4 DEF SendMask, InStep, Op
        <5>3. 4 * Len(tape[Mul0]) <= rand.disk BY <2>2 DEF Complete
        <5>4. Len(tape[Mul0]) \in Nat /\ rand.disk \in Nat BY <1>a, <1>c, TypeFacts
        <5>5. \A a, b, c \in Nat : a + 1 <= b /\ 4 * b <= c => 4 * a + 4 <= c /\ 4 * a + 4 = 4 * (a + 1) OBVIOUS
        <5>6. rand.read + 4 <= rand.disk /\ rand.read + 4 = 4 * (m + 1) BY <4>2, <5>1, <5>3, <5>4, <5>5
        <5>7. rand' = [rand EXCEPT !.read = @ + 4] /\ at' = [at EXCEPT !["P2"] = @ + 1] /\ st' = st
          BY <5>2, <5>6 DEF Reread, Advance
        <5>8. rand'.read = 4 * (m + 1) BY <1>b, <5>6, <5>7 DEF Rand
        <5>9. \A j \in 1 .. Len(tape'[Mul0]) : j <= m + 1 <=> tape'[Mul0][j].k[2] <= at'["P2"] - 1
          BY <2>5, <4>3, <5>1, <5>7
        <5>10. st'["P2"] = "run" /\ m + 1 \in Nat BY <4>1, <5>7
        <5> QED BY <5>8, <5>9, <5>10 DEF P2Rereads
      <4>5. CASE Program[at["P2"]] # "mul"
        <5>1. \A j \in 1 .. Len(tape[Mul0]) : j <= m <=> tape[Mul0][j].k[2] <= at["P2"]
          BY <1>a, <2>2, <4>1, <4>2, <4>5, RereadOn
        <5>2. rand' = rand /\ at' = [at EXCEPT !["P2"] = @ + 1] /\ st' = st
          BY <3>2, <4>5 DEF Reread, SendMask, Advance, Op, disk
        <5>3. \A j \in 1 .. Len(tape'[Mul0]) : j <= m <=> tape'[Mul0][j].k[2] <= at'["P2"] - 1
          BY <2>5, <4>3, <5>1, <5>2
        <5> QED BY <4>1, <4>2, <5>2, <5>3 DEF P2Rereads
      <4> QED BY <4>4, <4>5
    <3> QED BY <2>4, <3>1, <3>2, <3>3
  <2> QED BY <2>6, <2>9, <2>10
<1>6. ASSUME NEW p \in Parties, PartyStep(p) PROVE Replaying'
  <2> SUFFICES ASSUME Good' PROVE Complete' /\ P2Rereads' /\ \A q \in Parties : Replays(q)'
    BY DEF Replaying
  <2>0. UNCHANGED <<launch, sealed, made, tape, rand>>
    BY <1>6 DEF PartyStep, FetchNothing, FetchRecord, FetchPastEnd, FetchMask, Exchange, PartyEnds, IoError, disk
  <2>1. Good /\ Complete /\ P2Rereads /\ \A q \in Parties : Replays(q) BY <1>e, <2>0
  <2>2. Mode = "Replay" /\ Complete' BY <1>g, <2>0, <2>1 DEF Good
  <2>3. at'["P2"] = at["P2"] /\ st'["P2"] = st["P2"]
    BY <1>6, <1>b, <1>c DEF PartyStep, FetchNothing, FetchRecord, FetchPastEnd, FetchMask, Exchange, Advance,
                            PartyEnds, IoError, volatile
  <2>5. st[p] = "run"
    BY <1>6 DEF PartyStep, FetchNothing, FetchRecord, FetchPastEnd, FetchMask, Exchange, PartyEnds, IoError, InStep
  <2>6. \A q \in Roles : q # p => st'[q] = st[q]
    BY <1>6, <1>b DEF PartyStep, FetchNothing, FetchRecord, FetchPastEnd, FetchMask, Exchange, PartyEnds, IoError
  <2>7. st'[p] # "boot"
    BY <1>6, <1>b, <1>c, <2>5
    DEF PartyStep, FetchNothing, FetchRecord, FetchPastEnd, FetchMask, Exchange, PartyEnds, IoError
  <2>8. \A q \in Parties : q # p => used'[q] = used[q]
    BY <1>6, <1>a DEF PartyStep, FetchNothing, FetchRecord, FetchPastEnd, FetchMask, Exchange, PartyEnds, IoError,
                      Post, volatile, Types
  <2>9. \A q \in Parties : Off(q) => st'[q] # "boot" BY <1>c, <2>6, <2>7 DEF Off
  \* It is enough to look at what p does, when it does not touch the counters.
  <2>4. ASSUME \A q \in Parties : Off(q) => Off(q)' PROVE Excused => Excused'
    BY <1>j, <2>4, <2>5, <2>6
  <2>10. ASSUME \A q \in Parties : Off(q) => Off(q)', Replays(p)'
         PROVE  P2Rereads' /\ \A q \in Parties : Replays(q)'
    <3>1. Excused => Excused' BY <2>4, <2>10
    <3>2. P2Rereads' BY <1>f, <2>0, <2>1, <2>3, <3>1
    <3> QED BY <1>c, <1>h, <2>1, <2>6, <2>8, <2>10, <3>1, <3>2
  <2>11. ASSUME UNCHANGED <<ctr, rpos>> PROVE \A q \in Parties : Off(q) => Off(q)'
    BY <1>i, <2>0, <2>9, <2>11
  <2>12. ASSUME NEW k, k # Junk, Post(p, k) PROVE \A i \in 1 .. Len(used'[p]) : used'[p][i] # Junk
    <3>1. used'[p] = Append(used[p], k) /\ used[p] \in Seq(Material) BY <1>a, <2>12, TypeFacts DEF Post, Types
    <3>2. \A i \in 1 .. Len(used[p]) : used[p][i] # Junk BY <2>1 DEF Replays
    <3> QED BY <2>12, <3>1, <3>2
  <2>13. CASE FetchMask(p)
    <3>1. UNCHANGED <<ctr, rpos>> /\ st' = st /\ Post(p, <<launch, at[p], p>>) BY <2>13 DEF FetchMask
    <3>2. <<launch, at[p], p>> # Junk BY <1>a, <1>b, <1>c, JunkFacts, TypeFacts
    <3>3. Replays(p)' BY <2>5, <2>12, <3>1, <3>2 DEF Replays
    <3> QED BY <2>2, <2>10, <2>11, <3>1, <3>3
  <2>14. CASE Exchange(p) \/ PartyEnds(p)
    <3>1. UNCHANGED <<ctr, rpos, used>> BY <2>14 DEF Exchange, PartyEnds, volatile
    <3>2. st'[p] # "threw" BY <1>b, <1>c, <2>5, <2>14 DEF Exchange, PartyEnds
    <3>3. Replays(p)' BY <2>1, <3>1, <3>2 DEF Replays
    <3> QED BY <2>2, <2>10, <2>11, <3>1, <3>3
  <2>15. CASE IoError(p)
    <3>1. UNCHANGED <<ctr, rpos, used, posted, at>> BY <2>15 DEF IoError, volatile
    <3>2. SUFFICES Excused
      <4>1. \A q \in Parties : Off(q) => Off(q)' BY <2>11, <3>1
      <4>2. Excused' BY <2>4, <3>2, <4>1
      <4>3. Replays(p)' BY <2>1, <3>1, <4>2 DEF Replays
      <4> QED BY <2>2, <2>10, <4>1, <4>3
    <3>3. at[p] \in Steps /\ at[p] \in Nat /\ at[p] <= Len(Program) /\ Len(Program) \in Nat
      BY <2>15, ConstantFacts DEF IoError, InStep
    \* P2 has ended, and not after all its steps.
    <3>4. ASSUME ~Live("P2"), at["P2"] <= at[p] \/ st["P2"] = "killed" PROVE Excused
      <4>1. CASE st["P2"] = "killed" BY <1>c, <4>1 DEF Excused
      <4>2. CASE at["P2"] <= at[p] /\ st["P2"] \in {"done", "threw"}
        <5>1. at["P2"] # Len(Program) + 1 BY <3>3, <4>2
        <5> QED BY <2>1, <4>2, <5>1 DEF P2Rereads
      <4> QED BY <1>b, <1>c, <3>4, <4>1, <4>2 DEF Live, Ends
    <3>5. ASSUME ~Live(Peer(p)), posted[Peer(p)] < at[p] \/ st[Peer(p)] # "done" PROVE Excused
      <4>0. Peer(p) \in Parties /\ Peer(p) \in Roles BY PeerFacts
      <4>1. ASSUME st[Peer(p)] = "done" PROVE FALSE
        <5>1. posted[Peer(p)] \in {at[Peer(p)] - 1, at[Peer(p)]} /\ at[Peer(p)] = Len(Program) + 1
          BY <1>a, <4>0, <4>1 DEF Progress, Standing
        <5> QED BY <3>3, <3>5, <4>1, <5>1
      <4>2. st[Peer(p)] \in {"threw", "killed"} BY <1>b, <3>5, <4>0, <4>1 DEF Live, Ends
      <4> QED BY <2>1, <4>0, <4>2 DEF Replays, Excused
    <3> QED BY <2>15, <3>4, <3>5 DEF IoError
  <2>16. ASSUME FetchRecord(p) \/ FetchPastEnd(p)
         PROVE  P2Rereads' /\ \A q \in Parties : Replays(q)'
    <3> DEFINE op == Op(p)
               t == TapeOf(p, op)
               i == rpos[p][op]
               n == at[p]
    <3>1. /\ op \in Taped /\ n \in Steps /\ n \in Nat /\ Program[n] = op /\ posted[p] < n
      BY <1>a, <1>c, <2>16, InStepFacts DEF FetchRecord, FetchPastEnd
    <3>2. posted[p] = n - 1
      <4>1. posted[p] \in {at[p] - 1, at[p]} BY <1>a DEF Progress, Standing
      <4> QED BY <3>1, <4>1
    <3>3. /\ <<op, p>> \in Tapes /\ <<op, p>>[1] = op /\ t \in Seq(Record1)
          /\ Holds(t, <<op, p>>, launch) /\ Covers(t, <<op, p>>, Len(Program) + 1)
      BY <1>a, <2>1, <3>1, TapeFacts, TypeFacts DEF TapeOf, Disk, DiskOf, Complete
    <3>4. ctr[p] \in Counters /\ rpos[p] \in Counters /\ ctr[p][op] \in Nat /\ i \in Nat
      BY <1>a, <1>c, <3>1, TypeFacts, CounterFacts
    <3>5. \A j \in 1 .. Len(t) : j <= i <=> t[j].k[2] <= n - 1
      BY <1>a, <2>2, <2>5, <3>1, <3>2 DEF Reading, ReadingOf
    <3>6. Len(t) \in Nat BY <3>3
    <3>7. i + 1 <= Len(t)
      <4>1. n < Len(Program) + 1 BY <3>1, ConstantFacts
      <4>2. PICK j \in 1 .. Len(t) : t[j].k[2] = n BY <3>1, <3>3, <4>1 DEF Covers
      <4> HIDE DEF op, t, i, n
      <4>3. \A m \in 1 .. Len(t) : t[m].k[2] = n => m = i + 1 BY <3>1, <3>3, <3>4, <3>5, NextRecord
      <4>4. j = i + 1 BY <4>2, <4>3
      <4> QED BY <3>6, <4>2, <4>4
    <3>8. FetchRecord(p)
      <4>1. FetchPastEnd(p) => i >= Len(t) BY DEF FetchPastEnd
      <4> HIDE DEF op, t, i, n
      <4> QED BY <2>16, <3>4, <3>6, <3>7, <4>1
    <3>9. /\ ctr' = [ctr EXCEPT ![p] = [ctr[p] EXCEPT ![op] = ctr[p][op] + 1]]
          /\ rpos' = [rpos EXCEPT ![p] = [rpos[p] EXCEPT ![op] = i + 1]]
          /\ \/ Post(p, t[i + 1].k) /\ st' = st
             \/ t[i + 1].idx # ctr[p][op] /\ st' = [st EXCEPT ![p] = "threw"] /\ used' = used
      BY <3>8 DEF FetchRecord
    <3> HIDE DEF op, t, i, n
    <3>10. /\ \A o \in Taped : ctr'[p][o] = IF o = op THEN ctr[p][o] + 1 ELSE ctr[p][o]
           /\ \A o \in Taped : rpos'[p][o] = IF o = op THEN rpos[p][o] + 1 ELSE rpos[p][o]
           /\ \A q \in Parties : q # p => ctr'[q] = ctr[q] /\ rpos'[q] = rpos[q]
      <4>1. /\ ctr'[p] = [ctr[p] EXCEPT ![op] = ctr[p][op] + 1]
            /\ rpos'[p] = [rpos[p] EXCEPT ![op] = rpos[p][op] + 1]
            /\ \A q \in Parties : q # p => ctr'[q] = ctr[q] /\ rpos'[q] = rpos[q]
        BY <1>a, <1>c, <3>9 DEF Types, i
      <4> QED BY <3>4, <4>1 DEF Counters, Taped
    <3>11. \A q \in Parties, o \in Taped : ctr'[q][o] - rpos'[q][o] = ctr[q][o] - rpos[q][o]
      <4> SUFFICES ASSUME NEW q \in Parties, NEW o \in Taped
                   PROVE  ctr'[q][o] - rpos'[q][o] = ctr[q][o] - rpos[q][o]
        OBVIOUS
      <4>1. CASE q # p BY <3>10, <4>1
      <4>2. CASE q = p
        <5>1. ctr[p][o] \in Nat /\ rpos[p][o] \in Nat BY <3>4, CounterFacts
        <5>2. \A a, b \in Nat : (a + 1) - (b + 1) = a - b OBVIOUS
        <5> QED BY <3>10, <4>2, <5>1, <5>2
      <4> QED BY <4>1, <4>2
    <3>12. \A q \in Parties : Off(q) => Off(q)' BY <2>0, <2>9, <3>11, OffStays
    <3>13. i + 1 \in 1 .. Len(t) BY <3>4, <3>6, <3>7
    <3>14. CASE Post(p, t[i + 1].k) /\ st' = st
      <4>1. t[i + 1] \in Record1 BY <3>3, <3>13
      <4>2. t[i + 1].k # Junk BY <4>1, RecordFacts, JunkFacts
      <4>3. Replays(p)' BY <2>5, <2>12, <3>14, <4>2 DEF Replays
      <4> QED BY <2>10, <3>12, <4>3
    <3>15. CASE t[i + 1].idx # ctr[p][op] /\ st' = [st EXCEPT ![p] = "threw"] /\ used' = used
      <4>1. t[i + 1].idx = t[1].idx + (i + 1) - 1 BY <3>3, <3>13 DEF Holds
      <4>2. 1 \in 1 .. Len(t) BY <3>4, <3>6, <3>7
      <4>3. t[1].idx \in Nat BY <3>3, <4>2, RecordFacts
      <4>4. t[1].idx # ctr[p][op] - i BY <3>4, <3>15, <4>1, <4>3
      <4>5. t # <<>> BY <3>3, <4>2
      <4>6. t[1].idx # ctr'[p][op] - rpos'[p][op] BY <3>1, <3>11, <4>4 DEF i
      <4>7. tape'[<<op, p>>] = t BY <2>0 DEF TapeOf, t
      <4>8. ~CountersAgree(p)'
        <5>1. CountersAgree(p)' =>
                \A o \in Taped : tape'[<<o, p>>] # <<>> => tape'[<<o, p>>][1].idx = ctr'[p][o] - rpos'[p][o]
          BY DEF CountersAgree, TapeOf
        <5> QED BY <3>1, <4>5, <4>6, <4>7, <5>1
      <4>9. Off(p)' BY <2>7, <4>8 DEF Off
      <4>10. Replays(p)' BY <2>1, <3>15, <4>9 DEF Replays, Excused
      <4> QED BY <2>10, <3>12, <4>10
    <3> QED BY <3>9, <3>14, <3>15
  <2> QED BY <1>6, <2>2, <2>13, <2>14, <2>15, <2>16 DEF PartyStep, FetchNothing
<1> QED BY <1>1, <1>2, <1>3, <1>4, <1>5, <1>6, NextCases

-----------------------------------------------------------------------------
(* The theorems                                                            *)

\* Before the first launch there is nothing on disk.
LEMMA ReplayInit == Init => ReplayInv
<1> SUFFICES ASSUME Init PROVE ReplayInv OBVIOUS
<1>a. /\ launch = 1 /\ sealed = FALSE /\ kills = 0 /\ made = {}
      /\ rand = [disk |-> 0, buf |-> 0, read |-> 0]
  BY DEF Init
<1>b. /\ \A r \in Roles : st[r] = "boot" /\ at[r] = 1
      /\ \A p \in Parties : posted[p] = 0 /\ used[p] = <<>> /\ rpos[p] = [mul |-> 0, and |-> 0]
      /\ \A f \in Tapes : tape[f] = <<>> /\ buf[f] = <<>>
  BY DEF Init
<1>c. "P2" \in Roles /\ (\A p \in Parties : p \in Roles /\ Peer(p) \in Parties) /\ Mul0 \in Tapes
  BY TapeFacts, PeerFacts, Mul0Facts
<1>d. Len(<<>>) = 0 /\ \A i \in 1 .. 0 : FALSE OBVIOUS
<1>1. Types
  <2>1. launch \in 1 .. Len(Launches) BY <1>a, ConstantFacts
  <2>2. st \in [Roles -> Ends] BY DEF Init, Ends
  <2>3. at \in [Roles -> Places] BY ConstantFacts DEF Init, Places
  <2>4. posted \in [Parties -> 0 .. Len(Program)] BY ConstantFacts DEF Init
  <2>5. ctr \in [Roles -> Counters] /\ rpos \in [Parties -> Counters] BY DEF Init, Counters
  <2>6. tape \in [Tapes -> Seq(Record1)] /\ buf \in [Tapes -> Seq(Record1)] BY BlankFacts DEF Init
  <2>7. rand \in Rand /\ made \in SUBSET Roles /\ sealed \in BOOLEAN /\ kills \in Nat BY <1>a DEF Rand
  <2>8. used \in [Parties -> Seq(Material)] BY DEF Init
  <2> QED BY <1>a, <2>1, <2>2, <2>3, <2>4, <2>5, <2>6, <2>7, <2>8 DEF Types
<1>2. Progress BY <1>b, <1>c, <1>d DEF Progress, Standing
<1>3. Fresh BY <1>b DEF Fresh
<1>4. Disk
  <2>1. ~Writing BY <1>b, <1>c DEF Writing
  <2>2. ASSUME NEW f \in Tapes PROVE DiskOf(f)
    BY <1>b, <1>d, <2>1 DEF DiskOf, Holds
  <2> QED BY <2>2 DEF Disk
<1>5. Origin BY <1>b, <1>d DEF Origin
<1>6. Casualties
  <2>1. One("P0") = 0 /\ One("P1") = 0 /\ One("P2") = 0 BY <1>b DEF One, Roles, Parties
  <2> QED BY <1>a, <2>1 DEF Casualties
<1>7. Reading BY <1>b, <1>d, TapeFacts DEF Reading, ReadingOf, TapeOf
<1>8. RandOK
  <2>1. ~Writing BY <1>b, <1>c DEF Writing
  <2>2. rand.disk = 0 /\ rand.buf = 0 /\ rand.read = 0 BY <1>a
  <2> QED BY <2>1, <2>2 DEF RandOK
<1>9. Closes BY <1>a DEF Closes
<1>10. Replaying BY <1>a DEF Replaying, Good
<1> QED BY <1>1, <1>2, <1>3, <1>4, <1>5, <1>6, <1>7, <1>8, <1>9, <1>10 DEF ReplayInv, TapeInv

\* The invariant is inductive.
LEMMA ReplayNext == ReplayInv /\ [Next]_vars => ReplayInv'
<1> SUFFICES ASSUME ReplayInv, [Next]_vars PROVE ReplayInv' OBVIOUS
<1>1. /\ Types /\ Progress /\ Fresh /\ Disk /\ Origin /\ Casualties /\ Reading
      /\ RandOK /\ Closes
  BY DEF ReplayInv, TapeInv
<1>2. Types' BY <1>1, TypesStep
<1>3. Progress' BY <1>1, ProgressStep
<1>4. Fresh' BY <1>1, FreshStep
<1>5. Disk' BY <1>1, DiskStep
<1>6. Origin' BY <1>1, OriginStep
<1>7. Casualties' BY <1>1, CasualtiesStep
<1>8. Reading' BY <1>1, ReadingStep
<1>9. RandOK' BY <1>1, RandStep
<1>10. Closes' BY <1>1, ClosesStep
<1>11. Replaying' BY ReplayingStep
<1> QED BY <1>2, <1>3, <1>4, <1>5, <1>6, <1>7, <1>8, <1>9, <1>10, <1>11 DEF ReplayInv, TapeInv

\* The invariant holds in every reachable state.
LEMMA ReplayInvariance == Spec => []ReplayInv
  BY ReplayInit, ReplayNext, PTL DEF Spec

\* In every state of every sequence of recording and replaying runs, killed or
\* not, the roles of mpcops_test are at most one exchange apart, nobody reads more
\* of p2.rand than is on disk, and a P2 that has ended holds nothing back.
THEOREM ReplayTypeCorrect == Spec => []TypeOK
<1>1. ReplayInv => TypeOK
  <2> SUFFICES ASSUME ReplayInv PROVE TypeOK OBVIOUS
  <2>1. Types /\ Progress /\ Disk /\ RandOK BY DEF ReplayInv, TapeInv
  <2>2. launch \in 1 .. Len(Launches) BY <2>1, TypeFacts
  <2>3. st \in [Roles -> {"boot", "run", "closing", "done", "threw", "killed"}] BY <2>1 DEF Types, Ends
  <2>4. at \in [Roles -> 1 .. (Len(Program) + 1)] BY <2>1 DEF Types, Places
  <2>5. \A p \in Parties : /\ posted[p] \in {at[p] - 1, at[p]} /\ Len(used[p]) = posted[p]
                           /\ at[p] - 1 <= posted[Peer(p)]
    BY <2>1 DEF Progress, Standing
  <2>6. \A r \in Roles : ctr[r].mul \in Nat /\ ctr[r].and \in Nat BY <2>1 DEF Types, Counters
  <2>7. rand.disk \in Nat /\ rand.buf \in Nat /\ rand.read \in 0 .. rand.disk
    BY <2>1, TypeFacts DEF RandOK
  <2>8. st["P2"] \notin {"run", "closing"} => \A f \in Tapes : buf[f] = <<>>
    BY <2>1 DEF Disk, DiskOf, Writing
  <2> QED BY <2>2, <2>3, <2>4, <2>5, <2>6, <2>7, <2>8 DEF TypeOK
<1> QED BY <1>1, ReplayInvariance, PTL

\* What a replaying party takes from a tape is its own half of what a recording
\* run made for this very step of the program, and the other party, if it takes
\* anything, takes the other half of the same draw.
THEOREM MatchedCorrect == Spec => []Matched
<1>1. ReplayInv => Matched
  <2> SUFFICES ASSUME ReplayInv, Mode = "Replay",
                      NEW p \in Parties, NEW i \in DOMAIN used[p],
                      used[p][i] # Junk, Program[i] \in Taped
               PROVE  /\ used[p][i][2] = i /\ used[p][i][3] = p
                      /\ i \in DOMAIN used[Peer(p)] /\ used[Peer(p)][i] # Junk =>
                           used[Peer(p)][i][1] = used[p][i][1]
                      /\ kills < 3 =>
                           \A n \in (used[p][i][1] + 1) .. launch : Launches[n] = "Replay"
    BY DEF Matched
  <2>1. Types /\ Disk /\ Origin /\ Reading BY DEF ReplayInv, TapeInv
  <2>2. \A q \in Parties : used[q] \in Seq(Material) /\ DOMAIN used[q] = 1 .. Len(used[q])
    BY <2>1, TypeFacts
  \* Both take their material from tapes.
  <2>3. ASSUME NEW q \in Parties, i \in DOMAIN used[q], used[q][i] # Junk
        PROVE  \E f \in Tapes : \E j \in 1 .. Len(tape[f]) :
                 f[2] = q /\ used[q][i] = tape[f][j].k /\ used[q][i][2] = i
    <3>1. i \in 1 .. Len(used[q]) BY <2>2, <2>3
    <3>2. PICK j \in 1 .. Len(TapeOf(q, Program[i])) :
            used[q][i] = TapeOf(q, Program[i])[j].k /\ used[q][i][2] = i
      BY <2>1, <2>3, <3>1 DEF Reading, ReadingOf
    <3>3. <<Program[i], q>> \in Tapes /\ <<Program[i], q>>[2] = q BY TapeFacts
    <3> QED BY <3>2, <3>3 DEF TapeOf
  <2>4a. PICK f \in Tapes : \E j \in 1 .. Len(tape[f]) :
           f[2] = p /\ used[p][i] = tape[f][j].k /\ used[p][i][2] = i
    BY <2>3
  <2>4. PICK j \in 1 .. Len(tape[f]) : f[2] = p /\ used[p][i] = tape[f][j].k /\ used[p][i][2] = i
    BY <2>4a
  <2>5. used[p][i][3] = p BY <2>1, <2>4 DEF Disk, DiskOf, Holds
  <2>6. ASSUME i \in DOMAIN used[Peer(p)], used[Peer(p)][i] # Junk
        PROVE  used[Peer(p)][i][1] = used[p][i][1]
    <3>0. PICK g \in Tapes : \E m \in 1 .. Len(tape[g]) : used[Peer(p)][i] = tape[g][m].k
      BY <2>3, <2>6, PeerFacts
    <3>1. PICK m \in 1 .. Len(tape[g]) : used[Peer(p)][i] = tape[g][m].k BY <3>0
    <3> QED BY <2>1, <2>4, <3>1 DEF Origin
  <2>7. ASSUME kills < 3, NEW n \in (used[p][i][1] + 1) .. launch PROVE Launches[n] = "Replay"
    <3>1. Dated(tape[f][j]) BY <2>1, <2>4 DEF Origin
    <3>2. ~Untouched BY DEF Untouched
    <3> QED BY <2>4, <2>7, <3>1, <3>2 DEF Dated
  <2> QED BY <2>4, <2>5, <2>6, <2>7
<1> QED BY <1>1, ReplayInvariance, PTL

\* Once P2 has come to the end of a recording and closed the tapes, and nobody
\* has opened them for recording since, the counters that MPCContext leaves
\* uninitialised and the death of a process are all that can go wrong in a replay:
\* if the counters start where P2's did, neither party runs off the end of its
\* tape, and neither throws unless a process of this very run was killed.
THEOREM ReplayCorrect == Spec => []ReplayIfCountersAgree
<1>1. ReplayInv => ReplayIfCountersAgree
  <2> SUFFICES ASSUME ReplayInv, Mode = "Replay", sealed, made = Roles,
                      \A p \in Parties : CountersAgree(p), NEW p \in Parties
               PROVE  /\ \A i \in DOMAIN used[p] : used[p][i] # Junk
                      /\ st[p] = "threw" => \E r \in Roles : st[r] = "killed"
    BY DEF ReplayIfCountersAgree
  <2>1. Types /\ Replaying BY DEF ReplayInv, TapeInv
  <2>2. Replays(p) BY <2>1 DEF Replaying, Good
  <2>3. DOMAIN used[p] = 1 .. Len(used[p]) BY <2>1, TypeFacts
  <2> QED BY <2>2, <2>3 DEF Replays, Excused, Off
<1> QED BY <1>1, ReplayInvariance, PTL
=============================================================================
