------------------------------ MODULE Locoram ------------------------------
(***************************************************************************)
(* Locoram (mpc/locoram.hpp, mpc/locoram.tpp): an array shared between P0  *)
(* and P1, updated and read with DPF keys that P2 deals, as the three      *)
(* programs of mpc/locoram_test.cpp use it.                                *)
(*                                                                         *)
(* A DPF key is what its evaluation gives (see Dpf): an output vector and  *)
(* a vector of advice bits, of which the two parties' XOR to a point and   *)
(* to a unit vector.  The advice bits are one per NODE of the key and are  *)
(* read as if they were one per leaf.                                      *)
(*                                                                         *)
(* Words are XOR words of Words; the advice bits, which the code keeps in  *)
(* words that are 0 or 1, are booleans.  peer_blinded and sbv_peer_blinded *)
(* are zero from the constructor on and no method writes them, so the      *)
(* terms of read that contain them are left out.                           *)
(***************************************************************************)
EXTENDS Words, Sequences, FiniteSets

CONSTANTS
  nitems,     \* the length of the array
  LPN,        \* leaves_per_node of the keys
  Program,    \* the calls that the three programs make
  UpdAlpha, UpdValue,   \* the point at which P2 always updates, and its value
  ReadAlpha,            \* the point at which P2 always reads
  ValShares,  \* what a party may pass to update as its share of the value
  IdxShares,  \* what a role may pass as its share of an index
  Shares,     \* what set_share may have stored in the array of a party
  Pads,       \* the outputs that the key of P0 may have
  FlagPads    \* the advice bits that the key of P0 may have

Parties == {"P0", "P1"}
Roles == Parties \cup {"P2"}
Peer(p) == IF p = "P0" THEN "P1" ELSE "P0"

Index == 0 .. (nitems - 1)
Vector == [Index -> XWord]
KeyOps == {"update", "readX", "readA"}
Calls == KeyOps \cup {"reconstruct", "open"}
Steps == 1 .. Len(Program)

\* read takes update_vals[0]: a program updates before it reads.  What it
\* opens is the result of the call before.
ASSUME LocoramAssumption ==
  /\ nitems \in Nat \ {0} /\ LPN \in Nat \ {0}
  /\ UpdAlpha \in Index /\ ReadAlpha \in Index /\ UpdValue \in XWord
  /\ Program \in Seq(Calls) /\ Program[1] = "update"
  /\ \A k \in Steps : Program[k] = "open" => Program[k - 1] \in {"readX", "readA"}
  /\ ValShares \subseteq XWord /\ IdxShares \subseteq Nat
  /\ Shares \subseteq Vector /\ Pads \subseteq Vector
  /\ FlagPads \subseteq [Index -> BOOLEAN]
  /\ \A w \in FlagPads, i \in Index : w[i] => i * LPN < nitems

XorVec(a, b) == [i \in Index |-> Xor(a[i], b[i])]
Zero == [i \in Index |-> {}]
NoBits == [i \in Index |-> FALSE]
Point(i, v) == [Zero EXCEPT ![i] = v]

\* operator& on vectors: the XOR of the words that bits w select.
Dot(a, w) == {b \in 0 .. (W - 1) : Cardinality({i \in Index : w[i] /\ b \in a[i]}) % 2 = 1}

\* The keys that gen makes for point alpha and value v, as their evaluations
\* with the pads o and w for P0.
KeyFor(p, alpha, v, o, w) ==
  IF p = "P0" THEN [out |-> o, flags |-> w]
  ELSE [out |-> XorVec(o, Point(alpha, v)),
        flags |-> [w EXCEPT ![alpha \div LPN] = ~@]]

VARIABLES
  st,       \* st[r]: "run", or how the coroutine of r ended
  ip,       \* ip[r]: the call that r is executing
  idx,      \* idx[r]: the share of the index that r passes to its next call that takes one
  mem,      \* mem[p]: the Locoram object of p
  sent,     \* sent[p]: p has sent its half of a reconstruction
  res,      \* res[p]: the result of each call that p has completed
  dealt,    \* dealt[p]: the keys in flight from P2 to p
  talk      \* talk[p]: what is in flight from the peer to p

vars == <<st, ip, idx, mem, sent, res, dealt, talk>>

\* Role r is running a call of one of these kinds.
Running(r, calls) == st[r] = "run" /\ ip[r] \in Steps /\ Program[ip[r]] \in calls

InBounds(r) == idx[r] < nitems

\* Each call has a share of its own.
NextIndex(r) == \E i \in IdxShares : idx' = [idx EXCEPT ![r] = i]

\* Queue q from role s to role r after a write: one to a process that has ended
\* is lost.  k says which call a message belongs to; no action reads it.
Written(q, s, r, v) == IF st[r] = "run" THEN Append(q, [k |-> ip[s], v |-> v]) ELSE q

\* Closed sockets: what was in flight to r is gone; what r had sent stays,
\* unless r leaves data unread, when any suffix of it may be lost.
CloseSockets(r) ==
  IF r = "P2" THEN UNCHANGED <<dealt, talk>>
  ELSE /\ dealt' = [dealt EXCEPT ![r] = <<>>]
       /\ \E n \in 0 .. Len(talk[Peer(r)]) :
            /\ talk[r] = <<>> => n = Len(talk[Peer(r)])
            /\ talk' = [talk EXCEPT ![r] = <<>>, ![Peer(r)] = SubSeq(@, 1, n)]

End(r, how) ==
  /\ st' = [st EXCEPT ![r] = how]
  /\ CloseSockets(r)
  /\ UNCHANGED <<ip, idx, mem, sent, res>>

-----------------------------------------------------------------------------
(* P2.                                                                     *)

\* The key of the call that P2 is in: alpha and the value are drawn and then
\* overwritten by constants.
NextKey(p, o, w) ==
  IF Program[ip["P2"]] = "update" THEN KeyFor(p, UpdAlpha, UpdValue, o, w)
  ELSE KeyFor(p, ReadAlpha, {0}, o, w)

\* Ref::update and Ref::read in role P2: a key for each party.
Deal ==
  /\ Running("P2", KeyOps) /\ InBounds("P2")
  /\ \E o \in Pads, w \in FlagPads :
       dealt' = [p \in Parties |-> Written(dealt[p], "P2", p, NextKey(p, o, w))]
  /\ ip' = [ip EXCEPT !["P2"] = @ + 1]
  /\ NextIndex("P2")
  /\ UNCHANGED <<st, mem, sent, res, talk>>

\* A write to a party that is gone fails: && cancels the other one, which may
\* have been done, and P2 throws.
DealFails ==
  /\ Running("P2", KeyOps) /\ InBounds("P2")
  /\ \E p \in Parties :
       /\ st[p] # "run"
       /\ \E o \in Pads, w \in FlagPads :
            dealt' \in {dealt, [dealt EXCEPT ![Peer(p)] =
                                 Written(@, "P2", Peer(p), NextKey(Peer(p), o, w))]}
  /\ st' = [st EXCEPT !["P2"] = "threw"]
  /\ UNCHANGED <<ip, idx, mem, sent, res, talk>>

\* P2 has no part in a reconstruction.
DealerSkip ==
  /\ Running("P2", {"reconstruct", "open"})
  /\ ip' = [ip EXCEPT !["P2"] = @ + 1]
  /\ UNCHANGED <<st, idx, mem, sent, res, dealt, talk>>

-----------------------------------------------------------------------------
(* P0 and P1.                                                              *)

Return(p, v) ==
  /\ res' = [res EXCEPT ![p] = Append(@, v)]
  /\ ip' = [ip EXCEPT ![p] = @ + 1]

\* p takes the next key from P2.
TakeKey(p) ==
  /\ InBounds(p) /\ dealt[p] # <<>>
  /\ dealt' = [dealt EXCEPT ![p] = Tail(@)]
  /\ NextIndex(p)
  /\ UNCHANGED <<st, sent, talk>>

\* Mutant of Update: the blind does not follow the share.
UpdateKeepsBlind(p) ==
  /\ Running(p, {"update"}) /\ TakeKey(p)
  /\ LET k == Head(dealt[p]).v IN
       \E v \in ValShares :
         mem' = [mem EXCEPT ![p].secret_share = XorVec(@, k.out),
                            ![p].update_vals = Append(@, v)]
  /\ Return(p, {})

\* update: the shares of value and index are stored, the key of P2 applied.
Update(p) ==
  /\ Running(p, {"update"}) /\ TakeKey(p)
  /\ LET k == Head(dealt[p]).v IN
       \E v \in ValShares :
         mem' = [mem EXCEPT ![p].secret_share = XorVec(@, k.out),
                            ![p].blind = XorVec(@, k.out),
                            ![p].update_vals = Append(@, v)]
  /\ Return(p, {})

\* Mutant of ReadWith: the cancellation term takes the bits of all reads so far
\* before they are brought up to date, as with the two statements swapped.
ReadWithOldBits(p, x) ==
  LET k == Head(dealt[p]).v
      sbv == [i \in Index |-> mem[p].sbv_secret_share[i] # k.flags[i]]
      c == Xor(mem[p].cancellation_term, Xor(Dot(mem[p].blind, mem[p].sbv_secret_share), x))
  IN  /\ mem' = [mem EXCEPT ![p].sbv_secret_share = sbv, ![p].cancellation_term = c]
      /\ Return(p, Xor(Dot(mem[p].secret_share, sbv), c))

\* read(XShare) and read(AShare), which differ in the term x: the advice bits
\* are added to those of earlier reads, and so is the cancellation term.
ReadWith(p, x) ==
  LET k == Head(dealt[p]).v
      sbv == [i \in Index |-> mem[p].sbv_secret_share[i] # k.flags[i]]
      c == Xor(mem[p].cancellation_term, Xor(Dot(mem[p].blind, k.flags), x))
  IN  /\ mem' = [mem EXCEPT ![p].sbv_secret_share = sbv, ![p].cancellation_term = c]
      /\ Return(p, Xor(Dot(mem[p].secret_share, sbv), c))

ReadX(p) ==
  /\ Running(p, {"readX"}) /\ TakeKey(p)
  /\ ReadWith(p, mem[p].update_vals[1])

ReadA(p) ==
  /\ Running(p, {"readA"}) /\ TakeKey(p)
  /\ ReadWith(p, {})

\* Who writes first: both in reconstruct_remote, P0 in reconstruct_with_ctx.
\* Mutant of WritesFirst: neither does.
NobodyWritesFirst(p) == Program[ip[p]] = "open"

WritesFirst(p) == Program[ip[p]] = "open" \/ p = "P0"

\* The half that p sends of a reconstruction, and what it makes of both.
Half(p) == IF Program[ip[p]] = "open" THEN res[p][ip[p] - 1] ELSE mem[p].secret_share
Whole(p, h) ==
  IF Program[ip[p]] = "open" THEN Xor(Half(p), h) ELSE XorVec(Half(p), h)

\* co_await (peer << ...), before or after the read.
SendHalf(p) ==
  /\ Running(p, {"reconstruct", "open"}) /\ ~sent[p] /\ WritesFirst(p)
  /\ talk' = [talk EXCEPT ![Peer(p)] = Written(@, p, Peer(p), Half(p))]
  /\ sent' = [sent EXCEPT ![p] = TRUE]
  /\ UNCHANGED <<st, ip, idx, mem, res, dealt>>

\* co_await (peer >> ...); a party that reads first then writes.
RecvHalf(p) ==
  /\ Running(p, {"reconstruct", "open"}) /\ talk[p] # <<>>
  /\ sent[p] = WritesFirst(p)
  /\ talk' = [talk EXCEPT ![p] = Tail(@),
                          ![Peer(p)] = IF sent[p] THEN @ ELSE Written(@, p, Peer(p), Half(p))]
  /\ sent' = [sent EXCEPT ![p] = FALSE]
  /\ Return(p, Whole(p, Head(talk[p]).v))
  /\ UNCHANGED <<st, idx, mem, dealt>>

-----------------------------------------------------------------------------
\* "Index out of bounds": operator[] takes the SHARE of an index as an index.
BoundsError(r) ==
  /\ Running(r, KeyOps) /\ ~InBounds(r)
  /\ End(r, "threw")

\* The other end is gone: a read finds the end of the stream, a write fails.
IoError(r) ==
  /\ \/ /\ r \in Parties /\ Running(r, KeyOps) /\ InBounds(r)
        /\ st["P2"] # "run" /\ dealt[r] = <<>>
     \/ /\ r \in Parties /\ Running(r, {"reconstruct", "open"})
        /\ st[Peer(r)] # "run" /\ (talk[r] = <<>> \/ ~sent[r])
  /\ End(r, "threw")

Finish(r) ==
  /\ st[r] = "run" /\ ip[r] = Len(Program) + 1
  /\ End(r, "done")

-----------------------------------------------------------------------------
\* Mutant of NewLocoram: the default constructor, whose vectors are empty.
NewLocoramDefault(share) ==
  [secret_share |-> share, blind |-> <<>>, sbv_secret_share |-> <<>>,
   cancellation_term |-> {}, update_vals |-> <<>>]

\* The constructor, and set_share.
NewLocoram(share) ==
  [secret_share |-> share, blind |-> Zero, sbv_secret_share |-> NoBits,
   cancellation_term |-> {}, update_vals |-> <<>>]

Init ==
  /\ st = [r \in Roles |-> "run"]
  /\ ip = [r \in Roles |-> 1]
  /\ idx \in [Roles -> IdxShares]
  /\ \E s \in [Parties -> Shares] : mem = [p \in Parties |-> NewLocoram(s[p])]
  /\ sent = [p \in Parties |-> FALSE]
  /\ res = [p \in Parties |-> <<>>]
  /\ dealt = [p \in Parties |-> <<>>]
  /\ talk = [p \in Parties |-> <<>>]

RoleStep(r) ==
  \/ r = "P2" /\ (Deal \/ DealFails \/ DealerSkip)
  \/ /\ r \in Parties
     /\ Update(r) \/ ReadX(r) \/ ReadA(r) \/ SendHalf(r) \/ RecvHalf(r)
  \/ BoundsError(r) \/ IoError(r) \/ Finish(r)

Next == \E r \in Roles : RoleStep(r)

\* Each role is a process of its own whose event loop runs what is ready.
Spec == Init /\ [][Next]_vars
FairSpec == Spec /\ \A r \in Roles : WF_vars(RoleStep(r))

-----------------------------------------------------------------------------
TypeOK ==
  /\ st \in [Roles -> {"run", "done", "threw"}]
  /\ ip \in [Roles -> 1 .. (Len(Program) + 1)]
  /\ mem \in [Parties -> [secret_share : Vector, blind : Vector,
                          sbv_secret_share : [Index -> BOOLEAN],
                          cancellation_term : XWord, update_vals : Seq(XWord)]]
  /\ \A p \in Parties : Len(res[p]) = ip[p] - 1

\* The steps that both parties have completed.
Common == {k \in Steps : k < ip["P0"] /\ k < ip["P1"]}

\* The number of calls of one kind before step k.
Before(k, call) == Cardinality({i \in 1 .. (k - 1) : Program[i] = call})

\* What set_share stored in p: the shares and the blinds have moved together.
Stored(p) == XorVec(mem[p].secret_share, mem[p].blind)

\* The array, after as many updates as come before step k.
ArrayAt(k) ==
  XorVec(XorVec(Stored("P0"), Stored("P1")),
         Point(UpdAlpha, IF Before(k, "update") % 2 = 1 THEN UpdValue ELSE {}))

\* Both parties reconstruct the same array: the one that was stored, with the
\* value of P2 at the place of P2 for each update, although each has applied
\* the output of a key it cannot tell from noise.
ReconstructCorrect ==
  \A k \in Common :
    Program[k] = "reconstruct" => \A p \in Parties : res[p][k] = ArrayAt(k)

\* What set_share stored is an array of zeros: the two shares are the same.  In
\* locoram_test the shares themselves are zero.
ZeroArray == Stored("P0") = Stored("P1")

\* The first read of such an array, however many updates came before it, opens to
\* the value that the parties shared in the first update, plus the word of a SHARE
\* at the NODE of P2's point: the blinds and all but one of the places that the
\* advice bits select cancel, and that one place is neither P2's nor secret.
FirstReadCorrect ==
  \A k \in Common :
    /\ ZeroArray /\ Program[k] = "open" /\ Program[k - 1] = "readX"
    /\ Before(k - 1, "readX") + Before(k - 1, "readA") = 0
    => \A p \in Parties :
         res[p][k] = Xor(Xor(mem["P0"].update_vals[1], mem["P1"].update_vals[1]),
                         Stored("P1")[ReadAlpha \div LPN])

\* No role hangs: not in the reconstruction, in which P1 waits for P0 to write
\* first, and not on a peer that threw because a share of an index was too big.
Termination == <>(\A r \in Roles : st[r] # "run")
=============================================================================
